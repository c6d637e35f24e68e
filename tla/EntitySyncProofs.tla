--------------------------- MODULE EntitySyncProofs ---------------------------
(***************************************************************************)
(* What holds of the models of the node server, their state file and their *)
(* folder for all names, queries and numbers of edits and kills: types,    *)
(* and, if syncs do not overlap, that what a sync has written never comes  *)
(* back as an edit.                                                        *)
(***************************************************************************)
EXTENDS EntitySync, TLAPS, WellFoundedInduction

OneSync == \A s, y \in Syncs : s = y

\* A sync runs, and calls are put off, only while the server is up; a sync that
\* is on its way has found or made a state file.
Awake ==
  /\ timers # {} => Up
  /\ \A s \in Syncs : sync[s].at # "idle" => Up /\ file # None
TypeInv == StatesOK /\ Awake

Real(st) == st \notin {None, Partial}
IsName(models, n) == Named(models, n) # {}
Listed(s, n) == n \in DOMAIN sync[s].listed /\ sync[s].listed[n] # 0
Saving == {"create", "update", "save"}
Quiet == \A s \in Syncs : sync[s].at = "idle"

\* Which states are there, by where the sync is.
Places ==
  /\ Up => Distinct(store.models)
  /\ Quiet => file # Partial
  /\ \A s \in Syncs :
       /\ sync[s].at # "idle" => Up
       /\ sync[s].at = "read" => Real(file)
       /\ sync[s].at \in Saving => file = Partial /\ Distinct(sync[s].save.models)
  /\ Real(file) => Distinct(file.models)

\* The models of a state have the queries that the server has written last.
SameQuery(st, fs) ==
  \A o \in st.models : fs[o.name] # None /\ fs[o.name].by = "server" => fs[o.name].query = o.query

\* A file that the server has written last has a model in the state that is or
\* will be in the state file, or is known to have had one.
HasModel(n) ==
  /\ Quiet => Real(file) /\ (IsName(file.models, n) \/ (Up /\ known[n] # 0))
  /\ \A s \in Syncs :
       /\ sync[s].at # "create"
       /\ sync[s].at = "read" => IsName(file.models, n) \/ Listed(s, n)
       /\ sync[s].at = "update" => IsName(sync[s].save.models, n) \/ Listed(s, n)
       /\ sync[s].at = "save" => IsName(sync[s].save.models, n) \/ known[n] # 0

Own ==
  /\ Places
  /\ Real(file) => SameQuery(file, files)
  /\ \A n \in Names : ~ByUser(n) => HasModel(n)
OwnInv == torn \/ Own

-----------------------------------------------------------------------------
(* The largest time stamp                                                  *)

\* A set of natural numbers has a least element.
LEMMA LeastElement ==
  ASSUME NEW S \in SUBSET Nat, S # {}
  PROVE  \E i \in S : \A j \in S : i <= j
<1> DEFINE R == OpToRel(<, Nat)
<1>1. IsWellFoundedOn(R, Nat)
  BY NatLessThanWellFounded
<1>2. PICK i \in S : \A j \in S : <<j, i>> \notin R
  <2> HIDE DEF R
  <2> QED BY <1>1, WFMin
<1>3. \A j \in S : ~(j < i)
  BY <1>2 DEF OpToRel
<1> QED BY <1>3

LEMMA MaxFacts ==
  ASSUME NEW c \in Nat, NEW S \in SUBSET (0..c), S # {}
  PROVE  Max(S) \in S
<1> DEFINE T == {c - x : x \in S}
<1>1. T \in SUBSET Nat /\ T # {}
  <2>1. \A x \in S : c - x \in Nat
    OBVIOUS
  <2>2. PICK x \in S : TRUE
    OBVIOUS
  <2>3. c - x \in T
    OBVIOUS
  <2> QED BY <2>1, <2>3
<1>2. PICK i \in T : \A j \in T : i <= j
  <2> HIDE DEF T
  <2> QED BY <1>1, LeastElement
<1>3. PICK x \in S : i = c - x
  BY <1>2
<1>4. \A y \in S : x >= y
  <2> SUFFICES ASSUME NEW y \in S PROVE x >= y
    OBVIOUS
  <2>1. c - y \in T
    OBVIOUS
  <2>2. i <= c - y
    BY <1>2, <2>1
  <2> QED BY <1>3, <2>2
<1>5. \E z \in S : \A y \in S : z >= y
  BY <1>3, <1>4
<1> QED BY <1>5 DEF Max

-----------------------------------------------------------------------------
(* Types of the operators                                                  *)

ModelsAt(c) == [id : 1..c, name : Names, query : Queries, upd : 0..c]

LEMMA StateForm ==
  ASSUME NEW st, NEW c
  PROVE  StateAt(st, c) <=>
           /\ st \in [upd : 0..c, models : SUBSET ModelsAt(c)]
           /\ \A m, o \in st.models : m.id = o.id => m = o
BY DEF StateAt, ModelsAt

LEMMA Later ==
  ASSUME NEW c \in Nat, NEW d \in Nat, c <= d
  PROVE  /\ \A st : StateAt(st, c) => StateAt(st, d)
         /\ \A fs : FilesAt(fs, c) => FilesAt(fs, d)
         /\ \A y : SyncAt(y, c) => SyncAt(y, d)
         /\ ModelsAt(c) \subseteq ModelsAt(d)
<1>0. 1..c \subseteq 1..d /\ 0..c \subseteq 0..d
  OBVIOUS
<1>1. ModelsAt(c) \subseteq ModelsAt(d)
  BY <1>0 DEF ModelsAt
<1>2. ASSUME NEW st, StateAt(st, c) PROVE StateAt(st, d)
  <2>1. st \in [upd : 0..c, models : SUBSET ModelsAt(c)]
    BY <1>2, StateForm
  <2>2. st \in [upd : 0..d, models : SUBSET ModelsAt(d)]
    BY <1>0, <1>1, <2>1
  <2> QED BY <1>2, <2>2, StateForm
<1>3. ASSUME NEW fs, FilesAt(fs, c) PROVE FilesAt(fs, d)
  <2>1. [query : Queries, time : 1..c, by : {"user", "server"}]
          \subseteq [query : Queries, time : 1..d, by : {"user", "server"}]
    BY <1>0
  <2> QED BY <1>3, <2>1 DEF FilesAt
<1>4. ASSUME NEW y, SyncAt(y, c) PROVE SyncAt(y, d)
  BY <1>2, <1>4 DEF SyncAt
<1> QED BY <1>1, <1>2, <1>3, <1>4

LEMMA RealState ==
  ASSUME NEW st, NEW c \in Nat, StateAt(st, c)
  PROVE  st # None /\ Real(st)
<1>1. [upd : 0..c, models : SUBSET [id : 1..c, name : Names, query : Queries, upd : 0..c]]
        \subseteq [upd : Nat, models : SUBSET [id : Nat, name : Names, query : Queries, upd : Nat]]
  OBVIOUS
<1> QED BY <1>1, StatesAssumption DEF StateAt, Real

LEMMA EmptyFacts == \A c \in Nat : StateAt(EmptyState, c)
BY DEF EmptyState, State, StateAt

LEMMA NoSyncFacts == \A c \in Nat : SyncAt(NoSync, c)
<1> SUFFICES ASSUME NEW c \in Nat PROVE SyncAt(NoSync, c)
  OBVIOUS
<1>1. NoSync = [at |-> NoSync.at, save |-> NoSync.save, listed |-> NoSync.listed]
      /\ NoSync.at = "idle" /\ NoSync.save = EmptyState /\ NoSync.listed = <<>>
  BY DEF NoSync
<1>2. DOMAIN NoSync.listed = {}
  BY <1>1
<1> QED BY <1>1, <1>2, EmptyFacts DEF SyncAt

\* The time goes on when memory or disk changes.
LEMMA TickFacts ==
  ASSUME clock \in Nat, Tick
  PROVE  /\ Now \in Nat /\ clock <= Now /\ clock' \in Nat /\ clock <= clock' /\ clock' <= Now
         /\ clock' = Now \/ (clock' = clock /\ UNCHANGED <<store, file, files>>)
BY DEF Tick, Now, disk

LEMMA SavedFacts ==
  ASSUME NEW fs, NEW c \in Nat, c <= Now, clock \in Nat, FilesAt(fs, Now),
         NEW models \in SUBSET ModelsAt(c)
  PROVE  /\ FilesAt(Saved(fs, models), Now)
         /\ \A n \in Names :
              /\ ~IsName(models, n) => Saved(fs, models)[n] = fs[n]
              /\ IsName(models, n) => \E m \in models :
                   m.name = n /\ Saved(fs, models)[n] = File(m.query, Now, "server")
<1> DEFINE w == Saved(fs, models)
<1>1. DOMAIN w = Names
  BY DEF Saved
<1>2. ASSUME NEW n \in Names
      PROVE  /\ ~IsName(models, n) => w[n] = fs[n]
             /\ IsName(models, n) => \E m \in models : m.name = n /\ w[n] = File(m.query, Now, "server")
  <2>1. w[n] = IF Named(models, n) = {} THEN fs[n] ELSE File(TheOne(Named(models, n)).query, Now, "server")
    BY DEF Saved
  <2>2. Named(models, n) # {} => TheOne(Named(models, n)) \in Named(models, n)
    BY DEF TheOne
  <2> QED BY <2>1, <2>2 DEF IsName, Named
<1> HIDE DEF w
<1>3. ASSUME NEW n \in Names
      PROVE  w[n] = None \/ w[n] \in [query : Queries, time : 1..Now, by : {"user", "server"}]
  <2>1. CASE IsName(models, n)
    <3>1. PICK m \in models : w[n] = File(m.query, Now, "server")
      BY <1>2, <2>1
    <3>2. m.query \in Queries /\ Now \in 1..Now
      BY DEF ModelsAt, Now
    <3> QED BY <3>1, <3>2 DEF File
  <2>2. CASE ~IsName(models, n)
    BY <1>2, <2>2 DEF FilesAt
  <2> QED BY <2>1, <2>2
<1> QED BY <1>1, <1>2, <1>3 DEF FilesAt, w

LEMMA UpdateFacts ==
  ASSUME clock \in Nat, FilesAt(files, clock), NEW m \in ModelsAt(clock)
  PROVE  Update(m) \in ModelsAt(Now) /\ Update(m).id = m.id /\ Update(m).name = m.name
         /\ (Update(m).query # m.query => Newer(m))
<1>0. Now \in Nat /\ clock <= Now /\ Now \in 0..Now
  BY DEF Now
<1>1. m \in ModelsAt(Now)
  BY <1>0, Later
<1>2. CASE Newer(m)
  <2>1. m.name \in Names /\ files[m.name] # None
    BY <1>2 DEF Newer, ModelsAt
  <2>2. files[m.name].query \in Queries
    BY <2>1 DEF FilesAt
  <2>3. Update(m) = [m EXCEPT !.query = files[m.name].query, !.upd = Now]
    BY <1>2 DEF Update
  <2> QED BY <1>0, <1>1, <1>2, <2>2, <2>3 DEF ModelsAt
<1>3. CASE ~Newer(m)
  BY <1>1, <1>3 DEF Update
<1> QED BY <1>2, <1>3

LEMMA UpdatedFacts ==
  ASSUME clock \in Nat, FilesAt(files, clock), NEW st, StateAt(st, clock)
  PROVE  /\ StateAt(Updated(st), Now)
         /\ \A m \in Updated(st).models : \E o \in st.models : m = Update(o) /\ m.id = o.id /\ m.name = o.name
                                                              /\ (m.query # o.query => Newer(o))
         /\ \A n : IsName(Updated(st).models, n) <=> IsName(st.models, n)
         /\ Distinct(st.models) => Distinct(Updated(st).models)
<1> DEFINE ms == {Update(m) : m \in st.models}
           w == Updated(st)
<1>0. Now \in Nat /\ clock <= Now /\ st \in [upd : 0..clock, models : SUBSET ModelsAt(clock)]
      /\ \A m, o \in st.models : m.id = o.id => m = o
  BY StateForm DEF Now
<1>1. w.upd = st.upd /\ w.models = ms /\ w = [upd |-> st.upd, models |-> ms]
  BY <1>0 DEF Updated
<1>2. \A m \in st.models : /\ Update(m) \in ModelsAt(Now) /\ Update(m).id = m.id /\ Update(m).name = m.name
                           /\ Update(m).query # m.query => Newer(m)
  BY <1>0, UpdateFacts
<1> HIDE DEF w
<1>3. w \in [upd : 0..Now, models : SUBSET ModelsAt(Now)]
  BY <1>0, <1>1, <1>2
<1>4. \A m, o \in w.models : m.id = o.id => m = o
  BY <1>0, <1>1, <1>2
<1>5. \A m \in w.models : \E o \in st.models : m = Update(o) /\ m.id = o.id /\ m.name = o.name
                                              /\ (m.query # o.query => Newer(o))
  BY <1>1, <1>2
<1>6. \A n : IsName(w.models, n) <=> IsName(st.models, n)
  BY <1>1, <1>2 DEF IsName, Named
<1>7. Distinct(st.models) => Distinct(w.models)
  BY <1>1, <1>2 DEF Distinct
<1> QED BY <1>3, <1>4, <1>5, <1>6, <1>7, StateForm DEF w

LEMMA StampedFacts ==
  ASSUME NEW c \in Nat, NEW st, StateAt(st, c)
  PROVE  StateAt(Stamped(st), c) /\ Stamped(st).models = st.models
<1> DEFINE S == {st.upd} \cup {m.upd : m \in st.models}
<1>0. st \in [upd : 0..c, models : SUBSET ModelsAt(c)]
  BY StateForm
<1>1. S \subseteq 0..c /\ S # {}
  BY <1>0 DEF ModelsAt
<1>2. Stamped(st) = [st EXCEPT !.upd = Max(S)]
  BY DEF Stamped
<1> HIDE DEF S
<1>3. Max(S) \in 0..c
  BY <1>1, MaxFacts
<1>4. Stamped(st) \in [upd : 0..c, models : SUBSET ModelsAt(c)] /\ Stamped(st).models = st.models
  BY <1>0, <1>2, <1>3
<1> QED BY <1>4, StateForm

LEMMA MergedFacts ==
  ASSUME clock \in Nat, StateAt(store, clock), NEW state, StateAt(state, clock)
  PROVE  StateAt(Merged(state), Now)
<1> DEFINE newer == {m \in state.models : \E o \in WithId(store.models, m.id) : m.upd > o.upd}
           added == {m \in state.models : WithId(store.models, m.id) = {}}
           kept  == {m \in store.models : m.id \notin Ids(newer)}
           fresh == {[m EXCEPT !.upd = Now] : m \in newer}
           ms == kept \cup added \cup fresh
<1>0. Now \in Nat /\ clock <= Now /\ Now \in 0..Now
  BY DEF Now
<1>1. /\ store.models \subseteq ModelsAt(Now) /\ state.models \subseteq ModelsAt(Now)
      /\ \A m, o \in store.models : m.id = o.id => m = o
      /\ \A m, o \in state.models : m.id = o.id => m = o
  <2>1. StateAt(store, Now) /\ StateAt(state, Now)
    BY <1>0, Later
  <2> QED BY <2>1, StateForm
<1>2. \A m \in newer : /\ [m EXCEPT !.upd = Now] \in ModelsAt(Now) /\ [m EXCEPT !.upd = Now].id = m.id
                       /\ m \in state.models
  BY <1>0, <1>1 DEF ModelsAt
<1>3. ms \subseteq ModelsAt(Now)
  BY <1>1, <1>2
<1>4. ASSUME NEW m \in ms, NEW o \in ms, m.id = o.id PROVE m = o
  <2>1. \A x \in fresh : \E y \in newer : x = [y EXCEPT !.upd = Now] /\ x.id = y.id
    BY <1>2
  <2>2. \A x \in kept, y \in fresh : x.id # y.id
    BY <2>1 DEF Ids
  <2>3. \A x \in kept, y \in added : x.id # y.id
    BY DEF WithId
  <2>4. \A x \in added, y \in fresh : x.id # y.id
    <3> SUFFICES ASSUME NEW x \in added, NEW y \in fresh, x.id = y.id PROVE FALSE
      OBVIOUS
    <3>1. PICK z \in newer : y.id = z.id
      BY <2>1
    <3>2. PICK w \in WithId(store.models, z.id) : TRUE
      OBVIOUS
    <3> QED BY <3>1, <3>2
  <2>5. \A x, y \in fresh : x.id = y.id => x = y
    BY <2>1, <1>1
  <2> QED BY <1>1, <1>4, <2>2, <2>3, <2>4, <2>5
<1>5. Merged(state) = IF newer \cup added \cup kept = {} THEN store ELSE State(Now, ms)
  BY DEF Merged
<1>6. StateAt(State(Now, ms), Now)
  <2>1. State(Now, ms).models = ms /\ State(Now, ms) = [upd |-> Now, models |-> ms]
    BY DEF State
  <2> HIDE DEF ms
  <2>2. State(Now, ms) \in [upd : 0..Now, models : SUBSET ModelsAt(Now)]
    BY <1>0, <1>3, <2>1
  <2> QED BY <1>4, <2>1, <2>2, StateForm
<1>7. StateAt(store, Now)
  BY <1>0, Later
<1> HIDE DEF ms, newer, added, kept
<1> QED BY <1>5, <1>6, <1>7

-----------------------------------------------------------------------------
(* Types of the steps                                                      *)

SyncsTyped == DOMAIN sync = Syncs /\ \A s \in Syncs : SyncAt(sync[s], clock)

LEMMA StartFacts ==
  ASSUME clock \in Nat, SyncsTyped, NEW s \in Syncs, NEW at \in Saving, NEW state, NEW c \in Nat,
         clock <= c, StateAt(state, c), StartSave(s, at, state)
  PROVE  /\ file' = Partial
         /\ DOMAIN sync' = Syncs
         /\ sync'[s] = [at |-> at, save |-> state, listed |-> sync[s].listed]
         /\ \A y \in Syncs : y # s => sync'[y] = sync[y]
         /\ \A y \in Syncs : SyncAt(sync'[y], c)
<1>1. SyncAt(sync[s], clock)
  BY DEF SyncsTyped
<1>2. sync[s] = [at |-> sync[s].at, save |-> sync[s].save, listed |-> sync[s].listed]
      /\ DOMAIN sync[s].listed \subseteq Names /\ \A n \in DOMAIN sync[s].listed : sync[s].listed[n] \in Nat
  BY <1>1 DEF SyncAt
<1>3. sync' = [sync EXCEPT ![s].at = at, ![s].save = state] /\ file' = Partial
  BY DEF StartSave
<1>4. sync'[s] = [at |-> at, save |-> state, listed |-> sync[s].listed]
  BY <1>2, <1>3 DEF SyncsTyped
<1>5. DOMAIN sync' = Syncs /\ \A y \in Syncs : y # s => sync'[y] = sync[y]
  BY <1>3 DEF SyncsTyped
<1>6. SyncAt(sync'[s], c)
  BY <1>2, <1>4 DEF SyncAt, Saving
<1>7. \A y \in Syncs : SyncAt(sync[y], c)
  BY Later DEF SyncsTyped
<1> QED BY <1>3, <1>4, <1>5, <1>6, <1>7

LEMMA ListFacts ==
  ASSUME clock \in Nat, SyncsTyped, known \in [Names -> Nat], NEW s \in Syncs, NEW fs, List(s, fs)
  PROVE  /\ DOMAIN sync' = Syncs
         /\ sync'[s] = [at |-> "read", save |-> sync[s].save, listed |-> [n \in Present(fs) |-> known[n]]]
         /\ \A y \in Syncs : y # s => sync'[y] = sync[y]
         /\ \A y \in Syncs : SyncAt(sync'[y], clock)
         /\ previous' = known /\ known' = NoFiles /\ known' \in [Names -> Nat]
<1>1. SyncAt(sync[s], clock)
  BY DEF SyncsTyped
<1>2. sync[s] = [at |-> sync[s].at, save |-> sync[s].save, listed |-> sync[s].listed]
      /\ StateAt(sync[s].save, clock)
  BY <1>1 DEF SyncAt
<1> DEFINE l == [n \in Present(fs) |-> known[n]]
<1>3. sync' = [sync EXCEPT ![s].at = "read", ![s].listed = l] /\ previous' = known /\ known' = NoFiles
  BY DEF List
<1>4. DOMAIN l \subseteq Names /\ \A n \in DOMAIN l : l[n] \in Nat
  BY DEF Present
<1> HIDE DEF l
<1>5. sync'[s] = [at |-> "read", save |-> sync[s].save, listed |-> l]
  BY <1>2, <1>3 DEF SyncsTyped
<1>6. DOMAIN sync' = Syncs /\ \A y \in Syncs : y # s => sync'[y] = sync[y]
  BY <1>3 DEF SyncsTyped
<1>7. SyncAt(sync'[s], clock)
  BY <1>2, <1>4, <1>5 DEF SyncAt
<1>8. NoFiles \in [Names -> Nat]
  BY DEF NoFiles
<1> QED BY <1>3, <1>5, <1>6, <1>7, <1>8 DEF SyncsTyped, l

LEMMA OwnerFacts ==
  ASSUME NEW c \in Nat, NEW st, StateAt(st, c)
  PROVE  /\ [n \in Names |-> Owner(st, n)] \in [Names -> Nat]
         /\ \A n : Owner(st, n) # 0 <=> IsName(st.models, n)
<1>1. st.models \subseteq ModelsAt(c)
  BY StateForm
<1>2. ASSUME NEW n PROVE Owner(st, n) \in Nat /\ (Owner(st, n) # 0 <=> IsName(st.models, n))
  <2>1. CASE Named(st.models, n) = {}
    BY <2>1 DEF Owner, IsName
  <2>2. CASE Named(st.models, n) # {}
    <3>1. TheOne(Named(st.models, n)) \in Named(st.models, n)
      BY <2>2 DEF TheOne
    <3>2. TheOne(Named(st.models, n)).id \in 1..c
      BY <1>1, <3>1 DEF Named, ModelsAt
    <3> QED BY <2>2, <3>2 DEF Owner, IsName
  <2> QED BY <2>1, <2>2
<1> QED BY <1>2

LEMMA PutOffFacts ==
  ASSUME NEW state, NEW listed, DOMAIN listed \subseteq Names, NEW was
  PROVE  \A t \in PutOff(state, listed, was) :
           t.call = "addModel" => t.name \in Names /\ t.name \in DOMAIN listed
                                  /\ listed[t.name] = 0 /\ Owner(state, t.name) = 0
BY DEF PutOff

LEMMA CleanedFacts ==
  ASSUME NEW c, NEW fs, FilesAt(fs, c), NEW gone
  PROVE  /\ FilesAt(Cleaned(fs, gone), c)
         /\ \A n \in Names : Cleaned(fs, gone)[n] = IF n \in gone THEN None ELSE fs[n]
BY DEF Cleaned, FilesAt

\* The files after update has read the state file.
LEMMA FilledFacts ==
  ASSUME clock \in Nat, FilesAt(files, clock), NEW c \in Nat, c <= Now, NEW st, StateAt(st, c), NEW was
  PROVE  /\ FilesAt(Filled(st, was), Now)
         /\ \A n \in Names : \/ Filled(st, was)[n] = files[n]
                             \/ files[n] = None /\ \E m \in st.models :
                                  m.name = n /\ Filled(st, was)[n] = File(m.query, Now, "server")
<1> DEFINE ms == {m \in st.models : Fresh(m, was)}
<1>1. ms \in SUBSET ModelsAt(c)
  BY StateForm
<1>2. Now \in Nat /\ clock <= Now
  BY DEF Now
<1>3. FilesAt(files, Now)
  BY <1>2, Later
<1>4. Filled(st, was) = Saved(files, ms)
  BY DEF Filled
<1>5. \A m \in ms : m \in st.models /\ files[m.name] = None
  BY DEF Fresh
<1> HIDE DEF ms
<1>6. /\ FilesAt(Saved(files, ms), Now)
      /\ \A n \in Names :
           /\ ~IsName(ms, n) => Saved(files, ms)[n] = files[n]
           /\ IsName(ms, n) => \E m \in ms : m.name = n /\ Saved(files, ms)[n] = File(m.query, Now, "server")
  BY <1>1, <1>3, SavedFacts
<1> QED BY <1>4, <1>5, <1>6

LEMMA CompareType ==
  ASSUME TypeInv, Up, Tick, NEW s \in Syncs, NEW state, StateAt(state, clock),
         NEW written, written = Partial \/ StateAt(written, clock), Compare(s, state, written)
  PROVE  /\ StateAt(store', Now)
         /\ file' = Partial \/ StateAt(file', clock)
         /\ DOMAIN sync' = Syncs /\ \A y \in Syncs : SyncAt(sync'[y], clock)
<1>1. clock \in Nat /\ Now \in Nat /\ clock <= Now /\ StateAt(store, clock) /\ SyncsTyped
  BY DEF TypeInv, StatesOK, SyncsTyped, Now, Up
<1>2. StateAt(store', Now)
  <2>1. store' = Merged(state) \/ store' = store
    BY DEF Compare
  <2> QED BY <1>1, <2>1, MergedFacts, Later
<1>3. CASE state.upd < store.upd
  <2>1. StartSave(s, "save", store)
    BY <1>3 DEF Compare
  <2>2. "save" \in Saving
    BY DEF Saving
  <2>3. file' = Partial /\ DOMAIN sync' = Syncs /\ \A y \in Syncs : SyncAt(sync'[y], clock)
    <3>1. clock <= clock
      BY <1>1
    <3> QED BY ONLY <1>1, <2>1, <2>2, <3>1, StartFacts
  <2> QED BY <1>2, <2>3
<1>4. CASE ~(state.upd < store.upd)
  <2>1. sync' = [sync EXCEPT ![s] = NoSync] /\ file' = written
    BY <1>4 DEF Compare
  <2> QED BY <1>1, <1>2, <2>1, NoSyncFacts DEF SyncsTyped
<1> QED BY <1>3, <1>4

\* An action types what it changes: memory and disk at the present time, which
\* becomes the time when one of them has changed.
LEMMA TypeStep ==
  ASSUME TypeInv, Tick,
         store' = None \/ StateAt(store', Now),
         file' \in {None, Partial} \/ StateAt(file', Now),
         FilesAt(files', Now),
         known' \in [Names -> Nat], previous' \in [Names -> Nat],
         DOMAIN sync' = Syncs, \A y \in Syncs : SyncAt(sync'[y], clock'),
         \A t \in timers' : t \in timers \/ (t.call = "addModel" => t.name \in Names),
         timers' # {} => Up', \A y \in Syncs : sync'[y].at # "idle" => Up' /\ file' # None
  PROVE  TypeInv'
<1>1. clock \in Nat /\ clock' \in Nat
      /\ (clock' = Now \/ (clock' = clock /\ UNCHANGED <<store, file, files>>))
  BY TickFacts DEF TypeInv, StatesOK
<1>2. /\ store' = None \/ StateAt(store', clock')
      /\ file' \in {None, Partial} \/ StateAt(file', clock')
      /\ FilesAt(files', clock')
  BY <1>1 DEF TypeInv, StatesOK
<1>3. \A t \in timers' : t.call = "addModel" => t.name \in Names
  BY DEF TypeInv, StatesOK
<1>4. StatesOK'
  BY <1>1, <1>2, <1>3 DEF StatesOK
<1> QED BY <1>4 DEF TypeInv, Awake

LEMMA Present0 ==
  ASSUME TypeInv
  PROVE  /\ clock \in Nat /\ Now \in Nat /\ clock <= Now /\ clock <= clock
         /\ SyncsTyped /\ FilesAt(files, clock) /\ FilesAt(files, Now)
         /\ Up => StateAt(store, clock) /\ StateAt(store, Now)
         /\ file \in {None, Partial} \/ (StateAt(file, clock) /\ StateAt(file, Now) /\ Real(file))
         /\ known \in [Names -> Nat] /\ previous \in [Names -> Nat]
         /\ \A s \in Syncs : StateAt(sync[s].save, clock) /\ DOMAIN sync[s].listed \subseteq Names
         /\ \A s \in Syncs : sync[s].at # "idle" => Up /\ file # None
<1>1. clock \in Nat /\ Now \in Nat /\ clock <= Now
  BY DEF TypeInv, StatesOK, Now
<1>2. StateAt(file, clock) => Real(file)
  BY <1>1, RealState
<1>3. SyncsTyped
  BY DEF TypeInv, StatesOK, SyncsTyped
<1>4. \A s \in Syncs : StateAt(sync[s].save, clock) /\ DOMAIN sync[s].listed \subseteq Names
  BY <1>3 DEF SyncsTyped, SyncAt
<1>5. /\ FilesAt(files, clock) /\ FilesAt(files, Now)
      /\ store # None => StateAt(store, clock) /\ StateAt(store, Now)
      /\ file \in {None, Partial} \/ (StateAt(file, clock) /\ StateAt(file, Now))
  BY <1>1, Later DEF TypeInv, StatesOK
<1> QED BY <1>1, <1>2, <1>3, <1>4, <1>5 DEF TypeInv, StatesOK, Up, Awake

\* While memory and disk are the same, the time is too.
LEMMA SameTime ==
  ASSUME clock \in Nat, Tick
  PROVE  /\ DOMAIN sync = Syncs /\ (\A y \in Syncs : SyncAt(sync[y], clock))
              => \A y \in Syncs : SyncAt(sync[y], clock')
         /\ \A y : SyncAt(y, clock) => SyncAt(y, clock')
         /\ \A y : StateAt(y, clock) => StateAt(y, clock')
BY TickFacts, Later

LEMMA BeginType ==
  ASSUME TypeInv, NEW s \in Syncs, BeginSync(s)
  PROVE  TypeInv'
<1>1. Up /\ UNCHANGED <<store, timers, files, clock>> /\ Up'
  BY DEF BeginSync, Up
<1>2. /\ file' = Partial \/ (file' = file /\ file # None)
      /\ known' \in [Names -> Nat] /\ previous' \in [Names -> Nat]
      /\ DOMAIN sync' = Syncs /\ \A y \in Syncs : SyncAt(sync'[y], clock)
  <2>1. CASE file = None
    <3>1. StartSave(s, "create", store) /\ UNCHANGED <<known, previous>> /\ "create" \in Saving
      BY <2>1 DEF BeginSync, Saving
    <3>2. StateAt(store, clock) /\ SyncsTyped /\ clock \in Nat /\ clock <= clock
      BY <1>1, Present0
    <3>3. file' = Partial /\ DOMAIN sync' = Syncs /\ \A y \in Syncs : SyncAt(sync'[y], clock)
      BY ONLY <3>1, <3>2, StartFacts
    <3> QED BY <3>1, <3>3, Present0
  <2>2. CASE file # None
    <3>1. List(s, files) /\ file' = file
      BY <2>2 DEF BeginSync
    <3> QED BY <2>2, <3>1, Present0, ListFacts
  <2> QED BY <2>1, <2>2
<1>3. file' # None
  BY <1>2, StatesAssumption
<1>4. StatesOK'
  <2>1. clock' = clock /\ (file' \in {None, Partial} \/ StateAt(file', clock))
    BY <1>1, <1>2, Present0
  <2> QED BY <1>1, <1>2, <2>1 DEF TypeInv, StatesOK
<1> QED BY <1>1, <1>3, <1>4 DEF TypeInv, Awake

LEMMA StoreType ==
  ASSUME TypeInv, Up, NEW models, models \subseteq ModelsAt(Now),
         \A m, o \in models : m.id = o.id => m = o,
         store' = State(Now, models), UNCHANGED <<known, previous, timers, file, files, sync>>, Tick
  PROVE  TypeInv' /\ Up'
<1>1. /\ store' = State(Now, models) /\ UNCHANGED <<known, previous, timers, file, files, sync>>
      /\ Tick
  OBVIOUS
<1>2. StateAt(store', Now)
  <2>1. store' = [upd |-> Now, models |-> models] /\ Now \in 0..Now
    BY <1>1, Present0 DEF State
  <2>2. store' \in [upd : 0..Now, models : SUBSET ModelsAt(Now)] /\ store'.models = models
    BY <2>1
  <2> QED BY <2>2, StateForm
<1>3. Up'
  BY <1>2, Present0, RealState DEF Up
<1>4. \A y \in Syncs : SyncAt(sync'[y], clock')
  BY <1>1, Present0, SameTime DEF SyncsTyped
<1>5. FilesAt(files', Now) /\ (file' \in {None, Partial} \/ StateAt(file', Now))
      /\ known' \in [Names -> Nat] /\ previous' \in [Names -> Nat] /\ DOMAIN sync' = Syncs
  BY <1>1, Present0 DEF SyncsTyped
<1>6. \A y \in Syncs : sync'[y].at # "idle" => Up' /\ file' # None
  BY <1>1, <1>3, Present0
<1>7. \A t \in timers' : t \in timers
  BY <1>1
<1> HIDE DEF Up
<1>8. TypeInv'
  BY ONLY TypeInv, <1>1, <1>2, <1>3, <1>4, <1>5, <1>6, <1>7, TypeStep
<1> QED BY <1>3, <1>8

LEMMA ActType ==
  ASSUME TypeInv, Up, NEW models, models \subseteq ModelsAt(Now),
         \A m, o \in models : m.id = o.id => m = o,
         Act(models)
  PROVE  TypeInv' /\ Up'
<1>1. /\ store' = State(Now, models) /\ UNCHANGED <<known, previous, timers, file, files, sync>>
      /\ Tick
  BY DEF Act, disk
<1> QED BY <1>1, StoreType

\* A request that waits, and a source, is nothing to the models.
LEMMA SameStates ==
  ASSUME TypeInv, UNCHANGED <<memory, disk, sync, clock>>
  PROVE  TypeInv' /\ (Up => Up')
BY DEF memory, disk, TypeInv, StatesOK, Awake, Up

LEMMA EditFileType ==
  ASSUME TypeInv, NEW n \in Names, NEW content,
         content = None \/ content \in [query : Queries, time : 1..Now, by : {"user", "server"}],
         EditFile(n, content)
  PROVE  TypeInv' /\ (Up => Up')
<1>1. /\ files' = [files EXCEPT ![n] = content]
      /\ UNCHANGED <<store, known, previous, timers, file, sync>> /\ Tick
  BY DEF EditFile, memory
<1>2. FilesAt(files', Now)
  BY <1>1, Present0 DEF FilesAt
<1>3. /\ store' = None \/ StateAt(store', Now)
      /\ file' \in {None, Partial} \/ StateAt(file', Now)
      /\ known' \in [Names -> Nat] /\ previous' \in [Names -> Nat] /\ DOMAIN sync' = Syncs
  BY <1>1, Present0 DEF SyncsTyped, Up
<1>4. \A y \in Syncs : SyncAt(sync'[y], clock')
  BY <1>1, Present0, SameTime DEF SyncsTyped
<1>5. timers' # {} => Up'
  BY <1>1 DEF TypeInv, Awake, Up
<1>6. \A y \in Syncs : sync'[y].at # "idle" => Up' /\ file' # None
  BY <1>1, Present0 DEF Up
<1>7. \A t \in timers' : t \in timers
  BY <1>1
<1>8. TypeInv'
  BY ONLY TypeInv, <1>1, <1>2, <1>3, <1>4, <1>5, <1>6, <1>7, TypeStep
<1> QED BY <1>1, <1>8 DEF Up

LEMMA StoreFacts ==
  ASSUME TypeInv, Up
  PROVE  /\ store.models \subseteq ModelsAt(clock) /\ store.models \subseteq ModelsAt(Now)
         /\ \A m, o \in store.models : m.id = o.id => m = o
         /\ Now \in Nat /\ Now \in 1..Now /\ Now \in 0..Now /\ clock < Now
<1>1. StateAt(store, clock) /\ StateAt(store, Now)
  BY Present0
<1>2. Now \in Nat /\ clock \in Nat /\ clock < Now
  BY Present0 DEF Now
<1> QED BY <1>1, <1>2, StateForm DEF Now

\* addModel, called or put off.
LEMMA AddedFacts ==
  ASSUME TypeInv, Up, NEW n \in Names, NEW q \in Queries
  PROVE  /\ Added(store.models, n, q) \subseteq ModelsAt(Now)
         /\ \A m, o \in Added(store.models, n, q) : m.id = o.id => m = o
<1> DEFINE x == Model(NewId, n, q, IF q = Empty THEN 0 ELSE Now)
<1>1. x.id = Now /\ x \in ModelsAt(Now)
  BY StoreFacts DEF Model, NewId, ModelsAt
<1>2. \A m \in store.models : m.id # Now
  <2>1. \A m \in ModelsAt(clock) : m.id \in 1..clock
    BY DEF ModelsAt
  <2> QED BY <2>1, Present0, StoreFacts
<1>3. Added(store.models, n, q) = store.models \cup {x}
  BY DEF Added
<1> HIDE DEF x
<1> QED BY <1>1, <1>2, <1>3, StoreFacts

LEMMA EditsType ==
  ASSUME TypeInv, Edits
  PROVE  TypeInv' /\ (Up => Up')
<1>1. CASE \E n \in Names, q \in Queries : AddModel(n, q)
  <2>1. PICK n \in Names, q \in Queries : AddModel(n, q)
    BY <1>1
  <2>2. Up /\ Act(Added(store.models, n, q))
    BY <2>1 DEF AddModel
  <2> QED BY <2>2, AddedFacts, ActType
<1>2. CASE \E n \in Names, q \in Queries : WriteFile(n, q)
  <2>1. PICK n \in Names, q \in Queries : WriteFile(n, q)
    BY <1>2
  <2>2. File(q, Now, "user") \in [query : Queries, time : 1..Now, by : {"user", "server"}]
    BY Present0 DEF File, Now
  <2> QED BY <2>1, <2>2, EditFileType DEF WriteFile
<1>3. CASE \E n \in Names : RemoveFile(n)
  BY <1>3, EditFileType DEF RemoveFile
<1>4. ASSUME Up, NEW m \in store.models, DeleteModel(m) PROVE TypeInv' /\ (Up => Up')
  BY <1>4, StoreFacts, ActType DEF DeleteModel
<1>5. ASSUME Up, NEW m \in store.models, NEW o,
             o = [m EXCEPT !.query = o.query, !.upd = Now], o.query \in Queries,
             Act((store.models \ {m}) \cup {o})
      PROVE  TypeInv' /\ (Up => Up')
  <2>1. m \in ModelsAt(Now)
    BY <1>5, StoreFacts
  <2>2. o \in ModelsAt(Now) /\ o.id = m.id
    BY <1>5, <2>1, StoreFacts DEF ModelsAt
  <2> DEFINE ms == (store.models \ {m}) \cup {o}
  <2>3. ms \subseteq ModelsAt(Now) /\ \A x, y \in ms : x.id = y.id => x = y
    BY <1>5, <2>2, StoreFacts
  <2> HIDE DEF ms
  <2>4. Act(ms)
    BY <1>5 DEF ms
  <2> QED BY <1>5, <2>3, <2>4, ActType
<1>6. ASSUME Up, NEW m \in store.models, NEW q \in Queries, UpdateModelQuery(m, q) PROVE TypeInv' /\ (Up => Up')
  <2> DEFINE o == [m EXCEPT !.query = q, !.upd = Now]
  <2>1. m \in ModelsAt(Now)
    BY <1>6, StoreFacts
  <2>2. o.query = q /\ o = [m EXCEPT !.query = o.query, !.upd = Now]
    BY <2>1 DEF ModelsAt
  <2>3. Act((store.models \ {m}) \cup {o})
    BY <1>6 DEF UpdateModelQuery
  <2> HIDE DEF o
  <2> QED BY <1>5, <1>6, <2>2, <2>3
<1>7. ASSUME Up, NEW m \in store.models, NEW n \in Names, UpdateModelName(m, n) PROVE TypeInv' /\ (Up => Up')
  BY <1>7, SameStates DEF UpdateModelName
<1>8. ASSUME NEW n \in SourceNames, AddSource(n) \/ DropSource(n) PROVE TypeInv' /\ (Up => Up')
  BY <1>8, SameStates DEF AddSource, DropSource, ChangeSources
<1> QED BY <1>1, <1>2, <1>3, <1>4, <1>6, <1>7, <1>8 DEF Edits

\* A model is renamed when DuckDB has renamed its view.
LEMMA RenamedFacts ==
  ASSUME TypeInv, RequestsOK, NEW r \in renames, Renamed(r)
  PROVE  TypeInv' /\ Up' /\ UNCHANGED <<known, timers, file, files, sync>>
<1>1. Up /\ Tick /\ UNCHANGED <<known, previous, timers, file, files, sync>>
  BY DEF Renamed, disk
<1>2. CASE UNCHANGED store
  <2>1. UNCHANGED clock
    BY <1>1, <1>2 DEF Tick, disk
  <2> QED BY <1>1, <1>2, <2>1, SameStates DEF memory, disk, Renamed, Up
<1>3. ASSUME NEW m \in WithId(store.models, r.id),
             store' = State(Now, (store.models \ {m}) \cup {[m EXCEPT !.name = r.name, !.upd = Now]})
      PROVE  TypeInv' /\ Up'
  <2> DEFINE o  == [m EXCEPT !.name = r.name, !.upd = Now]
             ms == (store.models \ {m}) \cup {o}
  <2>1. m \in store.models /\ m \in ModelsAt(Now) /\ r.name \in Names
    BY <1>1, StoreFacts DEF WithId, RequestsOK
  <2>2. o \in ModelsAt(Now) /\ o.id = m.id
    BY <1>1, <2>1, StoreFacts DEF ModelsAt
  <2>3. store' = State(Now, ms)
    BY <1>3
  <2> HIDE DEF o
  <2>4. ms \subseteq ModelsAt(Now) /\ \A x, y \in ms : x.id = y.id => x = y
    BY <1>1, <2>1, <2>2, StoreFacts
  <2> HIDE DEF ms
  <2> QED BY <1>1, <2>3, <2>4, StoreType
<1> QED BY <1>1, <1>2, <1>3 DEF Renamed, Up

LEMMA FinishType ==
  ASSUME TypeInv, Tick, NEW s \in Syncs, sync[s].at # "idle", NEW state, StateAt(state, clock),
         NEW fs, FilesAt(fs, Now), Finish(s, state, fs)
  PROVE  TypeInv'
<1> DEFINE listed   == sync[s].listed
           obsolete == Obsolete(state, listed)
           last     == IF obsolete \subseteq Present(fs) THEN Stamped(state) ELSE EmptyState
<1>1. Up /\ file # None
  BY Present0
<1>2. /\ known' = [n \in Names |-> Owner(state, n)] /\ previous' = previous
      /\ timers' = timers \cup PutOff(state, listed, previous)
  BY DEF Finish
<1>3. PICK gone : files' = Cleaned(fs, gone) /\ Compare(s, last, state)
  BY DEF Finish
<1>4. StateAt(last, clock)
  BY Present0, StampedFacts, EmptyFacts
<1> HIDE DEF last, listed
<1>5. /\ StateAt(store', Now)
      /\ file' = Partial \/ StateAt(file', clock)
      /\ DOMAIN sync' = Syncs /\ \A y \in Syncs : SyncAt(sync'[y], clock)
  <2> HIDE DEF Compare, Up
  <2> QED BY <1>1, <1>3, <1>4, CompareType
<1>6. FilesAt(files', Now)
  BY <1>3, CleanedFacts
<1>7. known' \in [Names -> Nat] /\ previous' \in [Names -> Nat]
  BY <1>2, Present0, OwnerFacts
<1>8. \A y \in Syncs : SyncAt(sync'[y], clock')
  BY <1>5, Present0, SameTime
<1>9. \A t \in timers' : t \in timers \/ (t.call = "addModel" => t.name \in Names)
  <2>1. DOMAIN listed \subseteq Names
    BY Present0 DEF listed
  <2> QED BY <1>2, <2>1, PutOffFacts
<1>10. Up' /\ file' # None
  <2>1. StateAt(file', clock) => Real(file')
    BY Present0, RealState
  <2> QED BY <1>5, <2>1, Present0, RealState, StatesAssumption DEF Up, Real
<1>11. store' = None \/ StateAt(store', Now)
  BY <1>5
<1>12. file' \in {None, Partial} \/ StateAt(file', Now)
  BY <1>5, Present0, Later
<1>13. timers' # {} => Up'
  BY <1>10
<1>14. \A y \in Syncs : sync'[y].at # "idle" => Up' /\ file' # None
  BY <1>10
<1>15. DOMAIN sync' = Syncs
  BY <1>5
<1> QED BY ONLY TypeInv, Tick, <1>6, <1>7, <1>8, <1>9, <1>11, <1>12, <1>13, <1>14, <1>15, TypeStep

LEMMA ReadType ==
  ASSUME TypeInv, NEW s \in Syncs, Read(s)
  PROVE  TypeInv'
<1>1. sync[s].at # "idle" /\ Tick /\ Up /\ file # None
  BY Present0 DEF Read
<1>2. CASE file = Partial
  <2>1. Compare(s, EmptyState, file) /\ UNCHANGED <<known, previous, timers, files>>
    BY <1>2 DEF Read
  <2>2. StateAt(EmptyState, clock) /\ (file = Partial \/ StateAt(file, clock))
    BY <1>2, Present0, EmptyFacts
  <2>3. /\ StateAt(store', Now)
        /\ file' = Partial \/ StateAt(file', clock)
        /\ DOMAIN sync' = Syncs /\ \A y \in Syncs : SyncAt(sync'[y], clock)
    BY ONLY TypeInv, <1>1, <2>1, <2>2, CompareType
  <2>4. \A y \in Syncs : SyncAt(sync'[y], clock')
    BY <1>1, <2>3, Present0, SameTime
  <2>5. Up' /\ file' # None
    <3>1. StateAt(file', clock) => Real(file')
      BY Present0, RealState
    <3> QED BY <2>3, <3>1, Present0, RealState, StatesAssumption DEF Up, Real
  <2>6. file' \in {None, Partial} \/ StateAt(file', Now)
    BY <2>3, Present0, Later
  <2>7. known' \in [Names -> Nat] /\ previous' \in [Names -> Nat] /\ FilesAt(files', Now)
    BY <2>1, Present0
  <2>8. \A t \in timers' : t \in timers
    BY <2>1
  <2> QED BY ONLY TypeInv, <1>1, <2>3, <2>4, <2>5, <2>6, <2>7, <2>8, TypeStep
<1>3. CASE file # Partial
  <2>1. StateAt(file, clock)
    BY <1>1, <1>3, Present0
  <2>2. FilesAt(Filled(file, previous), Now)
    BY <2>1, Present0, FilledFacts
  <2>3. CASE Updated(file) # file
    <3>1. /\ StartSave(s, "update", Updated(file)) /\ "update" \in Saving
          /\ files' = Filled(file, previous) /\ UNCHANGED <<store, known, previous, timers>>
      BY <1>3, <2>3 DEF Read, memory, Saving
    <3>2. StateAt(Updated(file), Now)
      BY <2>1, Present0, UpdatedFacts
    <3>3. file' = Partial /\ DOMAIN sync' = Syncs /\ \A y \in Syncs : SyncAt(sync'[y], Now)
      <4>1. clock \in Nat /\ Now \in Nat /\ clock <= Now /\ SyncsTyped
        BY Present0
      <4> QED BY ONLY <3>1, <3>2, <4>1, StartFacts
    <3>4. clock' = Now
      BY <1>1, <1>3, <3>3, Present0, TickFacts
    <3>5. Up' /\ file' # None
      BY <1>1, <3>1, <3>3, StatesAssumption DEF Up
    <3>6. store' = None \/ StateAt(store', Now)
      BY <3>1, Present0 DEF Up
    <3>7. known' \in [Names -> Nat] /\ previous' \in [Names -> Nat] /\ FilesAt(files', Now)
      BY <2>2, <3>1, Present0
    <3>8. \A t \in timers' : t \in timers
      BY <3>1
    <3> QED BY ONLY TypeInv, <1>1, <3>3, <3>4, <3>5, <3>6, <3>7, <3>8, TypeStep
  <2>4. CASE Updated(file) = file
    <3>1. Finish(s, file, Filled(file, previous))
      BY <1>3, <2>4 DEF Read
    <3> QED BY ONLY TypeInv, <1>1, <2>1, <2>2, <3>1, FinishType
  <2> QED BY <2>3, <2>4
<1> QED BY <1>2, <1>3

\* The files of the models of a save.
LEMMA AllSavedFacts ==
  ASSUME TypeInv, NEW s \in Syncs
  PROVE  /\ FilesAt(AllSaved(s), Now) /\ StateAt(sync[s].save, clock) /\ StateAt(sync[s].save, Now)
         /\ Real(sync[s].save)
         /\ \A n \in Names :
              /\ ~IsName(sync[s].save.models, n) => AllSaved(s)[n] = files[n]
              /\ IsName(sync[s].save.models, n) => \E m \in sync[s].save.models :
                   m.name = n /\ AllSaved(s)[n] = File(m.query, Now, "server")
<1>1. StateAt(sync[s].save, clock)
  BY Present0
<1>2. sync[s].save.models \in SUBSET ModelsAt(clock)
  BY <1>1, StateForm
<1>3. AllSaved(s) = Saved(files, sync[s].save.models)
  BY DEF AllSaved
<1>4. clock \in Nat /\ clock <= Now /\ Now \in Nat /\ FilesAt(files, Now)
  BY Present0
<1>5. StateAt(sync[s].save, Now) /\ Real(sync[s].save)
  BY <1>1, <1>4, Later, RealState
<1> DEFINE ms == sync[s].save.models
<1> HIDE DEF ms
<1>6. /\ FilesAt(Saved(files, ms), Now)
      /\ \A n \in Names :
           /\ ~IsName(ms, n) => Saved(files, ms)[n] = files[n]
           /\ IsName(ms, n) => \E m \in ms : m.name = n /\ Saved(files, ms)[n] = File(m.query, Now, "server")
  <2>1. ms \in SUBSET ModelsAt(clock)
    BY <1>2 DEF ms
  <2> QED BY ONLY <1>4, <2>1, SavedFacts
<1> QED BY <1>1, <1>3, <1>5, <1>6 DEF ms

LEMMA EndFirstType ==
  ASSUME TypeInv, NEW s \in Syncs, EndFirstSave(s)
  PROVE  TypeInv'
<1>1. /\ sync[s].at # "idle" /\ Tick /\ Up /\ Up'
      /\ file' = sync[s].save /\ files' = AllSaved(s) /\ List(s, AllSaved(s))
      /\ UNCHANGED <<store, timers>>
  BY Present0 DEF EndFirstSave, EndSave, Up
<1>2. /\ DOMAIN sync' = Syncs /\ \A y \in Syncs : SyncAt(sync'[y], clock)
      /\ known' \in [Names -> Nat] /\ previous' \in [Names -> Nat]
  BY <1>1, Present0, ListFacts
<1>3. \A y \in Syncs : SyncAt(sync'[y], clock')
  BY <1>1, <1>2, Present0, SameTime
<1>4. StateAt(file', Now) /\ file' # None /\ FilesAt(files', Now)
  BY <1>1, AllSavedFacts DEF Real
<1>5. store' = None \/ StateAt(store', Now)
  BY <1>1, Present0
<1>6. \A t \in timers' : t \in timers
  BY <1>1
<1> HIDE DEF Up
<1> QED BY ONLY TypeInv, <1>1, <1>2, <1>3, <1>4, <1>5, <1>6, TypeStep

LEMMA EndUpdateType ==
  ASSUME TypeInv, NEW s \in Syncs, EndUpdate(s)
  PROVE  TypeInv'
<1>1. sync[s].at # "idle" /\ Tick /\ Finish(s, sync[s].save, AllSaved(s))
  BY DEF EndUpdate, EndSave
<1> QED BY <1>1, AllSavedFacts, FinishType

LEMMA EndSyncType ==
  ASSUME TypeInv, NEW s \in Syncs, EndSync(s)
  PROVE  TypeInv'
<1>1. /\ sync[s].at # "idle" /\ Tick /\ Up /\ Up'
      /\ file' = sync[s].save /\ files' = AllSaved(s) /\ sync' = [sync EXCEPT ![s] = NoSync]
      /\ UNCHANGED <<store, known, previous, timers>>
  BY Present0 DEF EndSync, EndSave, Up, memory
<1>2. /\ DOMAIN sync' = Syncs /\ \A y \in Syncs : SyncAt(sync'[y], clock)
      /\ known' \in [Names -> Nat] /\ previous' \in [Names -> Nat]
  BY <1>1, Present0, NoSyncFacts DEF SyncsTyped
<1>3. \A y \in Syncs : SyncAt(sync'[y], clock')
  BY <1>1, <1>2, Present0, SameTime
<1>4. StateAt(file', Now) /\ file' # None /\ FilesAt(files', Now)
  BY <1>1, AllSavedFacts DEF Real
<1>5. store' = None \/ StateAt(store', Now)
  BY <1>1, Present0
<1>6. \A t \in timers' : t \in timers
  BY <1>1
<1> HIDE DEF Up
<1> QED BY ONLY TypeInv, <1>1, <1>2, <1>3, <1>4, <1>5, <1>6, TypeStep

LEMMA CallType ==
  ASSUME TypeInv, NEW t \in timers, Call(t)
  PROVE  TypeInv' /\ Up'
<1>1. Up /\ Tick /\ UNCHANGED <<known, previous, file, files, sync>> /\ timers' = timers \ {t}
  BY DEF Call, TypeInv, Awake, disk
<1>2. StateAt(store', Now)
  <2> DEFINE gone  == store.models \ WithId(store.models, t.id)
             added == Added(store.models, t.name, files[t.name].query)
  <2>1. CASE store' = store
    BY <1>1, <2>1, Present0
  <2>2. ASSUME NEW ms, ms \subseteq ModelsAt(Now), \A m, o \in ms : m.id = o.id => m = o,
               store' = State(Now, ms)
        PROVE  StateAt(store', Now)
    <3>1. store' = [upd |-> Now, models |-> ms] /\ Now \in 0..Now
      BY <2>2, Present0 DEF State
    <3>2. store' \in [upd : 0..Now, models : SUBSET ModelsAt(Now)] /\ store'.models = ms
      BY <2>2, <3>1
    <3> QED BY <2>2, <3>2, StateForm
  <2>3. CASE store' = State(Now, gone)
    <3>1. gone \subseteq ModelsAt(Now) /\ \A m, o \in gone : m.id = o.id => m = o
      BY <1>1, StoreFacts
    <3> QED BY <2>2, <2>3, <3>1
  <2>4. CASE t.call = "addModel" /\ files[t.name] # None /\ store' = State(Now, added)
    <3>1. t.name \in Names /\ files[t.name].query \in Queries
      BY <2>4, Present0 DEF TypeInv, StatesOK, FilesAt
    <3>2. added \subseteq ModelsAt(Now) /\ \A m, o \in added : m.id = o.id => m = o
      BY <1>1, <3>1, AddedFacts
    <3> QED BY <2>2, <2>4, <3>2
  <2> QED BY <2>1, <2>3, <2>4 DEF Call
<1>3. Up'
  BY <1>2, Present0, RealState DEF Up
<1>4. \A y \in Syncs : SyncAt(sync'[y], clock')
  BY <1>1, Present0, SameTime DEF SyncsTyped
<1>5. FilesAt(files', Now) /\ (file' \in {None, Partial} \/ StateAt(file', Now))
      /\ known' \in [Names -> Nat] /\ previous' \in [Names -> Nat] /\ DOMAIN sync' = Syncs
  BY <1>1, Present0 DEF SyncsTyped
<1>6. \A y \in Syncs : sync'[y].at # "idle" => Up' /\ file' # None
  BY <1>1, <1>3, Present0
<1>7. \A r \in timers' : r \in timers
  BY <1>1
<1>8. store' = None \/ StateAt(store', Now)
  BY <1>2
<1> HIDE DEF Up
<1>9. TypeInv'
  BY ONLY TypeInv, <1>1, <1>3, <1>4, <1>5, <1>6, <1>7, <1>8, TypeStep
<1> QED BY <1>3, <1>9

LEMMA CrashType ==
  ASSUME TypeInv, Crash
  PROVE  TypeInv'
<1>1. /\ Tick /\ store' = None /\ known' = NoFiles /\ previous' = NoFiles /\ timers' = {}
      /\ sync' = [s \in Syncs |-> NoSync] /\ files' = files
      /\ file' = file \/ \E s \in Syncs : file' = sync[s].save
  BY DEF Crash, CutOff
<1>2. known' \in [Names -> Nat] /\ previous' \in [Names -> Nat]
  BY <1>1 DEF NoFiles
<1>3. FilesAt(files', Now) /\ (file' \in {None, Partial} \/ StateAt(file', Now))
  BY <1>1, Present0, AllSavedFacts
<1>4. DOMAIN sync' = Syncs /\ (\A y \in Syncs : SyncAt(sync'[y], clock'))
      /\ \A y \in Syncs : sync'[y].at = "idle"
  <2>1. \A y \in Syncs : SyncAt(sync'[y], clock)
    BY <1>1, Present0, NoSyncFacts
  <2>2. \A y \in Syncs : SyncAt(sync'[y], clock')
    BY <1>1, <2>1, Present0, SameTime
  <2> QED BY <1>1, <2>2 DEF NoSync
<1>5. timers' # {} => Up'
  BY <1>1
<1>6. store' = None \/ StateAt(store', Now)
  BY <1>1
<1>7. \A t \in timers' : t \in timers
  BY <1>1
<1>8. \A y \in Syncs : sync'[y].at # "idle" => Up' /\ file' # None
  BY <1>4
<1> QED BY ONLY TypeInv, <1>1, <1>2, <1>3, <1>4, <1>5, <1>6, <1>7, <1>8, TypeStep

LEMMA RestartType ==
  ASSUME TypeInv, Restart
  PROVE  TypeInv'
<1>1. Tick /\ UNCHANGED <<previous, sync>> /\ ~Up /\ timers = {}
      /\ \A y \in Syncs : sync[y].at = "idle"
  BY DEF Restart, TypeInv, Awake
<1> HIDE DEF Up
<1>2. \A y \in Syncs : SyncAt(sync'[y], clock') /\ sync'[y].at = "idle"
  <2>1. \A y \in Syncs : SyncAt(sync[y], clock')
    BY <1>1, Present0, SameTime DEF SyncsTyped
  <2> QED BY <1>1, <2>1
<1>3. DOMAIN sync' = Syncs
  BY <1>1, Present0 DEF SyncsTyped
<1>4. /\ StateAt(store', Now) /\ FilesAt(files', Now)
      /\ file' \in {None, Partial} \/ StateAt(file', Now)
      /\ known' \in [Names -> Nat]
      /\ \A t \in timers' : t \in timers \/ (t.call = "addModel" => t.name \in Names)
  <2>1. CASE file \in {None, Partial}
    <3>1. store' = EmptyState /\ UNCHANGED <<known, timers, file, files>>
      BY <2>1 DEF Restart, disk
    <3> QED BY <2>1, <3>1, Present0, EmptyFacts
  <2>2. CASE file \notin {None, Partial}
    <3> DEFINE state  == Updated(file)
               fs     == Filled(file, NoFiles)
               listed == [n \in Present(files) |-> 0]
    <3>1. /\ store' = Stamped(state) /\ known' = [n \in Names |-> Owner(state, n)]
          /\ timers' = PutOff(state, listed, NoFiles) /\ file' = state
          /\ files' = IF state # file THEN Saved(fs, state.models) ELSE fs
      BY <2>2 DEF Restart
    <3>2. StateAt(state, Now) /\ FilesAt(fs, Now)
      BY <2>2, Present0, UpdatedFacts, FilledFacts
    <3>3. DOMAIN listed \subseteq Names
      BY DEF Present
    <3> HIDE DEF state, fs, listed
    <3>4. state.models \in SUBSET ModelsAt(Now)
      BY <3>2, StateForm
    <3>5. FilesAt(Saved(fs, state.models), Now)
      <4> DEFINE ms == state.models
      <4>1. Now \in Nat /\ clock \in Nat /\ Now <= Now /\ ms \in SUBSET ModelsAt(Now)
        BY <3>4, Present0
      <4> HIDE DEF ms
      <4>2. FilesAt(Saved(fs, ms), Now)
        BY ONLY <3>2, <4>1, SavedFacts
      <4> QED BY <4>2 DEF ms
    <3>6. StateAt(store', Now) /\ known' \in [Names -> Nat]
      BY <3>1, <3>2, Present0, StampedFacts, OwnerFacts
    <3>7. \A t \in timers' : t.call = "addModel" => t.name \in Names
      BY <3>1, <3>3, PutOffFacts
    <3> QED BY <3>1, <3>2, <3>5, <3>6, <3>7
  <2> QED BY <2>1, <2>2
<1>5. store' = None \/ StateAt(store', Now)
  BY <1>4
<1>6. Up'
  BY <1>4, Present0, RealState DEF Up
<1>7. previous' \in [Names -> Nat]
  BY <1>1, Present0
<1>8. timers' # {} => Up'
  BY <1>6
<1>9. \A y \in Syncs : sync'[y].at # "idle" => Up' /\ file' # None
  BY <1>2
<1>10. \A y \in Syncs : SyncAt(sync'[y], clock')
  BY <1>2
<1> QED BY ONLY TypeInv, <1>1, <1>3, <1>4, <1>5, <1>7, <1>8, <1>9, <1>10, TypeStep

LEMMA TypeInit ==
  ASSUME Init
  PROVE  TypeInv
<1>1. StateAt(EmptyState, clock) /\ clock = 0 /\ SyncAt(NoSync, clock)
  BY EmptyFacts, NoSyncFacts DEF Init
<1>2. FilesAt(files, clock) /\ known \in [Names -> Nat] /\ previous \in [Names -> Nat]
  BY DEF Init, FilesAt, NoFiles
<1>3. StatesOK
  BY <1>1, <1>2 DEF Init, StatesOK
<1> QED BY <1>3 DEF Init, TypeInv, Awake, NoSync

LEMMA RequestsInit == Init => RequestsOK
BY DEF Init, RequestsOK

\* Only the user asks for a rename or changes the sources; a kill forgets the
\* renames.
LEMMA RequestsNext ==
  ASSUME TypeInv, RequestsOK, [Next]_vars
  PROVE  RequestsOK'
<1>1. CASE UNCHANGED vars
  BY <1>1 DEF vars, others, RequestsOK
<1>2. ASSUME NEW s \in Syncs, SyncStep(s) PROVE RequestsOK'
  BY <1>2 DEF SyncStep, BeginSync, Read, EndFirstSave, EndUpdate, EndSync, EndSave, others, RequestsOK
<1>3. ASSUME NEW t \in timers, Call(t) PROVE RequestsOK'
  BY <1>3 DEF Call, others, RequestsOK
<1>4. ASSUME NEW r \in renames, Renamed(r) PROVE RequestsOK'
  BY <1>4 DEF Renamed, RequestsOK
<1>5. CASE Edits
  <2>1. ASSUME NEW n \in Names, NEW q \in Queries, AddModel(n, q) \/ WriteFile(n, q) PROVE RequestsOK'
    BY <2>1 DEF AddModel, WriteFile, Act, EditFile, RequestsOK
  <2>2. ASSUME NEW n \in Names, RemoveFile(n) PROVE RequestsOK'
    BY <2>2 DEF RemoveFile, EditFile, RequestsOK
  <2>3. ASSUME NEW n \in SourceNames, AddSource(n) \/ DropSource(n) PROVE RequestsOK'
    BY <2>3 DEF AddSource, DropSource, ChangeSources, RequestsOK
  <2>4. ASSUME NEW m, DeleteModel(m) \/ \E q \in Queries : UpdateModelQuery(m, q) PROVE RequestsOK'
    BY <2>4 DEF DeleteModel, UpdateModelQuery, Act, RequestsOK
  <2>5. ASSUME Up, NEW m \in store.models, NEW n \in Names, UpdateModelName(m, n) PROVE RequestsOK'
    <3>1. m.id \in Nat
      BY <2>5, StoreFacts, Present0 DEF ModelsAt
    <3> QED BY <2>5, <3>1 DEF UpdateModelName, RequestsOK
  <2> QED BY <1>5, <2>1, <2>2, <2>3, <2>4, <2>5 DEF Edits
<1>6. CASE Crash
  BY <1>6 DEF Crash, RequestsOK
<1>7. CASE Restart
  BY <1>7 DEF Restart, others, RequestsOK
<1> QED BY <1>1, <1>2, <1>3, <1>4, <1>5, <1>6, <1>7 DEF Next

\* The types, and that syncs and put off calls are of a server that is up, are
\* kept by every step, however many syncs overlap.
LEMMA TypeNext ==
  ASSUME TypeInv, RequestsOK, [Next]_vars
  PROVE  TypeInv'
<1>1. CASE UNCHANGED vars
  BY <1>1 DEF vars, memory, disk, TypeInv, StatesOK, Awake, Up
<1>2. ASSUME NEW s \in Syncs, SyncStep(s) PROVE TypeInv'
  BY <1>2, BeginType, ReadType, EndFirstType, EndUpdateType, EndSyncType DEF SyncStep
<1>3. ASSUME NEW t \in timers, Call(t) PROVE TypeInv'
  BY <1>3, CallType
<1>4. ASSUME NEW r \in renames, Renamed(r) PROVE TypeInv'
  BY <1>4, RenamedFacts
<1> QED BY <1>1, <1>2, <1>3, <1>4, EditsType, CrashType, RestartType DEF Next

\* Memory, state file and folder have the form the code gives them; no time
\* stamp is of the future, and no two models have one id.
THEOREM TypeCorrect == Spec => []TypeOK
<1>1. Init => TypeInv /\ RequestsOK
  BY TypeInit, RequestsInit
<1>2. TypeInv /\ RequestsOK /\ [Next]_vars => (TypeInv /\ RequestsOK)'
  BY TypeNext, RequestsNext
<1>3. TypeInv /\ RequestsOK => TypeOK
  BY DEF TypeInv, TypeOK
<1> QED BY <1>1, <1>2, <1>3, PTL DEF Spec

-----------------------------------------------------------------------------
(* What a sync has written never comes back as an edit                     *)

\* Once they have come apart they stay so: nothing is claimed from then on.
LEMMA TornStays ==
  ASSUME torn, [Next]_vars
  PROVE  torn'
<1>1. CASE UNCHANGED vars
  BY <1>1 DEF vars
<1>2. ASSUME NEW s \in Syncs, NEW state, NEW fs, Finish(s, state, fs) PROVE torn'
  BY <1>2 DEF Finish
<1>3. ASSUME NEW s \in Syncs, SyncStep(s) PROVE torn'
  <2>1. CASE BeginSync(s)
    BY <2>1 DEF BeginSync
  <2>2. CASE Read(s)
    BY <1>2, <2>2 DEF Read
  <2>3. CASE EndFirstSave(s)
    BY <2>3 DEF EndFirstSave
  <2>4. CASE EndUpdate(s)
    BY <1>2, <2>4 DEF EndUpdate
  <2>5. CASE EndSync(s)
    BY <2>5 DEF EndSync
  <2> QED BY <1>3, <2>1, <2>2, <2>3, <2>4, <2>5 DEF SyncStep
<1>4. CASE Edits
  BY <1>4 DEF Edits, AddModel, WriteFile, RemoveFile, DeleteModel, UpdateModelQuery, UpdateModelName,
              AddSource, DropSource, ChangeSources, Act, EditFile, Edit
<1>5. CASE Crash
  BY <1>5 DEF Crash
<1>6. CASE Restart
  BY <1>6 DEF Restart
<1>7. ASSUME NEW t \in timers, Call(t) PROVE torn'
  BY <1>7 DEF Call
<1>8. ASSUME NEW r \in renames, Renamed(r) PROVE torn'
  BY <1>8 DEF Renamed
<1> QED BY <1>1, <1>3, <1>4, <1>5, <1>6, <1>7, <1>8 DEF Next

\* What is written for each model of a state has its query.
LEMMA SavedQuery ==
  ASSUME clock \in Nat, NEW c \in Nat, c <= Now, NEW st, StateAt(st, c), Distinct(st.models),
         NEW fs, FilesAt(fs, Now)
  PROVE  /\ SameQuery(st, Saved(fs, st.models))
         /\ \A n \in Names : ~IsName(st.models, n) => Saved(fs, st.models)[n] = fs[n]
<1> DEFINE ms == st.models
<1>1. ms \in SUBSET ModelsAt(c)
  BY StateForm
<1> HIDE DEF ms
<1>2. \A n \in Names :
        /\ ~IsName(ms, n) => Saved(fs, ms)[n] = fs[n]
        /\ IsName(ms, n) => \E m \in ms : m.name = n /\ Saved(fs, ms)[n] = File(m.query, Now, "server")
  BY <1>1, SavedFacts
<1>3. ASSUME NEW o \in ms PROVE Saved(fs, ms)[o.name].query = o.query
  <2>1. o.name \in Names /\ IsName(ms, o.name)
    BY <1>1 DEF ModelsAt, IsName, Named
  <2>2. PICK m \in ms : m.name = o.name /\ Saved(fs, ms)[o.name] = File(m.query, Now, "server")
    BY <1>2, <2>1
  <2>3. m = o
    BY <2>2 DEF Distinct, ms
  <2> QED BY <2>2, <2>3 DEF File
<1> QED BY <1>2, <1>3 DEF SameQuery, ms

LEMMA FilledQuery ==
  ASSUME TypeInv, NEW st, StateAt(st, clock), Distinct(st.models), SameQuery(st, files), NEW was
  PROVE  /\ SameQuery(st, Filled(st, was))
         /\ \A n \in Names : Filled(st, was)[n] = files[n] \/ IsName(st.models, n)
<1>1. \A n \in Names : \/ Filled(st, was)[n] = files[n]
                       \/ files[n] = None /\ \E m \in st.models :
                            m.name = n /\ Filled(st, was)[n] = File(m.query, Now, "server")
  BY Present0, FilledFacts
<1>2. ASSUME NEW o \in st.models, Filled(st, was)[o.name] # files[o.name]
      PROVE  Filled(st, was)[o.name].query = o.query
  <2>1. o.name \in Names
    BY StateForm DEF ModelsAt
  <2>2. PICK m \in st.models : m.name = o.name /\ Filled(st, was)[o.name] = File(m.query, Now, "server")
    BY <1>1, <1>2, <2>1
  <2>3. m = o
    BY <2>2 DEF Distinct
  <2> QED BY <2>2, <2>3 DEF File
<1> QED BY <1>1, <1>2 DEF SameQuery, IsName, Named

\* With one sync at a time, the others are idle.
LEMMA Alone ==
  ASSUME OneSync, NEW s \in Syncs, Own
  PROVE  /\ \A y \in Syncs : y = s
         /\ Quiet <=> sync[s].at = "idle"
         /\ Up => Distinct(store.models)
         /\ Real(file) => Distinct(file.models) /\ SameQuery(file, files)
         /\ sync[s].at = "idle" => file # Partial
         /\ sync[s].at = "read" => Real(file)
         /\ sync[s].at \in Saving => file = Partial /\ Distinct(sync[s].save.models)
         /\ \A n \in Names : ~ByUser(n) => HasModel(n)
<1>1. \A y \in Syncs : y = s
  BY DEF OneSync
<1> QED BY <1>1 DEF Own, Places, Quiet

LEMMA BeginOwn ==
  ASSUME OneSync, TypeInv, Own, NEW s \in Syncs, BeginSync(s), TypeInv'
  PROVE  Own'
<1>1. /\ Up /\ Up' /\ sync[s].at = "idle" /\ Quiet /\ UNCHANGED <<store, files>>
      /\ \A y \in Syncs : y = s
  BY Alone DEF BeginSync, Up
<1>2. CASE file = None
  <2>1. StartSave(s, "create", store)
    BY <1>2 DEF BeginSync
  <2>2. file' = Partial /\ sync'[s].at = "create" /\ sync'[s].save = store
    <3>1. sync' = [sync EXCEPT ![s].at = "create", ![s].save = store] /\ file' = Partial
      BY <2>1 DEF StartSave
    <3>2. SyncAt(sync[s], clock) /\ DOMAIN sync = Syncs
      BY DEF TypeInv, StatesOK
    <3> QED BY <3>1, <3>2 DEF SyncAt
  <2>3. \A n \in Names : ByUser(n)'
    BY <1>1, <1>2, Alone DEF HasModel, Real, ByUser
  <2> QED BY <1>1, <2>2, <2>3, Alone DEF Own, Places, Quiet, Saving, Real
<1>3. CASE file # None
  <2>1. List(s, files) /\ file' = file /\ Real(file)
    BY <1>1, <1>3, Alone DEF BeginSync, Real
  <2>2. /\ sync'[s] = [at |-> "read", save |-> sync[s].save, listed |-> [n \in Present(files) |-> known[n]]]
    BY <2>1, Present0, ListFacts
  <2>3. ASSUME NEW n \in Names, ~ByUser(n)' PROVE HasModel(n)'
    <3>1. ~ByUser(n) /\ n \in Present(files)
      BY <1>1, <2>3 DEF ByUser, Present
    <3>2. IsName(file.models, n) \/ known[n] # 0
      BY <1>1, <3>1, Alone DEF HasModel
    <3>3. IsName(file.models, n)' \/ Listed(s, n)'
      BY <2>1, <2>2, <3>1, <3>2 DEF Listed
    <3> QED BY <1>1, <2>2, <3>3 DEF HasModel, Quiet
  <2> QED BY <1>1, <2>1, <2>2, <2>3, Alone DEF Own, Places, Quiet, Saving, Real
<1> QED BY <1>2, <1>3

LEMMA SameOwn ==
  ASSUME Own, UNCHANGED <<store, known, file, files, sync>>
  PROVE  Own'
BY DEF Own, Places, Quiet, HasModel, ByUser, Up, Listed

\* What changes only the memory and keeps the names distinct.
LEMMA StoreOwn ==
  ASSUME Own, Up, Up', UNCHANGED <<known, file, files, sync>>, Distinct(store'.models)
  PROVE  Own'
<1>1. \A n \in Names : HasModel(n) => HasModel(n)'
  BY DEF HasModel, Quiet, Listed
<1>2. Places'
  BY DEF Own, Places, Quiet
<1> QED BY <1>1, <1>2 DEF Own, ByUser

LEMMA EditsOwn ==
  ASSUME TypeInv, Own, Edits, Up => Up'
  PROVE  Own'
<1>1. ASSUME Up, NEW models, Act(models), Distinct(models) PROVE Own'
  <2>1. store' = State(Now, models) /\ UNCHANGED <<known, file, files, sync>>
    BY <1>1 DEF Act, disk
  <2>2. store'.models = models
    BY <2>1 DEF State
  <2> QED BY <1>1, <2>1, <2>2, StoreOwn
<1>2. ASSUME NEW n \in Names, NEW content, content = None \/ content.by = "user", EditFile(n, content)
      PROVE  Own'
  <2>1. files' = [files EXCEPT ![n] = content] /\ UNCHANGED <<store, known, file, sync>>
    BY <1>2 DEF EditFile, memory
  <2>2. \A k \in Names : files'[k] = files[k] \/ (k = n /\ ByUser(k)')
    BY <1>2, <2>1, Present0 DEF FilesAt, ByUser
  <2>3. \A k \in Names : ~ByUser(k)' => ~ByUser(k) /\ HasModel(k)
    BY <2>2 DEF Own, ByUser
  <2>4. \A k \in Names : HasModel(k) => HasModel(k)'
    BY <2>1 DEF HasModel, Quiet, Listed, Up
  <2>5. Places'
    BY <2>1 DEF Own, Places, Quiet, Up
  <2>6. Real(file) => SameQuery(file, files')
    <3>1. Real(file) => \A o \in file.models : o.name \in Names
      BY Present0, StateForm DEF ModelsAt, Real
    <3>2. "user" # "server"
      OBVIOUS
    <3> QED BY <1>2, <2>2, <3>1, <3>2 DEF Own, SameQuery, ByUser
  <2> QED BY <2>1, <2>3, <2>4, <2>5, <2>6 DEF Own
<1>3. Up => Distinct(store.models)
  BY DEF Own, Places
<1>4. ASSUME NEW n \in Names, NEW q \in Queries, AddModel(n, q) PROVE Own'
  <2>1. Distinct(Added(store.models, n, q))
    <3>1. Model(NewId, n, q, IF q = Empty THEN 0 ELSE Now).name = n
      BY DEF Model
    <3> QED BY <1>3, <1>4, <3>1 DEF AddModel, Free, Added, Distinct, Named
  <2> QED BY <1>1, <1>4, <2>1 DEF AddModel
<1>5. ASSUME Up, NEW m \in store.models, DeleteModel(m) PROVE Own'
  BY <1>1, <1>3, <1>5 DEF DeleteModel, Distinct
<1>6. ASSUME Up, NEW m \in store.models, NEW q \in Queries, UpdateModelQuery(m, q) PROVE Own'
  <2> DEFINE o == [m EXCEPT !.query = q, !.upd = Now]
  <2>1. o.name = m.name
    BY <1>6, StoreFacts DEF ModelsAt
  <2>2. Act((store.models \ {m}) \cup {o})
    BY <1>6 DEF UpdateModelQuery
  <2> HIDE DEF o
  <2>3. Distinct((store.models \ {m}) \cup {o})
    BY <1>3, <1>6, <2>1 DEF Distinct
  <2> QED BY <1>1, <1>6, <2>2, <2>3
<1>7. ASSUME UNCHANGED <<memory, disk, sync>> PROVE Own'
  BY <1>7, SameOwn DEF memory, disk
<1>8. ASSUME NEW n \in Names, NEW q \in Queries, WriteFile(n, q) PROVE Own'
  BY <1>2, <1>8 DEF WriteFile, File
<1>9. ASSUME NEW n \in Names, RemoveFile(n) PROVE Own'
  BY <1>2, <1>9 DEF RemoveFile
<1>10. ASSUME NEW n \in SourceNames, AddSource(n) \/ DropSource(n) PROVE Own'
  BY <1>7, <1>10 DEF AddSource, DropSource, ChangeSources
<1>11. ASSUME NEW m, NEW n \in Names, UpdateModelName(m, n) PROVE Own'
  BY <1>7, <1>11 DEF UpdateModelName
<1> QED BY <1>4, <1>5, <1>6, <1>8, <1>9, <1>10, <1>11 DEF Edits

\* The end of getAll: every file that the server has written last has its model,
\* or had one and is removed.
LEMMA FinishOwn ==
  ASSUME OneSync, TypeInv, Own, ~torn', TypeInv', NEW s \in Syncs, sync[s].at # "idle",
         NEW state, StateAt(state, clock), Distinct(state.models),
         NEW fs, FilesAt(fs, Now), SameQuery(state, fs),
         \A n \in Names : fs[n] # None /\ fs[n].by # "user" => IsName(state.models, n) \/ Listed(s, n),
         Finish(s, state, fs)
  PROVE  Own'
<1> DEFINE listed   == sync[s].listed
           obsolete == Obsolete(state, listed)
           last     == IF obsolete \subseteq Present(fs) THEN Stamped(state) ELSE EmptyState
<1>1. PICK gone \in Unlinked(fs, obsolete) :
        /\ files' = Cleaned(fs, gone) /\ Compare(s, last, state)
        /\ torn' = (torn \/ ~Distinct(store'.models) \/ (obsolete \cap Present(fs)) \ gone # {})
  BY DEF Finish
<1>2. Distinct(store'.models) /\ obsolete \cap Present(fs) \subseteq gone
  BY <1>1
<1>3. known' = [n \in Names |-> Owner(state, n)]
  BY DEF Finish
<1>4. \A n \in Names : files'[n] = None \/ (files'[n] = fs[n] /\ n \notin gone)
  BY <1>1, CleanedFacts
<1>5. SameQuery(state, files')
  <2>1. \A o \in state.models : o.name \in Names
    BY StateForm DEF ModelsAt
  <2> QED BY <1>4, <2>1 DEF SameQuery
<1>6. ASSUME NEW n \in Names, ~ByUser(n)' PROVE IsName(state.models, n) /\ known'[n] # 0
  <2>1. fs[n] # None /\ fs[n].by # "user" /\ n \notin gone /\ n \in Present(fs)
    BY <1>4, <1>6 DEF ByUser, Present
  <2>2. n \notin obsolete
    BY <1>2, <2>1
  <2>3. Owner(state, n) # 0 <=> IsName(state.models, n)
    BY Present0, OwnerFacts
  <2>4. IsName(state.models, n)
    BY <2>1, <2>2, <2>3 DEF Listed, Obsolete
  <2> QED BY <1>3, <2>3, <2>4
<1>7. \A y \in Syncs : y = s
  BY DEF OneSync
<1> HIDE DEF last, obsolete, listed
<1>8. CASE last.upd < store.upd
  <2>1. StartSave(s, "save", store) /\ store' = store
    <3>1. ~(last.upd > store.upd)
      <4>1. StateAt(last, clock) /\ StateAt(store, clock)
        BY Present0, StampedFacts, EmptyFacts DEF last
      <4>2. last.upd \in Nat /\ store.upd \in Nat
        BY <4>1 DEF StateAt
      <4> QED BY <1>8, <4>2
    <3> QED BY <1>1, <1>8, <3>1 DEF Compare
  <2>2. file' = Partial /\ sync'[s].at = "save" /\ sync'[s].save = store
    <3>1. sync' = [sync EXCEPT ![s].at = "save", ![s].save = store] /\ file' = Partial
      BY <2>1 DEF StartSave
    <3>2. SyncAt(sync[s], clock) /\ DOMAIN sync = Syncs
      BY DEF TypeInv, StatesOK
    <3> QED BY <3>1, <3>2 DEF SyncAt
  <2>3. Up' /\ Up
    BY <2>1, Present0 DEF Up
  <2>4. \A n \in Names : ~ByUser(n)' => HasModel(n)'
    BY <1>6, <1>7, <2>2 DEF HasModel, Quiet
  <2>5. Places'
    BY <1>2, <1>7, <2>1, <2>2, <2>3 DEF Places, Quiet, Saving, Real
  <2> QED BY <2>2, <2>4, <2>5 DEF Own, Real
<1>9. CASE ~(last.upd < store.upd)
  <2>1. sync' = [sync EXCEPT ![s] = NoSync] /\ file' = state
    BY <1>1, <1>9 DEF Compare
  <2>2. sync'[s].at = "idle"
    BY <2>1 DEF TypeInv, StatesOK, NoSync
  <2>3. Real(file')
    BY <2>1, Present0, RealState
  <2>4. \A n \in Names : ~ByUser(n)' => HasModel(n)'
    BY <1>6, <1>7, <2>1, <2>2, <2>3 DEF HasModel
  <2>5. Places'
    BY <1>2, <1>7, <2>1, <2>2, <2>3 DEF Places, Quiet, Saving, Real
  <2> QED BY <1>5, <2>1, <2>4, <2>5 DEF Own
<1> QED BY <1>8, <1>9

LEMMA ReadOwn ==
  ASSUME OneSync, TypeInv, Own, ~torn', TypeInv', NEW s \in Syncs, Read(s)
  PROVE  Own'
<1>1. sync[s].at = "read" /\ Real(file) /\ Distinct(file.models) /\ SameQuery(file, files)
      /\ StateAt(file, clock) /\ \A y \in Syncs : y = s
  BY Alone, Present0 DEF Read, Real
<1> DEFINE fs == Filled(file, previous)
<1>2. FilesAt(fs, Now) /\ SameQuery(file, fs)
      /\ \A n \in Names : fs[n] = files[n] \/ IsName(file.models, n)
  BY <1>1, Present0, FilledFacts, FilledQuery
<1> HIDE DEF fs
<1>3. \A n \in Names : fs[n] # None /\ fs[n].by # "user" => IsName(file.models, n) \/ Listed(s, n)
  <2> SUFFICES ASSUME NEW n \in Names, fs[n] # None, fs[n].by # "user", ~IsName(file.models, n)
               PROVE  Listed(s, n)
    OBVIOUS
  <2>1. ~ByUser(n)
    BY <1>2 DEF ByUser
  <2> QED BY <1>1, <2>1, Alone DEF HasModel
<1>4. CASE Updated(file) # file
  <2>1. StartSave(s, "update", Updated(file)) /\ files' = fs /\ UNCHANGED <<store, known>>
    BY <1>1, <1>4 DEF Read, Real, memory, fs
  <2>2. file' = Partial /\ sync'[s].at = "update" /\ sync'[s].save = Updated(file)
        /\ sync'[s].listed = sync[s].listed
    <3>1. sync' = [sync EXCEPT ![s].at = "update", ![s].save = Updated(file)] /\ file' = Partial
      BY <2>1 DEF StartSave
    <3>2. SyncAt(sync[s], clock) /\ DOMAIN sync = Syncs
      BY DEF TypeInv, StatesOK
    <3> QED BY <3>1, <3>2 DEF SyncAt
  <2>3. Distinct(Updated(file).models) /\ \A n : IsName(Updated(file).models, n) <=> IsName(file.models, n)
    BY <1>1, Present0, UpdatedFacts
  <2>4. Up /\ Up'
    BY <1>1, <2>1, Present0 DEF Up
  <2>5. ASSUME NEW n \in Names, ~ByUser(n)' PROVE HasModel(n)'
    <3>1. IsName(file.models, n) \/ Listed(s, n)
      BY <1>3, <2>1, <2>5 DEF ByUser
    <3> QED BY <1>1, <2>2, <2>3, <3>1 DEF HasModel, Listed, Quiet
  <2>6. Places'
    BY <1>1, <2>1, <2>2, <2>3, <2>4, Alone DEF Places, Quiet, Saving, Real
  <2> QED BY <2>2, <2>5, <2>6 DEF Own, Real
<1>5. CASE Updated(file) = file
  <2>1. Finish(s, file, fs) /\ sync[s].at # "idle"
    BY <1>1, <1>5 DEF Read, Real, fs
  <2> QED BY <1>1, <1>2, <1>3, <2>1, FinishOwn
<1> QED BY <1>4, <1>5

\* The end of a save: its models have what is in their files.
LEMMA SaveFacts ==
  ASSUME OneSync, TypeInv, Own, NEW s \in Syncs, sync[s].at \in Saving
  PROVE  /\ StateAt(sync[s].save, clock) /\ Distinct(sync[s].save.models) /\ Real(sync[s].save)
         /\ FilesAt(AllSaved(s), Now) /\ SameQuery(sync[s].save, AllSaved(s))
         /\ \A n \in Names : AllSaved(s)[n] = files[n] \/ IsName(sync[s].save.models, n)
         /\ Up /\ Distinct(store.models)
<1>1. /\ StateAt(sync[s].save, clock) /\ Distinct(sync[s].save.models) /\ Real(sync[s].save)
      /\ FilesAt(AllSaved(s), Now)
      /\ \A n \in Names : AllSaved(s)[n] = files[n] \/ IsName(sync[s].save.models, n)
  BY Alone, AllSavedFacts
<1>2. SameQuery(sync[s].save, AllSaved(s))
  <2> DEFINE st == sync[s].save
  <2>1. clock \in Nat /\ clock <= Now /\ StateAt(st, clock) /\ Distinct(st.models) /\ FilesAt(files, Now)
    BY <1>1, Present0
  <2>2. AllSaved(s) = Saved(files, st.models)
    BY DEF AllSaved
  <2> HIDE DEF st
  <2>3. SameQuery(st, Saved(files, st.models))
    BY <2>1, SavedQuery
  <2> QED BY <2>2, <2>3 DEF st
<1>3. Up /\ Distinct(store.models)
  BY Alone, Present0 DEF Saving
<1> QED BY <1>1, <1>2, <1>3

LEMMA EndFirstOwn ==
  ASSUME OneSync, TypeInv, Own, TypeInv', NEW s \in Syncs, EndFirstSave(s)
  PROVE  Own'
<1>1. /\ sync[s].at = "create" /\ "create" \in Saving
      /\ file' = sync[s].save /\ files' = AllSaved(s) /\ List(s, AllSaved(s)) /\ store' = store
      /\ \A y \in Syncs : y = s
  BY Alone DEF EndFirstSave, EndSave, Saving
<1>2. sync'[s].at = "read"
  <2> DEFINE fs == AllSaved(s)
  <2>1. List(s, fs) /\ clock \in Nat /\ SyncsTyped /\ known \in [Names -> Nat]
    BY <1>1, Present0
  <2> HIDE DEF fs
  <2>2. sync'[s] = [at |-> "read", save |-> sync[s].save, listed |-> [n \in Present(fs) |-> known[n]]]
    BY ONLY <2>1, ListFacts
  <2> QED BY <2>2
<1>3. \A n \in Names : ByUser(n)
  BY <1>1, Alone DEF HasModel
<1>4. ASSUME NEW n \in Names, ~ByUser(n)' PROVE HasModel(n)'
  <2>1. IsName(sync[s].save.models, n)
    BY <1>1, <1>3, <1>4, SaveFacts DEF ByUser
  <2> QED BY <1>1, <1>2, <2>1 DEF HasModel, Quiet
<1>5. Places'
  BY <1>1, <1>2, SaveFacts DEF Places, Quiet, Saving, Up
<1> QED BY <1>1, <1>4, <1>5, SaveFacts DEF Own

LEMMA EndUpdateOwn ==
  ASSUME OneSync, TypeInv, Own, ~torn', TypeInv', NEW s \in Syncs, EndUpdate(s)
  PROVE  Own'
<1>1. sync[s].at = "update" /\ sync[s].at \in Saving /\ sync[s].at # "idle"
      /\ Finish(s, sync[s].save, AllSaved(s))
  BY DEF EndUpdate, EndSave, Saving
<1>2. \A n \in Names : AllSaved(s)[n] # None /\ AllSaved(s)[n].by # "user"
                         => IsName(sync[s].save.models, n) \/ Listed(s, n)
  <2> SUFFICES ASSUME NEW n \in Names, AllSaved(s)[n] # None, AllSaved(s)[n].by # "user",
                      ~IsName(sync[s].save.models, n)
               PROVE  Listed(s, n)
    OBVIOUS
  <2>1. ~ByUser(n)
    BY <1>1, SaveFacts DEF ByUser
  <2> QED BY <1>1, <2>1, Alone DEF HasModel
<1> DEFINE st == sync[s].save
           fs == AllSaved(s)
<1>3. /\ StateAt(st, clock) /\ Distinct(st.models) /\ FilesAt(fs, Now) /\ SameQuery(st, fs)
      /\ \A n \in Names : fs[n] # None /\ fs[n].by # "user" => IsName(st.models, n) \/ Listed(s, n)
      /\ Finish(s, st, fs)
  BY <1>1, <1>2, SaveFacts
<1> HIDE DEF st, fs
<1> QED BY <1>1, <1>3, FinishOwn

LEMMA EndSyncOwn ==
  ASSUME OneSync, TypeInv, Own, TypeInv', NEW s \in Syncs, EndSync(s)
  PROVE  Own'
<1>1. /\ sync[s].at = "save" /\ "save" \in Saving
      /\ file' = sync[s].save /\ files' = AllSaved(s) /\ sync' = [sync EXCEPT ![s] = NoSync]
      /\ UNCHANGED <<store, known>> /\ \A y \in Syncs : y = s
  BY Alone DEF EndSync, EndSave, Saving, memory
<1>2. sync'[s].at = "idle"
  BY <1>1 DEF TypeInv, StatesOK, NoSync
<1>3. Up /\ Up'
  BY <1>1, SaveFacts DEF Up
<1>4. ASSUME NEW n \in Names, ~ByUser(n)' PROVE HasModel(n)'
  <2>1. IsName(sync[s].save.models, n) \/ known[n] # 0
    <3>1. CASE AllSaved(s)[n] = files[n]
      BY <1>1, <1>4, <3>1, Alone DEF ByUser, HasModel
    <3> QED BY <1>1, <3>1, SaveFacts
  <2> QED BY <1>1, <1>2, <1>3, <2>1, SaveFacts DEF HasModel
<1>5. Places'
  BY <1>1, <1>2, SaveFacts DEF Places, Quiet, Saving, Up, Real
<1> QED BY <1>1, <1>4, <1>5, SaveFacts DEF Own

LEMMA CallOwn ==
  ASSUME TypeInv, Own, NEW t \in timers, Call(t), Up'
  PROVE  Own'
<1>1. Up /\ UNCHANGED <<known, file, files, sync>> /\ Distinct(store.models)
  BY DEF Call, TypeInv, Awake, disk, Own, Places
<1>2. Distinct(store'.models)
  <2> DEFINE models == store.models
             gone   == models \ WithId(models, t.id)
             added  == Added(models, t.name, files[t.name].query)
  <2>1. CASE store' = store
    BY <1>1, <2>1
  <2>2. CASE store' = State(Now, gone)
    <3>1. store'.models = gone
      BY <2>2 DEF State
    <3> QED BY <1>1, <3>1 DEF Distinct
  <2>3. CASE Named(models, t.name) = {} /\ store' = State(Now, added)
    <3>1. store'.models = added
      BY <2>3 DEF State
    <3>2. \A q : Added(models, t.name, q)
                   = models \cup {Model(NewId, t.name, q, IF q = Empty THEN 0 ELSE Now)}
      BY DEF Added
    <3>3. \A q, upd : Model(NewId, t.name, q, upd).name = t.name
      BY DEF Model
    <3> QED BY <1>1, <2>3, <3>1, <3>2, <3>3 DEF Distinct, Named
  <2> QED BY <2>1, <2>2, <2>3 DEF Call, Free
<1> QED BY <1>1, <1>2, StoreOwn

\* A rename to a name that is taken meanwhile makes them come apart.
LEMMA RenamedOwn ==
  ASSUME TypeInv, RequestsOK, Own, ~torn', NEW r \in renames, Renamed(r)
  PROVE  Own'
<1>1. Up /\ Up' /\ UNCHANGED <<known, file, files, sync>>
  BY RenamedFacts DEF Renamed
<1>2. Distinct(store'.models)
  BY DEF Renamed
<1> QED BY <1>1, <1>2, StoreOwn

LEMMA CrashOwn ==
  ASSUME TypeInv, Own, ~torn', TypeInv', Crash
  PROVE  Own'
<1>1. Agreed /\ Up /\ ~Up' /\ UNCHANGED files
      /\ file' \in {file} \cup {sync[s].save : s \in {s \in Syncs : sync[s].at \in Saving}}
      /\ sync' = [s \in Syncs |-> NoSync]
  BY DEF Crash, CutOff, Saving, Up
<1>2. Real(file) /\ \A s \in Syncs : sync[s].at \notin Saving
  BY <1>1 DEF Agreed, Real, Own, Places
<1>3. file' = file /\ \A s \in Syncs : sync'[s].at = "idle"
  BY <1>1, <1>2 DEF NoSync
<1>4. ASSUME NEW n \in Names, ~ByUser(n)' PROVE HasModel(n)'
  <2>1. files[n] # None
    BY <1>1, <1>4 DEF ByUser
  <2>2. PICK m \in store.models : m.name = n
    <3>1. files[n].by # "user"
      BY <1>1, <1>4 DEF ByUser
    <3> QED BY <1>1, <2>1, <3>1 DEF Agreed, Refused
  <2>3. {[x EXCEPT !.upd = 0] : x \in store.models} = {[x EXCEPT !.upd = 0] : x \in file.models}
    BY <1>1 DEF Agreed
  <2>4. PICK o \in file.models : [m EXCEPT !.upd = 0] = [o EXCEPT !.upd = 0]
    BY <2>2, <2>3
  <2>5. m.name = o.name
    <3>1. m \in ModelsAt(clock) /\ o \in ModelsAt(clock)
      BY <1>1, <1>2, <2>2, <2>4, Present0, StateForm DEF Real
    <3>2. [m EXCEPT !.upd = 0].name = m.name /\ [o EXCEPT !.upd = 0].name = o.name
      BY <3>1 DEF ModelsAt
    <3> QED BY <2>4, <3>2
  <2> QED BY <1>2, <1>3, <2>2, <2>4, <2>5 DEF HasModel, IsName, Named
<1>5. Places'
  BY <1>1, <1>2, <1>3 DEF Own, Places, Real, Saving
<1> QED BY <1>1, <1>3, <1>4, <1>5 DEF Own

\* The state file that the start of the server reads.
LEMMA RestartFacts ==
  ASSUME TypeInv, Own, Restart, Real(file)
  PROVE  /\ StateAt(file, clock) /\ Distinct(file.models) /\ SameQuery(file, files) /\ Quiet
         /\ \A n \in Names : ~ByUser(n) => IsName(file.models, n)
<1>1. Quiet /\ ~Up
  BY DEF Restart, Quiet, TypeInv, Awake
<1>2. StateAt(file, clock)
  BY Present0 DEF Real
<1> QED BY <1>1, <1>2 DEF Own, Places, HasModel

LEMMA RestartOwn ==
  ASSUME TypeInv, Own, TypeInv', Restart
  PROVE  Own'
<1>1. Quiet /\ ~Up /\ UNCHANGED sync /\ Quiet'
  BY DEF Restart, Quiet, TypeInv, Awake
<1> HIDE DEF Up
<1>2. CASE ~Real(file)
  <2>1. store' = EmptyState /\ UNCHANGED <<file, files>>
    BY <1>2 DEF Restart, Real, disk
  <2>2. \A n \in Names : ByUser(n)'
    BY <1>1, <1>2, <2>1 DEF Own, HasModel, ByUser
  <2>3. Distinct(store'.models)
    BY <2>1 DEF EmptyState, State, Distinct
  <2>4. Places'
    BY <1>1, <1>2, <2>1, <2>3 DEF Own, Places, Quiet, Saving
  <2> QED BY <1>2, <2>1, <2>2, <2>4 DEF Own
<1>3. CASE Real(file)
  <2> DEFINE state == Updated(file)
             fs    == Filled(file, NoFiles)
  <2>1. /\ store' = Stamped(state) /\ file' = state
        /\ files' = IF state # file THEN Saved(fs, state.models) ELSE fs
    BY <1>3 DEF Restart, Real
  <2>2. StateAt(state, Now) /\ Distinct(state.models) /\ Real(state)
        /\ \A n : IsName(state.models, n) <=> IsName(file.models, n)
    BY <1>3, RestartFacts, Present0, UpdatedFacts, RealState
  <2>3. FilesAt(fs, Now) /\ SameQuery(file, fs)
        /\ \A n \in Names : fs[n] = files[n] \/ IsName(file.models, n)
    BY <1>3, RestartFacts, Present0, FilledFacts, FilledQuery
  <2> HIDE DEF state, fs
  <2>4. /\ SameQuery(state, Saved(fs, state.models))
        /\ \A n \in Names : ~IsName(state.models, n) => Saved(fs, state.models)[n] = fs[n]
    <3>1. clock \in Nat /\ Now \in Nat /\ Now <= Now
      BY Present0
    <3> QED BY ONLY <2>2, <2>3, <3>1, SavedQuery
  <2>5. SameQuery(state, files')
    BY <2>1, <2>3, <2>4
  <2>6. \A n \in Names : ~ByUser(n)' => IsName(state.models, n)
    <3> SUFFICES ASSUME NEW n \in Names, ~IsName(state.models, n) PROVE ByUser(n)'
      OBVIOUS
    <3>1. files'[n] = files[n]
      BY <2>1, <2>2, <2>3, <2>4
    <3> QED BY <1>3, <2>2, <3>1, RestartFacts DEF ByUser
  <2>7. store'.models = state.models
    BY <2>1, <2>2, Present0, StampedFacts
  <2>8. \A s \in Syncs : sync'[s].at = "idle"
    BY <1>1 DEF Quiet
  <2>9. \A n \in Names : ~ByUser(n)' => HasModel(n)'
    BY <2>1, <2>2, <2>6, <2>8 DEF HasModel
  <2>10. Places'
    BY <2>1, <2>2, <2>7, <2>8 DEF Places, Real, Saving
  <2> QED BY <2>1, <2>5, <2>9, <2>10 DEF Own
<1> QED BY <1>2, <1>3

LEMMA OwnInit ==
  ASSUME Init
  PROVE  Own
<1>1. file # Partial /\ ~Real(file) /\ store.models = {} /\ \A n \in Names : ByUser(n)
  BY StatesAssumption DEF Init, Real, EmptyState, State, ByUser
<1>2. \A s \in Syncs : sync[s].at = "idle"
  BY DEF Init, NoSync
<1> QED BY <1>1, <1>2 DEF Own, Places, Distinct, Saving

LEMMA OwnNext ==
  ASSUME OneSync, TypeInv, RequestsOK, TypeInv', OwnInv, [Next]_vars
  PROVE  OwnInv'
<1> SUFFICES ASSUME ~torn, Own, ~torn' PROVE Own'
  BY TornStays DEF OwnInv
<1>1. CASE UNCHANGED vars
  BY <1>1, SameOwn DEF vars, memory, disk
<1>2. ASSUME NEW s \in Syncs, SyncStep(s) PROVE Own'
  BY <1>2, BeginOwn, ReadOwn, EndFirstOwn, EndUpdateOwn, EndSyncOwn DEF SyncStep
<1>3. ASSUME NEW t \in timers, Call(t) PROVE Own'
  BY <1>3, CallType, CallOwn
<1>4. CASE Edits
  BY <1>4, EditsType, EditsOwn
<1>5. ASSUME NEW r \in renames, Renamed(r) PROVE Own'
  BY <1>5, RenamedOwn
<1> QED BY <1>1, <1>2, <1>3, <1>4, <1>5, CrashOwn, RestartOwn DEF Next

\* A query that an update takes from a file is not one that the server has
\* written there.
LEMMA UpdatedByUser ==
  ASSUME TypeInv, StateAt(file, clock), SameQuery(file, files)
  PROVE  OwnQuery(Updated(file).models)
<1> SUFFICES ASSUME NEW m \in Updated(file).models, NEW o \in file.models, m.id = o.id, m.query # o.query
             PROVE  ByUser(m.name)
  BY DEF OwnQuery
<1>1. PICK x \in file.models : m.id = x.id /\ m.name = x.name /\ (m.query # x.query => Newer(x))
  BY Present0, UpdatedFacts
<1>2. x = o
  BY <1>1, StateForm
<1>3. files[o.name] # None /\ files[o.name].query # o.query
  BY <1>1, <1>2 DEF Newer
<1>4. files[o.name].by # "server"
  BY <1>3 DEF SameQuery
<1>5. o.name \in Names
  BY StateForm DEF ModelsAt
<1>6. files[o.name].by = "user"
  BY <1>3, <1>4, <1>5, Present0 DEF FilesAt
<1> QED BY <1>1, <1>2, <1>6 DEF ByUser

\* The three ways a file could come back: a sync takes a query from it, the start
\* of the server does, or a model is put off for it.
Updates == \A s \in Syncs : sync[s].at = "read" /\ sync'[s].at = "update" => OwnQuery(sync'[s].save.models)
Starts == ~Up /\ Up' /\ file \notin {None, Partial} => OwnQuery(store'.models)
PutsOff == \A t \in timers' \ timers : t.call = "addModel" => ByUser(t.name)

\* A sync puts off a model only for a file that it has listed without a model.
LEMMA FinishPutsOff ==
  ASSUME TypeInv, NEW s \in Syncs, NEW state, StateAt(state, clock), NEW fs, Finish(s, state, fs),
         \A n \in Names : ~ByUser(n) => IsName(state.models, n) \/ Listed(s, n)
  PROVE  PutsOff
<1> SUFFICES ASSUME NEW t \in timers', t \notin timers, t.call = "addModel" PROVE ByUser(t.name)
  BY DEF PutsOff
<1> DEFINE listed == sync[s].listed
<1>1. t \in PutOff(state, listed, previous) /\ DOMAIN listed \subseteq Names
  BY Present0 DEF Finish
<1> HIDE DEF listed
<1>2. t.name \in Names /\ listed[t.name] = 0 /\ Owner(state, t.name) = 0
  BY <1>1, PutOffFacts
<1>3. ~IsName(state.models, t.name) /\ ~Listed(s, t.name)
  BY <1>2, Present0, OwnerFacts DEF Listed, listed
<1> QED BY <1>2, <1>3

LEMMA CompareAt ==
  ASSUME TypeInv, NEW s \in Syncs, NEW state, NEW written, Compare(s, state, written)
  PROVE  sync'[s].at # "update"
<1>1. SyncAt(sync[s], clock) /\ DOMAIN sync = Syncs
  BY DEF TypeInv, StatesOK
<1> QED BY <1>1 DEF Compare, StartSave, NoSync, SyncAt

LEMMA SyncIgnores ==
  ASSUME OneSync, TypeInv, Own, NEW s \in Syncs, SyncStep(s)
  PROVE  Updates /\ Starts /\ PutsOff
<1>1. Starts
  BY Present0 DEF SyncStep, BeginSync, Read, EndFirstSave, EndUpdate, EndSync, EndSave, Starts
<1>2. CASE UNCHANGED timers /\ sync[s].at # "read"
  BY <1>1, <1>2, Alone DEF Updates, PutsOff
<1>3. CASE Read(s)
  <2>1. sync[s].at = "read" /\ Real(file) /\ StateAt(file, clock) /\ SameQuery(file, files)
        /\ Distinct(file.models) /\ \A y \in Syncs : y = s
    BY <1>3, Alone, Present0 DEF Read, Real
  <2>2. CASE Updated(file) # file
    <3>1. StartSave(s, "update", Updated(file)) /\ timers' = timers
      BY <1>3, <2>1, <2>2 DEF Read, Real, memory
    <3>2. sync'[s].save = Updated(file)
      <4>1. sync' = [sync EXCEPT ![s].at = "update", ![s].save = Updated(file)]
        BY <3>1 DEF StartSave
      <4>2. SyncAt(sync[s], clock) /\ DOMAIN sync = Syncs
        BY DEF TypeInv, StatesOK
      <4> QED BY <4>1, <4>2 DEF SyncAt
    <3> QED BY <1>1, <2>1, <3>1, <3>2, UpdatedByUser DEF Updates, PutsOff
  <2>3. CASE Updated(file) = file
    <3> DEFINE fs == Filled(file, previous)
    <3>1. Finish(s, file, fs)
      BY <1>3, <2>1, <2>3 DEF Read, Real
    <3> HIDE DEF fs
    <3>2. sync'[s].at # "update"
      BY <3>1, CompareAt DEF Finish
    <3>3. \A n \in Names : ~ByUser(n) => IsName(file.models, n) \/ Listed(s, n)
      BY <2>1, Alone DEF HasModel
    <3> QED BY <1>1, <2>1, <3>1, <3>2, <3>3, FinishPutsOff DEF Updates
  <2> QED BY <2>2, <2>3
<1>4. CASE EndUpdate(s)
  <2>1. sync[s].at = "update" /\ Finish(s, sync[s].save, AllSaved(s)) /\ StateAt(sync[s].save, clock)
    BY <1>4, Present0 DEF EndUpdate, EndSave
  <2>2. \A n \in Names : ~ByUser(n) => IsName(sync[s].save.models, n) \/ Listed(s, n)
    BY <2>1, Alone DEF HasModel
  <2> DEFINE st == sync[s].save
             fs == AllSaved(s)
  <2>3. /\ StateAt(st, clock) /\ Finish(s, st, fs)
        /\ \A n \in Names : ~ByUser(n) => IsName(st.models, n) \/ Listed(s, n)
    BY <2>1, <2>2
  <2> HIDE DEF st, fs
  <2>4. PutsOff
    BY <2>3, FinishPutsOff
  <2> QED BY <1>1, <2>1, <2>4, Alone DEF Updates
<1>5. CASE BeginSync(s)
  BY <1>2, <1>5 DEF BeginSync
<1>6. CASE EndFirstSave(s)
  BY <1>2, <1>6 DEF EndFirstSave, EndSave
<1>7. CASE EndSync(s)
  BY <1>2, <1>7 DEF EndSync, EndSave, memory
<1> QED BY <1>3, <1>4, <1>5, <1>6, <1>7 DEF SyncStep

LEMMA RestartIgnores ==
  ASSUME TypeInv, Own, Restart
  PROVE  Updates /\ Starts /\ PutsOff
<1>1. Updates
  BY DEF Restart, Updates
<1>2. CASE ~Real(file)
  BY <1>1, <1>2 DEF Restart, Real, Starts, PutsOff
<1>3. CASE Real(file)
  <2> DEFINE state  == Updated(file)
             listed == [n \in Present(files) |-> 0]
  <2>1. store' = Stamped(state) /\ timers' = PutOff(state, listed, NoFiles)
    BY <1>3 DEF Restart, Real
  <2>2. StateAt(state, Now) /\ Now \in Nat /\ \A n : IsName(state.models, n) <=> IsName(file.models, n)
    BY <1>3, RestartFacts, Present0, UpdatedFacts
  <2>3. OwnQuery(state.models)
    BY <1>3, RestartFacts, UpdatedByUser
  <2>4. DOMAIN listed \subseteq Names
    BY DEF Present
  <2> HIDE DEF state, listed
  <2>5. Starts
    BY <2>1, <2>2, <2>3, StampedFacts DEF Starts
  <2>6. PutsOff
    <3> SUFFICES ASSUME NEW t \in timers', t.call = "addModel" PROVE ByUser(t.name)
      BY DEF PutsOff
    <3>1. t.name \in Names /\ Owner(state, t.name) = 0
      BY <2>1, <2>4, PutOffFacts
    <3>2. ~IsName(file.models, t.name)
      BY <2>2, <3>1, OwnerFacts
    <3> QED BY <1>3, <3>1, <3>2, RestartFacts
  <2> QED BY <1>1, <2>5, <2>6
<1> QED BY <1>2, <1>3

LEMMA NextIgnores ==
  ASSUME OneSync, TypeInv, RequestsOK, Own, [Next]_vars
  PROVE  Updates /\ Starts /\ PutsOff
<1>1. CASE UNCHANGED <<sync, timers>> /\ (Up \/ ~Up')
  BY <1>1 DEF Updates, Starts, PutsOff
<1>2. CASE UNCHANGED vars
  BY <1>1, <1>2 DEF vars, memory, Up
<1>3. CASE Edits
  <2>1. ASSUME Up, NEW models, Act(models) PROVE UNCHANGED <<sync, timers>> /\ (Up \/ ~Up')
    BY <2>1 DEF Act
  <2>2. ASSUME NEW n \in Names, NEW content, EditFile(n, content)
        PROVE  UNCHANGED <<sync, timers>> /\ (Up \/ ~Up')
    BY <2>2 DEF EditFile, memory, Up
  <2>3. ASSUME UNCHANGED <<memory, sync>> PROVE UNCHANGED <<sync, timers>> /\ (Up \/ ~Up')
    BY <2>3 DEF memory, Up
  <2> HIDE DEF Up
  <2> QED BY <1>1, <1>3, <2>1, <2>2, <2>3
          DEF Edits, AddModel, WriteFile, RemoveFile, DeleteModel, UpdateModelQuery, UpdateModelName,
              AddSource, DropSource, ChangeSources
<1>4. CASE Crash
  BY <1>4 DEF Crash, NoSync, Updates, Starts, PutsOff
<1>5. ASSUME NEW t \in timers, Call(t) PROVE Updates /\ Starts /\ PutsOff
  BY <1>5 DEF Call, TypeInv, Awake, Updates, Starts, PutsOff
<1>6. ASSUME NEW r \in renames, Renamed(r) PROVE UNCHANGED <<sync, timers>> /\ (Up \/ ~Up')
  BY <1>6 DEF Renamed
<1> QED BY <1>1, <1>2, <1>3, <1>4, <1>5, <1>6, SyncIgnores, RestartIgnores DEF Next

\* A model takes its query from a file, in a sync or at the start, and a model is
\* put off for a file, only if somebody else has written the file, as long as
\* memory, state file and folder have not come apart: if syncs do not overlap.
THEOREM OwnIgnored ==
  ASSUME OneSync
  PROVE  Spec => OwnFilesIgnored
<1>1. Init => TypeInv /\ RequestsOK /\ OwnInv
  BY TypeInit, RequestsInit, OwnInit DEF OwnInv
<1>2. TypeInv /\ RequestsOK /\ OwnInv /\ [Next]_vars => (TypeInv /\ RequestsOK /\ OwnInv)'
  BY TypeNext, RequestsNext, OwnNext
<1>3. TypeInv /\ RequestsOK /\ OwnInv /\ [Next]_vars =>
        [ \/ torn
          \/ /\ \A s \in Syncs :
                  sync[s].at = "read" /\ sync'[s].at = "update" => OwnQuery(sync'[s].save.models)
             /\ ~Up /\ Up' /\ file \notin {None, Partial} => OwnQuery(store'.models)
             /\ \A t \in timers' \ timers : t.call = "addModel" => ByUser(t.name) ]_vars
  BY NextIgnores DEF OwnInv, Updates, Starts, PutsOff
<1> QED BY <1>1, <1>2, <1>3, PTL DEF Spec, OwnFilesIgnored
=============================================================================
