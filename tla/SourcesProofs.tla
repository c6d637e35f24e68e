---------------------------- MODULE SourcesProofs ----------------------------
(***************************************************************************)
(* What holds of the sources of the node server for every number of polls, *)
(* names and contents: the entities keep their types and their ids stay    *)
(* unique, no source is shown as busy without a call that will reset it,   *)
(* and entities come and go in pairs.                                      *)
(***************************************************************************)
EXTENDS Sources, TLAPS, FiniteSetTheorems, SequenceTheorems, WellFoundedInduction

Columns == {c[2] : c \in Contents}
Working == {"import", "profileCols", "profileRows", "summaries"}

\* What a call remembers while it waits for a job.
CallOk(r, c) ==
  /\ r.job = "none" <=> r.at \notin Waiting
  /\ r.at \in Waiting => r.name \in Names
  /\ r.at = "profileRows" => r.cols \in Columns
  /\ r.at = "import" =>
       c = UI /\ r.content \in Contents /\ (r.original # None => r.original.id = r.id)
CallsOk(calls) == calls \in [Callers -> CallStates] /\ \A c \in Callers : CallOk(calls[c], c)

\* A call that will set the status of this entity back to idle: a cancelled
\* import will not.
Resets(r, id) == r.id = id /\ r.at \in Working /\ ~(r.at = "import" /\ r.job = "cancelled")
Attended(calls, ds) ==
  \A i \in DOMAIN ds : ds[i].status # "Idle" => \E c \in Callers : Resets(calls[c], ds[i].id)

\* The roll-back of an import over a known table finds the persistent entity if
\* the derived one is there.
RollsBack(calls, ts, ds) ==
  LET r == calls[UI] IN
  r.at = "import" /\ r.original # None /\ r.id \in Ids(ds) => r.id \in Ids(ts)

Tables(ts, ds) ==
  /\ ts \in Seq(Entities) /\ UniqueIds(ts)
  /\ ds \in Seq(DerivedEntities) /\ UniqueIds(ds)

IInv == TypeOK /\ CallsOk(call) /\ Attended(call, derived) /\ RollsBack(call, tables, derived)

-----------------------------------------------------------------------------
(* Sequences of entities                                                   *)

\* A set of natural numbers has a least element.
LEMMA LeastElement ==
  ASSUME NEW S \in SUBSET Nat, S # {}
  PROVE  \E i \in S : \A j \in S : i <= j
<1> DEFINE R == OpToRel(<, Nat)
<1>1. IsWellFoundedOn(R, Nat)
  BY NatLessThanWellFounded
<1>2. PICK i \in S : \A j \in S : <<j, i>> \notin R
  <2> HIDE DEF R
  <2> QED BY <1>1, WFMin
<1>3. \A j \in S : ~(j < i)
  BY <1>2 DEF OpToRel
<1> QED BY <1>3

\* getByField returns an entity of this name if there is one.
LEMMA NamedFacts ==
  ASSUME TypeOK, NEW n, Taken(n)
  PROVE  \E i \in DOMAIN tables : Named(n) = tables[i] /\ tables[i].name = n
<1> DEFINE FirstAt(i) == tables[i].name = n /\ \A j \in 1..(i - 1) : tables[j].name # n
<1>1. DOMAIN tables = 1..Len(tables) /\ Len(tables) \in Nat
  BY DEF TypeOK
<1> DEFINE S == {i \in DOMAIN tables : tables[i].name = n}
<1>2. S \in SUBSET Nat /\ S # {}
  BY <1>1 DEF Taken
<1>3. PICK i \in S : \A j \in S : i <= j
  <2> HIDE DEF S
  <2> QED BY <1>2, LeastElement
<1>4. i \in DOMAIN tables /\ FirstAt(i)
  BY <1>1, <1>3
<1>5. Named(n) = tables[CHOOSE k \in DOMAIN tables : FirstAt(k)]
  BY DEF Named
<1> HIDE DEF FirstAt
<1>6. (CHOOSE k \in DOMAIN tables : FirstAt(k)) \in DOMAIN tables
      /\ FirstAt(CHOOSE k \in DOMAIN tables : FirstAt(k))
  BY <1>4
<1> QED BY <1>5, <1>6 DEF FirstAt

LEMMA UniqueFacts ==
  ASSUME NEW S, NEW s \in Seq(S)
  PROVE  UniqueIds(s) <=> \A i, j \in DOMAIN s : s[i].id = s[j].id => i = j
BY DEF UniqueIds, IsInjective

LEMMA ByIdFacts ==
  ASSUME NEW s, NEW id \in Ids(s)
  PROVE  \E i \in DOMAIN s : ById(s, id) = s[i] /\ s[i].id = id
BY DEF ById, Ids

LEMMA RemoveFacts ==
  ASSUME NEW S, NEW s \in Seq(S), NEW i \in 1..Len(s)
  PROVE  /\ RemoveAt(s, i) \in Seq(S) /\ Len(RemoveAt(s, i)) = Len(s) - 1
         /\ \A j \in 1..(Len(s) - 1) : RemoveAt(s, i)[j] = IF j < i THEN s[j] ELSE s[j + 1]
<1> DEFINE a == SubSeq(s, 1, i - 1)
           b == SubSeq(s, i + 1, Len(s))
<1>1. a \in Seq(S) /\ Len(a) = i - 1 /\ \A j \in 1..(i - 1) : a[j] = s[j]
  OBVIOUS
<1>2. b \in Seq(S) /\ Len(b) = Len(s) - i /\ \A j \in 1..(Len(s) - i) : b[j] = s[j + i]
  OBVIOUS
<1>3. RemoveAt(s, i) = a \o b
  BY DEF RemoveAt
<1> HIDE DEF a, b
<1>4. a \o b \in Seq(S) /\ Len(a \o b) = Len(s) - 1
  <2>1. a \o b \in Seq(S) /\ Len(a \o b) = Len(a) + Len(b)
    BY <1>1, <1>2, ConcatProperties
  <2>2. Len(s) \in Nat
    OBVIOUS
  <2> QED BY <1>1, <1>2, <2>1, <2>2
<1>5. ASSUME NEW j \in 1..(Len(s) - 1) PROVE (a \o b)[j] = IF j < i THEN s[j] ELSE s[j + 1]
  <2>1. (a \o b)[j] = IF j <= Len(a) THEN a[j] ELSE b[j - Len(a)]
    BY <1>1, <1>2
  <2>2. CASE j < i
    BY <2>1, <2>2, <1>1
  <2>3. CASE ~(j < i)
    <3>1. j - (i - 1) \in 1..(Len(s) - i) /\ (j - (i - 1)) + i = j + 1
      BY <2>3
    <3>2. b[j - (i - 1)] = s[j + 1]
      BY <3>1, <1>2
    <3> QED BY <2>1, <2>3, <3>2, <1>1
  <2> QED BY <2>2, <2>3
<1> QED BY <1>3, <1>4, <1>5

\* splice removes the entity with this id, and only that one.
LEMMA WithoutFacts ==
  ASSUME NEW S, NEW s \in Seq(S), UniqueIds(s), NEW id
  PROVE  /\ Without(s, id) \in Seq(S) /\ UniqueIds(Without(s, id))
         /\ \A j \in DOMAIN Without(s, id) : \E i \in DOMAIN s :
              Without(s, id)[j] = s[i] /\ (id \in Ids(s) => s[i].id # id)
         /\ id \in Ids(s) => Ids(Without(s, id)) = Ids(s) \ {id}
<1> DEFINE w == Without(s, id)
<1>0. \A i, j \in DOMAIN s : s[i].id = s[j].id => i = j
  BY UniqueFacts
<1>1. CASE id \in Ids(s)
  <2> DEFINE k == CHOOSE i \in DOMAIN s : s[i].id = id
  <2>1. k \in 1..Len(s) /\ s[k].id = id
    BY <1>1 DEF Ids
  <2>2. w = RemoveAt(s, k)
    BY <1>1 DEF Without
  <2> HIDE DEF k, w
  <2>3. /\ w \in Seq(S) /\ Len(w) = Len(s) - 1 /\ DOMAIN w = 1..(Len(s) - 1)
        /\ \A j \in 1..(Len(s) - 1) : w[j] = IF j < k THEN s[j] ELSE s[j + 1]
    <3> DEFINE rs == RemoveAt(s, k)
    <3>1. /\ rs \in Seq(S) /\ Len(rs) = Len(s) - 1
          /\ \A j \in 1..(Len(s) - 1) : rs[j] = IF j < k THEN s[j] ELSE s[j + 1]
      BY <2>1, RemoveFacts
    <3>2. w = rs
      BY <2>2
    <3> HIDE DEF rs
    <3> QED BY <3>1, <3>2
  <2>4. \A j \in DOMAIN w : \E i \in DOMAIN s : i = (IF j < k THEN j ELSE j + 1) /\ w[j] = s[i] /\ i # k
    BY <2>1, <2>3
  <2>5. UniqueIds(w)
    <3>1. ASSUME NEW i \in DOMAIN w, NEW j \in DOMAIN w, w[i].id = w[j].id PROVE i = j
      <4> DEFINE f(l) == IF l < k THEN l ELSE l + 1
      <4>1. f(i) \in DOMAIN s /\ f(j) \in DOMAIN s /\ w[i] = s[f(i)] /\ w[j] = s[f(j)]
        BY <2>1, <2>3
      <4>2. f(i) = f(j)
        <5> HIDE DEF f
        <5> QED BY <3>1, <4>1, <1>0
      <4> QED BY <4>2, <2>1, <2>3
    <3> QED BY <3>1, <2>3, UniqueFacts
  <2>6. \A i \in DOMAIN s : i # k => \E j \in DOMAIN w : w[j] = s[i]
    <3> SUFFICES ASSUME NEW i \in DOMAIN s, i # k PROVE \E j \in DOMAIN w : w[j] = s[i]
      OBVIOUS
    <3>1. CASE i < k
      BY <3>1, <2>1, <2>3
    <3>2. CASE i > k
      <4>1. i - 1 \in DOMAIN w /\ w[i - 1] = s[i]
        BY <3>2, <2>1, <2>3
      <4> QED BY <4>1
    <3> QED BY <3>1, <3>2, <2>1
  <2>7. Ids(w) = Ids(s) \ {id}
    BY <1>0, <2>1, <2>4, <2>6 DEF Ids
  <2> QED BY <1>0, <1>1, <2>1, <2>3, <2>4, <2>5, <2>7 DEF w
<1>2. CASE id \notin Ids(s) /\ s = <<>>
  BY <1>2 DEF Without
<1>3. CASE id \notin Ids(s) /\ s # <<>>
  <2>1. w = Front(s)
    BY <1>3 DEF Without
  <2>2. w \in Seq(S) /\ Len(w) = Len(s) - 1 /\ \A i \in 1..(Len(s) - 1) : w[i] = s[i]
    <3>1. Front(s) = SubSeq(s, 1, Len(s) - 1)
      BY DEF Front
    <3>2. Len(s) \in Nat \ {0}
      BY <1>3
    <3>3. \A i \in 1..(Len(s) - 1) : s[i] \in S
      BY <3>2
    <3> HIDE DEF w
    <3>4. /\ SubSeq(s, 1, Len(s) - 1) \in Seq(S)
          /\ Len(SubSeq(s, 1, Len(s) - 1)) = IF 1 <= Len(s) - 1 THEN (Len(s) - 1) - 1 + 1 ELSE 0
          /\ \A i \in 1..((Len(s) - 1) - 1 + 1) : SubSeq(s, 1, Len(s) - 1)[i] = s[1 + i - 1]
      BY <3>2, <3>3, SubSeqProperties
    <3>5. (Len(s) - 1) - 1 + 1 = Len(s) - 1 /\ \A i \in 1..(Len(s) - 1) : 1 + i - 1 = i
      BY <3>2
    <3> QED BY <2>1, <3>1, <3>2, <3>4, <3>5
  <2> HIDE DEF w
  <2>3. UniqueIds(w)
    BY <1>0, <2>2, UniqueFacts
  <2> QED BY <1>3, <2>2, <2>3 DEF w
<1> QED BY <1>1, <1>2, <1>3

\* setEntityStatus touches one entity, if it is there.
LEMMA StatusFacts ==
  ASSUME NEW s \in Seq(DerivedEntities), UniqueIds(s), NEW id, NEW st \in Statuses
  PROVE  /\ WithStatus(s, id, st) \in Seq(DerivedEntities) /\ UniqueIds(WithStatus(s, id, st))
         /\ DOMAIN WithStatus(s, id, st) = DOMAIN s
         /\ \A i \in DOMAIN s :
              /\ WithStatus(s, id, st)[i].id = s[i].id
              /\ s[i].id = id => WithStatus(s, id, st)[i].status = st
              /\ s[i].id # id => WithStatus(s, id, st)[i] = s[i]
         /\ Ids(WithStatus(s, id, st)) = Ids(s)
<1> DEFINE w == WithStatus(s, id, st)
<1>1. /\ DOMAIN w = 1..Len(s) /\ w \in Seq(DerivedEntities)
      /\ \A i \in DOMAIN s :
           /\ w[i].id = s[i].id
           /\ s[i].id = id => w[i].status = st
           /\ s[i].id # id => w[i] = s[i]
  <2>1. w = [i \in 1..Len(s) |-> IF s[i].id = id THEN [s[i] EXCEPT !.status = st] ELSE s[i]]
    BY DEF WithStatus
  <2>2. \A i \in 1..Len(s) : w[i] = IF s[i].id = id THEN [s[i] EXCEPT !.status = st] ELSE s[i]
    BY <2>1
  <2>3. \A i \in 1..Len(s) : s[i] \in DerivedEntities
    OBVIOUS
  <2>4. DOMAIN w = 1..Len(s) /\ Len(s) \in Nat
    BY <2>1
  <2> HIDE DEF w
  <2>5. ASSUME NEW i \in 1..Len(s)
        PROVE  /\ w[i] \in DerivedEntities /\ w[i].id = s[i].id
               /\ s[i].id = id => w[i].status = st
               /\ s[i].id # id => w[i] = s[i]
    BY <2>2, <2>3 DEF DerivedEntities
  <2>6. w = [i \in 1..Len(s) |-> w[i]]
    BY <2>1 DEF w
  <2>7. w \in Seq(DerivedEntities)
    BY <2>4, <2>5, <2>6
  <2> QED BY <2>4, <2>5, <2>7
<1> HIDE DEF w
<1>2. UniqueIds(w)
  BY <1>1, UniqueFacts
<1>3. Ids(w) = Ids(s)
  BY <1>1 DEF Ids
<1> QED BY <1>1, <1>2, <1>3 DEF w

LEMMA RenamedFacts ==
  ASSUME TypeOK, NEW id, NEW n \in Names, NEW to \in Names \cup {None}
  PROVE  /\ Renamed(id, n, to) \in Seq(Entities) /\ UniqueIds(Renamed(id, n, to))
         /\ Ids(Renamed(id, n, to)) = Ids(tables)
<1> DEFINE w == Renamed(id, n, to)
<1>0. tables \in Seq(Entities) /\ UniqueIds(tables)
  BY DEF TypeOK
<1>1. DOMAIN w = 1..Len(tables) /\ w \in Seq(Entities) /\ \A i \in DOMAIN w : w[i].id = tables[i].id
  <2>1. w = [i \in 1..Len(tables) |-> IF tables[i].id = id THEN [tables[i] EXCEPT !.name = n, !.to = to]
                                      ELSE tables[i]]
    BY <1>0 DEF Renamed
  <2>2. \A i \in 1..Len(tables) : tables[i] \in Entities
    BY <1>0
  <2>3. DOMAIN w = 1..Len(tables) /\ Len(tables) \in Nat
    <3>1. DOMAIN w = 1..Len(tables)
      BY <2>1
    <3> QED BY <1>0, <3>1
  <2>4. \A i \in 1..Len(tables) : w[i] = IF tables[i].id = id THEN [tables[i] EXCEPT !.name = n, !.to = to]
                                          ELSE tables[i]
    BY <2>1
  <2> HIDE DEF w
  <2>5. \A i \in 1..Len(tables) : w[i] \in Entities /\ w[i].id = tables[i].id
    BY <2>2, <2>4 DEF Entities
  <2>6. w = [i \in 1..Len(tables) |-> w[i]]
    BY <2>1 DEF w
  <2> QED BY <2>3, <2>5, <2>6
<1> HIDE DEF w
<1>2. UniqueIds(w)
  BY <1>0, <1>1, UniqueFacts
<1>3. Ids(w) = Ids(tables)
  BY <1>0, <1>1 DEF Ids
<1> QED BY <1>1, <1>2, <1>3 DEF w

LEMMA AppendFacts ==
  ASSUME NEW S, NEW s \in Seq(S), UniqueIds(s), NEW e \in S, e.id \notin Ids(s)
  PROVE  /\ Append(s, e) \in Seq(S) /\ UniqueIds(Append(s, e))
         /\ Ids(Append(s, e)) = Ids(s) \cup {e.id}
<1> DEFINE w == Append(s, e)
<1>1. /\ w \in Seq(S) /\ Len(w) = Len(s) + 1 /\ w[Len(s) + 1] = e
      /\ \A i \in 1..Len(s) : w[i] = s[i]
  OBVIOUS
<1>2. \A i \in DOMAIN s : s[i].id # e.id
  BY DEF Ids
<1> HIDE DEF w
<1>3. UniqueIds(w)
  BY <1>1, <1>2, UniqueFacts
<1>4. Ids(w) = Ids(s) \cup {e.id}
  BY <1>1 DEF Ids
<1> QED BY <1>1, <1>3, <1>4 DEF w

LEMMA FiniteIds ==
  ASSUME NEW S, NEW s \in Seq(S)
  PROVE  IsFiniteSet(Ids(s))
<1> DEFINE f == [i \in DOMAIN s |-> s[i].id]
<1>1. IsFiniteSet(DOMAIN s)
  <2>1. DOMAIN s = 1..Len(s) /\ Len(s) \in Nat
    OBVIOUS
  <2> QED BY <2>1, FS_Interval
<1>2. f \in Surjection(DOMAIN s, Ids(s))
  BY DEF Surjection, Ids
<1> QED BY <1>1, <1>2, FS_Surjection

\* The new guid is one nobody has.
LEMMA NewIdFacts ==
  ASSUME TypeOK
  PROVE  NewId \in Nat /\ NewId \notin Ids(tables) /\ NewId \notin Ids(derived)
<1> DEFINE F(c) == {call[c].id} \cup Ids(call[c].todo)
           f == [c \in Callers |-> F(c)]
           U == {f[c] : c \in Callers}
<1>1. IsFiniteSet(Callers)
  BY CallersAssumption, FS_AddElement DEF Callers
<1>2. ASSUME NEW c \in Callers PROVE IsFiniteSet(F(c))
  <2>1. call[c].todo \in Seq(Entities)
    BY DEF TypeOK, CallStates
  <2>2. IsFiniteSet(Ids(call[c].todo)) /\ IsFiniteSet({call[c].id})
    BY <2>1, FiniteIds, FS_Singleton
  <2> QED BY <2>2, FS_Union
<1>3. IsFiniteSet(U) /\ \A T \in U : IsFiniteSet(T)
  <2>1. f \in Surjection(Callers, U)
    BY DEF Surjection
  <2>2. IsFiniteSet(U)
    BY <2>1, <1>1, FS_Surjection
  <2> QED BY <2>2, <1>2
<1>4. IsFiniteSet(UNION U)
  <2> HIDE DEF U
  <2> QED BY <1>3, FS_UNION
<1>5. IsFiniteSet(Used)
  <2>1. Used = (Ids(tables) \cup Ids(derived)) \cup UNION U
    BY DEF Used
  <2>2. IsFiniteSet(Ids(tables)) /\ IsFiniteSet(Ids(derived))
    BY FiniteIds DEF TypeOK
  <2> HIDE DEF U
  <2>3. IsFiniteSet(Ids(tables) \cup Ids(derived))
    BY <2>2, FS_Union
  <2> QED BY <2>1, <2>3, <1>4, FS_Union
<1> DEFINE k == Cardinality(Used) + 1
<1>6. k \in Nat
  BY <1>5, FS_CardinalityType
<1>7. \E i \in 1..k : i \notin Used
  <2> SUFFICES ASSUME 1..k \subseteq Used PROVE FALSE
    OBVIOUS
  <2>1. Cardinality(1..k) <= Cardinality(Used)
    BY <1>5, FS_Subset
  <2>2. Cardinality(1..k) = IF 1 > k THEN 0 ELSE k - 1 + 1
    <3> HIDE DEF k
    <3> QED BY <1>6, FS_Interval
  <2>3. Cardinality(Used) \in Nat
    BY <1>5, FS_CardinalityType
  <2> QED BY <2>1, <2>2, <2>3
<1>8. NewId \in 1..k /\ NewId \notin Used
  BY <1>7 DEF NewId
<1> QED BY <1>6, <1>8 DEF Used

-----------------------------------------------------------------------------
(* What the steps are made of                                              *)

LEMMA ClearedFacts ==
  ASSUME NEW calls, CallsOk(calls), NEW id
  PROVE  /\ CallsOk(Cleared(calls, id))
         /\ \A c \in Callers :
              /\ Cleared(calls, id)[c].at = calls[c].at /\ Cleared(calls, id)[c].id = calls[c].id
              /\ Cleared(calls, id)[c].original = calls[c].original
              /\ calls[c].id # id => Cleared(calls, id)[c] = calls[c]
<1> SUFFICES ASSUME NEW c \in Callers
             PROVE  LET r == Cleared(calls, id)[c] IN
                    /\ r \in CallStates /\ CallOk(r, c)
                    /\ r.at = calls[c].at /\ r.id = calls[c].id /\ r.original = calls[c].original
                    /\ calls[c].id # id => r = calls[c]
  BY DEF CallsOk, Cleared
<1>1. calls[c] \in CallStates /\ CallOk(calls[c], c)
  BY DEF CallsOk
<1>2. Cleared(calls, id)[c] = IF calls[c].id = id /\ calls[c].job = "waits"
                              THEN [calls[c] EXCEPT !.job = "cancelled"] ELSE calls[c]
  BY DEF Cleared
<1> QED BY <1>1, <1>2 DEF CallStates, CallOk

LEMMA NoCallOk == \A c \in Callers : NoCall \in CallStates /\ CallOk(NoCall, c)
BY DEF NoCall, CallStates, CallOk, Waiting

LEMMA OverFacts ==
  ASSUME NEW c \in Callers, NEW r \in CallStates
  PROVE  Over(c, r) \in CallStates /\ CallOk(Over(c, r), c) /\ Over(c, r).at \in {"idle", "loop"}
<1> DEFINE o == [NoCall EXCEPT !.at = "loop", !.cats = r.cats, !.todo = r.todo]
<1>1. r.cats \in SUBSET Names /\ r.todo \in Seq(Entities)
  BY DEF CallStates
<1>2. o \in CallStates /\ o.at = "loop" /\ o.job = "none"
  BY <1>1, NoCallOk DEF NoCall, CallStates
<1>3. CallOk(o, c)
  <2> HIDE DEF o
  <2> QED BY <1>2 DEF CallOk, Waiting
<1>4. Over(c, r) = IF c \in Polls THEN o ELSE NoCall
  BY DEF Over
<1>5. NoCall.at = "idle"
  BY DEF NoCall
<1> HIDE DEF o
<1> QED BY <1>2, <1>3, <1>4, <1>5, NoCallOk

\* One call changes: the others keep their states.
LEMMA OneCall ==
  ASSUME NEW calls, CallsOk(calls), NEW c \in Callers, NEW r \in CallStates, CallOk(r, c)
  PROVE  CallsOk([calls EXCEPT ![c] = r])
BY DEF CallsOk

\* Applying a status, or removing an entity, leaves who is attended to attended.
LEMMA AttendedStatus ==
  ASSUME NEW calls, NEW next, NEW ds \in Seq(DerivedEntities), UniqueIds(ds), NEW id,
         NEW st \in Statuses,
         Attended(calls, ds),
         \A c \in Callers : \A o : o # id /\ Resets(calls[c], o) => Resets(next[c], o),
         st = "Idle" \/ \E c \in Callers : Resets(next[c], id)
  PROVE  Attended(next, WithStatus(ds, id, st))
<1> DEFINE w == WithStatus(ds, id, st)
<1>1. /\ DOMAIN w = DOMAIN ds
      /\ \A i \in DOMAIN ds : w[i].id = ds[i].id /\ (ds[i].id = id => w[i].status = st)
                              /\ (ds[i].id # id => w[i] = ds[i])
  BY StatusFacts
<1> HIDE DEF w
<1>2. ASSUME NEW i \in DOMAIN w, w[i].status # "Idle" PROVE \E c \in Callers : Resets(next[c], w[i].id)
  <2>1. CASE ds[i].id = id
    BY <2>1, <1>1, <1>2
  <2>2. CASE ds[i].id # id
    BY <2>2, <1>1, <1>2 DEF Attended
  <2> QED BY <2>1, <2>2
<1> QED BY <1>2 DEF Attended, w

LEMMA AttendedWithout ==
  ASSUME NEW calls, NEW next, NEW ds \in Seq(DerivedEntities), UniqueIds(ds), NEW id,
         Attended(calls, ds),
         \A c \in Callers : \A o : o # id /\ Resets(calls[c], o) => Resets(next[c], o)
  PROVE  Attended(next, Without(ds, id))
<1> DEFINE w == Without(ds, id)
<1>1. \A j \in DOMAIN w : \E i \in DOMAIN ds : w[j] = ds[i] /\ (id \in Ids(ds) => ds[i].id # id)
  BY WithoutFacts
<1> HIDE DEF w
<1>2. ASSUME NEW j \in DOMAIN w, w[j].status # "Idle" PROVE \E c \in Callers : Resets(next[c], w[j].id)
  <2>1. PICK i \in DOMAIN ds : w[j] = ds[i] /\ (id \in Ids(ds) => ds[i].id # id)
    BY <1>1
  <2>2. ds[i].id # id
    BY <2>1 DEF Ids
  <2> QED BY <1>2, <2>1, <2>2 DEF Attended
<1> QED BY <1>2 DEF Attended, w

\* collectTableInfo.
LEMMA CollectFacts ==
  ASSUME NEW c \in Callers, NEW id, NEW ts, NEW ds, NEW calls, Tables(ts, ds), CallsOk(calls),
         calls[c].at \notin Working,
         \A i \in DOMAIN ds : ds[i].id # id /\ ds[i].status # "Idle" =>
           \E k \in Callers : Resets(calls[k], ds[i].id),
         RollsBack(calls, ts, ds),
         CollectTableInfo(c, id, ts, ds, calls)
  PROVE  /\ Tables(ts, derived') /\ CallsOk(call') /\ Attended(call', derived')
         /\ RollsBack(call', ts, derived') /\ Ids(derived') = Ids(ds)
<1>0. calls \in [Callers -> CallStates] /\ calls[c] \in CallStates
  BY DEF CallsOk
<1>1. CASE id \in Ids(ts) \cap Ids(ds)
  <2>1. derived' = WithStatus(ds, id, "Profiling")
    BY <1>1 DEF CollectTableInfo
  <2> DEFINE cl == Cleared(calls, id)
             r == [cl[c] EXCEPT !.at = "profileCols", !.job = "waits", !.id = id, !.name = ById(ts, id).name]
  <2>2. call' = [cl EXCEPT ![c] = r]
    BY <1>1 DEF CollectTableInfo
  <2>3. /\ CallsOk(cl)
        /\ \A k \in Callers :
             /\ cl[k].at = calls[k].at /\ cl[k].id = calls[k].id /\ cl[k].original = calls[k].original
             /\ calls[k].id # id => cl[k] = calls[k]
    BY ClearedFacts
  <2> HIDE DEF cl
  <2>4. id \in Nat /\ ById(ts, id).name \in Names
    <3>1. PICK i \in DOMAIN ts : ById(ts, id) = ts[i] /\ ts[i].id = id
      BY <1>1, ByIdFacts
    <3>2. ts[i] \in Entities
      BY DEF Tables
    <3> QED BY <3>1, <3>2 DEF Entities
  <2>5. cl[c] \in CallStates /\ cl \in [Callers -> CallStates]
    BY <2>3 DEF CallsOk
  <2>6. /\ r \in CallStates /\ r.at = "profileCols" /\ r.job = "waits" /\ r.id = id
        /\ r.name = ById(ts, id).name
    BY <2>4, <2>5 DEF CallStates, Waiting
  <2> HIDE DEF r
  <2>7. CallOk(r, c)
    BY <2>4, <2>6 DEF CallOk, Waiting
  <2>8. CallsOk(call')
    BY <2>2, <2>3, <2>6, <2>7, OneCall
  <2>9. \A k \in Callers : call'[k] = IF k = c THEN r ELSE cl[k]
    BY <2>2, <2>5
  <2>10. /\ derived' \in Seq(DerivedEntities) /\ UniqueIds(derived') /\ Ids(derived') = Ids(ds)
         /\ DOMAIN derived' = DOMAIN ds
         /\ \A i \in DOMAIN ds :
              /\ derived'[i].id = ds[i].id
              /\ ds[i].id # id => derived'[i] = ds[i]
    BY <2>1, StatusFacts DEF Tables, Statuses
  <2>11. Attended(call', derived')
    <3> SUFFICES ASSUME NEW i \in DOMAIN derived', derived'[i].status # "Idle"
                 PROVE  \E k \in Callers : Resets(call'[k], derived'[i].id)
      BY DEF Attended
    <3>1. CASE ds[i].id = id
      BY <3>1, <2>6, <2>9, <2>10 DEF Resets, Working
    <3>2. CASE ds[i].id # id
      <4>1. PICK k \in Callers : Resets(calls[k], ds[i].id)
        BY <3>2, <2>10
      <4>2. k # c /\ cl[k] = calls[k]
        BY <3>2, <4>1, <2>3 DEF Resets
      <4> QED BY <4>1, <4>2, <2>9, <2>10
    <3> QED BY <3>1, <3>2
  <2>12. RollsBack(call', ts, derived')
    <3>1. UI \in Callers
      BY DEF Callers
    <3>2. CASE c = UI
      BY <3>1, <3>2, <2>6, <2>9 DEF RollsBack
    <3>3. CASE c # UI
      BY <3>1, <3>3, <2>3, <2>9, <2>10 DEF RollsBack
    <3> QED BY <3>2, <3>3
  <2> QED BY <2>8, <2>10, <2>11, <2>12 DEF Tables
<1>2. CASE id \notin Ids(ts) \cap Ids(ds)
  <2>1. derived' = WithStatus(ds, id, "Idle") /\ call' = [calls EXCEPT ![c] = Over(c, @)]
    BY <1>2 DEF CollectTableInfo
  <2> DEFINE r == Over(c, calls[c])
  <2>2. r \in CallStates /\ CallOk(r, c) /\ r.at \in {"idle", "loop"}
    BY <1>0, OverFacts
  <2>3. call' = [calls EXCEPT ![c] = r]
    BY <2>1
  <2> HIDE DEF r
  <2>4. CallsOk(call')
    BY <2>2, <2>3, OneCall
  <2>5. \A k \in Callers : call'[k] = IF k = c THEN r ELSE calls[k]
    BY <2>3, <1>0
  <2>6. /\ derived' \in Seq(DerivedEntities) /\ UniqueIds(derived') /\ Ids(derived') = Ids(ds)
        /\ DOMAIN derived' = DOMAIN ds
        /\ \A i \in DOMAIN ds :
             /\ derived'[i].id = ds[i].id
             /\ ds[i].id = id => derived'[i].status = "Idle"
             /\ ds[i].id # id => derived'[i] = ds[i]
    BY <2>1, StatusFacts DEF Tables, Statuses
  <2>7. Attended(call', derived')
    <3> SUFFICES ASSUME NEW i \in DOMAIN derived', derived'[i].status # "Idle"
                 PROVE  \E k \in Callers : Resets(call'[k], derived'[i].id)
      BY DEF Attended
    <3>1. ds[i].id # id /\ derived'[i] = ds[i]
      BY <2>6
    <3>2. PICK k \in Callers : Resets(calls[k], ds[i].id)
      BY <3>1, <2>6
    <3>3. k # c
      BY <3>2 DEF Resets
    <3> QED BY <3>1, <3>2, <3>3, <2>5
  <2>8. RollsBack(call', ts, derived')
    <3>1. UI \in Callers
      BY DEF Callers
    <3> QED BY <3>1, <2>2, <2>5, <2>6 DEF RollsBack
  <2> QED BY <2>4, <2>6, <2>7, <2>8 DEF Tables
<1> QED BY <1>1, <1>2

-----------------------------------------------------------------------------
(* Steps that change one call, one status or one entity                    *)

Good(ts, ds, calls) ==
  Tables(ts, ds) /\ CallsOk(calls) /\ Attended(calls, ds) /\ RollsBack(calls, ts, ds)

LEMMA InvGood == IInv => Good(tables, derived, call)
BY DEF IInv, TypeOK, Good, Tables

\* The state of one call, r, takes the place of what it was.
Replaces(r, c) == r \in CallStates /\ CallOk(r, c)
GoesOn(r, c) ==
  r.at = "import" =>
    call[c].at = "import" /\ r.id = call[c].id /\ r.original = call[c].original

LEMMA StatusStep ==
  ASSUME IInv, NEW c \in Callers, NEW r, Replaces(r, c), GoesOn(r, c), NEW id, NEW st \in Statuses,
         call' = [call EXCEPT ![c] = r],
         derived' = WithStatus(derived, id, st), tables' = tables,
         misfired => misfired',
         \A o : o # id /\ Resets(call[c], o) => Resets(r, o),
         st = "Idle" \/ Resets(r, id)
  PROVE  Good(tables', derived', call') /\ (Paired => Paired')
<1>1. Good(tables, derived, call)
  BY InvGood
<1>2. CallsOk(call')
  BY <1>1, OneCall DEF Good, Replaces
<1>3. \A k \in Callers : call'[k] = IF k = c THEN r ELSE call[k]
  BY <1>1 DEF Good, CallsOk
<1>4. /\ derived' \in Seq(DerivedEntities) /\ UniqueIds(derived') /\ Ids(derived') = Ids(derived)
  BY <1>1, StatusFacts DEF Good, Tables
<1>5. Attended(call', derived')
  <2>1. \A k \in Callers : \A o : o # id /\ Resets(call[k], o) => Resets(call'[k], o)
    BY <1>3
  <2>2. st = "Idle" \/ \E k \in Callers : Resets(call'[k], id)
    BY <1>3
  <2>3. derived \in Seq(DerivedEntities) /\ UniqueIds(derived) /\ Attended(call, derived)
    BY <1>1 DEF Good, Tables
  <2> QED BY <2>1, <2>2, <2>3, AttendedStatus
<1>6. RollsBack(call', tables', derived')
  <2>1. UI \in Callers
    BY DEF Callers
  <2> QED BY <1>1, <1>3, <1>4, <2>1 DEF Good, RollsBack, GoesOn
<1>7. Paired => Paired'
  BY <1>4 DEF Paired
<1> QED BY <1>1, <1>2, <1>4, <1>5, <1>6, <1>7 DEF Good, Tables

\* The entities stay, or a persistent one is renamed.
LEMMA OnlyCall ==
  ASSUME IInv, NEW c \in Callers, NEW r, Replaces(r, c), GoesOn(r, c),
         call' = [call EXCEPT ![c] = r], derived' = derived,
         tables' \in Seq(Entities), UniqueIds(tables'), Ids(tables') = Ids(tables),
         misfired' = misfired,
         \A o : Resets(call[c], o) => Resets(r, o)
  PROVE  Good(tables', derived', call') /\ (Paired => Paired')
<1>1. Good(tables, derived, call)
  BY InvGood
<1>2. CallsOk(call')
  BY <1>1, OneCall DEF Good, Replaces
<1>3. \A k \in Callers : call'[k] = IF k = c THEN r ELSE call[k]
  BY <1>1 DEF Good, CallsOk
<1>4. Attended(call', derived')
  BY <1>1, <1>3 DEF Good, Attended
<1>5. RollsBack(call', tables', derived')
  <2>1. UI \in Callers
    BY DEF Callers
  <2> QED BY <1>1, <1>3, <2>1 DEF Good, RollsBack, GoesOn
<1>6. Paired => Paired'
  BY DEF Paired
<1> QED BY <1>1, <1>2, <1>4, <1>5, <1>6 DEF Good, Tables

\* The calls stay and a persistent entity is renamed, or nothing of this changes.
LEMMA NameStep ==
  ASSUME IInv, call' = call, derived' = derived,
         tables' \in Seq(Entities), UniqueIds(tables'), Ids(tables') = Ids(tables),
         misfired' = misfired
  PROVE  Good(tables', derived', call') /\ (Paired => Paired')
<1>1. Good(tables, derived, call)
  BY InvGood
<1>2. RollsBack(call', tables', derived')
  BY <1>1 DEF Good, RollsBack
<1>3. Paired => Paired'
  BY DEF Paired
<1> QED BY <1>1, <1>2, <1>3 DEF Good, Tables

\* dropTable, by a poll that has passed the source or for the user interface.
LEMMA DropFacts ==
  ASSUME IInv, NEW n, NEW calls, CallsOk(calls), Attended(calls, derived),
         RollsBack(calls, tables, derived), DropTable(n, calls)
  PROVE  Good(tables', derived', call') /\ (Paired => Paired') /\ misfired' \in BOOLEAN
<1>0. Good(tables, derived, call) /\ misfired \in BOOLEAN
  BY InvGood DEF IInv, TypeOK
<1>1. CASE ~Taken(n)
  BY <1>0, <1>1 DEF DropTable, Good, Paired, entities
<1>2. CASE Taken(n)
  <2> DEFINE id == Named(n).id
             cl == Cleared(calls, id)
  <2>1. /\ call' = cl /\ tables' = Without(tables, id) /\ derived' = Without(derived, id)
        /\ misfired' = (misfired \/ id \notin Ids(derived))
    BY <1>2 DEF DropTable
  <2>2. id \in Ids(tables)
    BY <1>2, NamedFacts DEF Ids, IInv
  <2>3. CallsOk(cl) /\ \A k \in Callers :
             /\ cl[k].at = calls[k].at /\ cl[k].id = calls[k].id /\ cl[k].original = calls[k].original
             /\ calls[k].id # id => cl[k] = calls[k]
    BY ClearedFacts
  <2> HIDE DEF id, cl
  <2>4. tables' \in Seq(Entities) /\ UniqueIds(tables') /\ Ids(tables') = Ids(tables) \ {id}
    BY <1>0, <2>1, <2>2, WithoutFacts DEF Good, Tables
  <2>5. /\ derived' \in Seq(DerivedEntities) /\ UniqueIds(derived')
        /\ \A j \in DOMAIN derived' : \E i \in DOMAIN derived :
             derived'[j] = derived[i] /\ (id \in Ids(derived) => derived[i].id # id)
        /\ id \in Ids(derived) => Ids(derived') = Ids(derived) \ {id}
    BY <1>0, <2>1, WithoutFacts DEF Good, Tables
  <2>6. Attended(call', derived')
    <3>1. \A k \in Callers : \A o : o # id /\ Resets(calls[k], o) => Resets(call'[k], o)
      BY <2>1, <2>3 DEF Resets
    <3>2. derived \in Seq(DerivedEntities) /\ UniqueIds(derived)
      BY <1>0 DEF Good, Tables
    <3> QED BY <3>1, <3>2, <2>1, AttendedWithout
  <2>7. RollsBack(call', tables', derived')
    <3>1. \A o \in Ids(derived') : o \in Ids(derived) /\ o # id
      BY <2>5 DEF Ids
    <3>2. UI \in Callers
      BY DEF Callers
    <3>3. call'[UI].at = calls[UI].at /\ call'[UI].id = calls[UI].id
          /\ call'[UI].original = calls[UI].original
      BY <2>1, <2>3, <3>2
    <3> QED BY <2>4, <3>1, <3>3 DEF RollsBack
  <2>8. Paired => Paired'
    BY <2>1, <2>4, <2>5 DEF Paired
  <2> QED BY <1>0, <2>1, <2>3, <2>4, <2>5, <2>6, <2>7, <2>8 DEF Good, Tables
<1> QED BY <1>1, <1>2

-----------------------------------------------------------------------------
(* The steps of a poll                                                     *)

LEMMA CallFacts ==
  ASSUME IInv, NEW c \in Callers
  PROVE  /\ call \in [Callers -> CallStates] /\ call[c] \in CallStates /\ CallOk(call[c], c)
         /\ tables \in Seq(Entities) /\ UniqueIds(tables)
         /\ derived \in Seq(DerivedEntities) /\ UniqueIds(derived)
         /\ misfired \in BOOLEAN
BY DEF IInv, TypeOK, CallsOk

\* The source at the head of the list of a poll.
LEMMA HeadFacts ==
  ASSUME IInv, NEW p \in Polls, call[p].todo # <<>>
  PROVE  /\ At(p) \in Entities
         /\ \A n : [call[p] EXCEPT !.todo = Tail(@), !.cats = @ \ {n}] \in CallStates
<1>1. call[p] \in CallStates
  BY CallFacts DEF Callers
<1>2. call[p].todo \in Seq(Entities) /\ call[p].cats \in SUBSET Names
  BY <1>1 DEF CallStates
<1>3. Head(call[p].todo) \in Entities /\ Tail(call[p].todo) \in Seq(Entities)
  BY <1>2
<1> QED BY <1>1, <1>2, <1>3 DEF At, CallStates

LEMMA ListStep ==
  ASSUME IInv, NEW p \in Polls, ListCatalogObjects(p) \/ ReceiveCatalog(p) \/ EndPoll(p)
  PROVE  Good(tables', derived', call') /\ (Paired => Paired')
<1> p \in Callers
  BY DEF Callers
<1>0. call[p] \in CallStates /\ tables \in Seq(Entities) /\ UniqueIds(tables)
      /\ CallOk(call[p], p) /\ sources \subseteq Names
  BY CallFacts DEF IInv, TypeOK
<1>1. CASE ListCatalogObjects(p)
  <2> DEFINE r == [call[p] EXCEPT !.at = "answered", !.cats = sources]
  <2>1. call' = [call EXCEPT ![p] = r] /\ UNCHANGED <<tables, derived, misfired>> /\ call[p].at = "idle"
    BY <1>1 DEF ListCatalogObjects, entities
  <2>2. r \in CallStates /\ r.at = "answered" /\ r.job = call[p].job
    BY <1>0 DEF CallStates
  <2> HIDE DEF r
  <2>3. Replaces(r, p) /\ GoesOn(r, p)
    BY <1>0, <2>1, <2>2 DEF Replaces, GoesOn, CallOk, Waiting
  <2>4. \A o : Resets(call[p], o) => Resets(r, o)
    BY <2>1 DEF Resets, Working
  <2> QED BY <1>0, <2>1, <2>3, <2>4, OnlyCall
<1>2. CASE ReceiveCatalog(p)
  <2> DEFINE r == [call[p] EXCEPT !.at = "loop", !.todo = tables]
  <2>1. call' = [call EXCEPT ![p] = r] /\ UNCHANGED <<tables, derived, misfired>> /\ call[p].at = "answered"
    BY <1>2 DEF ReceiveCatalog, entities
  <2>2. r \in CallStates /\ r.at = "loop" /\ r.job = call[p].job
    BY <1>0 DEF CallStates
  <2> HIDE DEF r
  <2>3. Replaces(r, p) /\ GoesOn(r, p)
    BY <1>0, <2>1, <2>2 DEF Replaces, GoesOn, CallOk, Waiting
  <2>4. \A o : Resets(call[p], o) => Resets(r, o)
    BY <2>1 DEF Resets, Working
  <2> QED BY <1>0, <2>1, <2>3, <2>4, OnlyCall
<1>3. CASE EndPoll(p)
  <2>1. call' = [call EXCEPT ![p] = NoCall] /\ UNCHANGED <<tables, derived, misfired>> /\ call[p].at = "loop"
    BY <1>3 DEF EndPoll, Looping, entities
  <2>2. Replaces(NoCall, p) /\ GoesOn(NoCall, p)
    BY NoCallOk DEF Replaces, GoesOn, NoCall
  <2>3. \A o : Resets(call[p], o) => Resets(NoCall, o)
    BY <2>1 DEF Resets, Working
  <2> QED BY <1>0, <2>1, <2>2, <2>3, OnlyCall
<1> QED BY <1>1, <1>2, <1>3

\* The poll has passed a source: its state, and those of all calls.
LEMMA PassedFacts ==
  ASSUME IInv, NEW p \in Polls, AtEntity(p), NEW n
  PROVE  /\ Passed(p, n) = [call EXCEPT ![p] = [call[p] EXCEPT !.todo = Tail(@), !.cats = @ \ {n}]]
         /\ Replaces([call[p] EXCEPT !.todo = Tail(@), !.cats = @ \ {n}], p)
         /\ [call[p] EXCEPT !.todo = Tail(@), !.cats = @ \ {n}].at = "loop"
         /\ CallsOk(Passed(p, n)) /\ Attended(Passed(p, n), derived)
         /\ RollsBack(Passed(p, n), tables, derived)
<1> DEFINE r == [call[p] EXCEPT !.todo = Tail(@), !.cats = @ \ {n}]
<1> p \in Callers
  BY DEF Callers
<1>0. call \in [Callers -> CallStates] /\ call[p] \in CallStates /\ CallOk(call[p], p)
      /\ call[p].at = "loop" /\ call[p].todo # <<>>
  BY CallFacts DEF AtEntity, Looping
<1>1. r \in CallStates
  BY <1>0, HeadFacts
<1>2. r.at = "loop" /\ r.job = call[p].job
  BY <1>0 DEF CallStates
<1>3. Passed(p, n) = [call EXCEPT ![p] = r]
  BY DEF Passed
<1> HIDE DEF r
<1>4. CallOk(r, p)
  BY <1>0, <1>2 DEF CallOk, Waiting
<1>5. CallsOk(Passed(p, n))
  BY <1>1, <1>3, <1>4, OneCall DEF IInv
<1>6. \A k \in Callers : Passed(p, n)[k] = IF k = p THEN r ELSE call[k]
  BY <1>0, <1>3
<1>7. Attended(Passed(p, n), derived)
  <2>1. \A o : ~Resets(call[p], o)
    BY <1>0 DEF Resets, Working
  <2> QED BY <1>6, <2>1 DEF IInv, Attended
<1>8. RollsBack(Passed(p, n), tables, derived)
  <2>1. UI \in Callers
    BY DEF Callers
  <2> QED BY <1>2, <1>6, <2>1 DEF IInv, RollsBack
<1> QED BY <1>1, <1>2, <1>3, <1>4, <1>5, <1>7, <1>8 DEF Replaces, r

LEMMA EntityStep ==
  ASSUME IInv, NEW p \in Polls, ConfirmRename(p) \/ DropAbsent(p) \/ SyncTable(p)
  PROVE  Good(tables', derived', call') /\ (Paired => Paired') /\ misfired' \in BOOLEAN
<1> p \in Callers
  BY DEF Callers
<1>0. /\ call \in [Callers -> CallStates] /\ call[p] \in CallStates /\ CallOk(call[p], p)
      /\ tables \in Seq(Entities) /\ UniqueIds(tables) /\ misfired \in BOOLEAN
      /\ call[p].at = "loop" /\ call[p].todo # <<>> /\ AtEntity(p)
  BY CallFacts DEF ConfirmRename, DropAbsent, SyncTable, AtEntity, Looping
<1>00. \A o : ~Resets(call[p], o)
  BY <1>0 DEF Resets, Working
<1>1. CASE ConfirmRename(p)
  <2>1. At(p).to \in Names
    BY <1>1, <1>0 DEF ConfirmRename, RenameDone, CallStates
  <2>2. tables' \in Seq(Entities) /\ UniqueIds(tables') /\ Ids(tables') = Ids(tables)
    BY <1>1, <2>1, RenamedFacts DEF ConfirmRename, IInv
  <2>3. UNCHANGED <<derived, misfired>>
    BY <1>1 DEF ConfirmRename
  <2>4. CASE At(p).id \in Ids(tables)
    <3> DEFINE r == [call[p] EXCEPT !.todo = Tail(@), !.cats = @ \ {At(p).to}]
    <3>1. call' = [call EXCEPT ![p] = r] /\ Replaces(r, p) /\ r.at = "loop"
      BY <1>0, <1>1, <2>4, PassedFacts DEF ConfirmRename
    <3> HIDE DEF r
    <3>2. GoesOn(r, p)
      BY <3>1 DEF GoesOn
    <3> QED BY <1>0, <1>00, <2>2, <2>3, <3>1, <3>2, OnlyCall
  <2>5. CASE At(p).id \notin Ids(tables)
    <3>1. call' = [call EXCEPT ![p] = NoCall]
      BY <1>1, <2>5 DEF ConfirmRename
    <3>2. Replaces(NoCall, p) /\ GoesOn(NoCall, p)
      BY NoCallOk DEF Replaces, GoesOn, NoCall
    <3> QED BY <1>0, <1>00, <2>2, <2>3, <3>1, <3>2, OnlyCall
  <2> QED BY <2>4, <2>5
<1>2. CASE DropAbsent(p)
  <2>1. DropTable(At(p).name, Passed(p, At(p).name))
    BY <1>2 DEF DropAbsent
  <2>2. /\ CallsOk(Passed(p, At(p).name)) /\ Attended(Passed(p, At(p).name), derived)
        /\ RollsBack(Passed(p, At(p).name), tables, derived)
    BY <1>0, PassedFacts
  <2> QED BY <2>1, <2>2, DropFacts
<1>3. CASE SyncTable(p)
  <2> DEFINE id == At(p).id
             n == At(p).name
             q == [call[p] EXCEPT !.todo = Tail(@), !.cats = @ \ {n}]
             r == [q EXCEPT !.at = "syncRows", !.job = "waits", !.id = id, !.name = ById(tables, id).name]
  <2>1. UNCHANGED <<tables, derived, misfired>>
    BY <1>3 DEF SyncTable, entities
  <2>2. Passed(p, n) = [call EXCEPT ![p] = q] /\ Replaces(q, p) /\ q.at = "loop"
    BY <1>0, PassedFacts
  <2>3. CASE Skipped(id)
    <3>1. call' = [call EXCEPT ![p] = q]
      BY <1>3, <2>2, <2>3 DEF SyncTable
    <3> HIDE DEF q
    <3>2. GoesOn(q, p)
      BY <2>2 DEF GoesOn
    <3> QED BY <1>0, <1>00, <2>1, <2>2, <3>1, <3>2, OnlyCall
  <2>4. CASE ~Skipped(id)
    <3>1. call' = [Passed(p, n) EXCEPT ![p] = [@ EXCEPT !.at = "syncRows", !.job = "waits", !.id = id,
                                                 !.name = ById(tables, id).name]]
      BY <1>3, <2>4 DEF SyncTable
    <3>2. id \in Nat /\ ById(tables, id).name \in Names
      <4>1. id \in Ids(tables)
        BY <2>4 DEF Skipped
      <4>2. PICK i \in DOMAIN tables : ById(tables, id) = tables[i] /\ tables[i].id = id
        BY <4>1, ByIdFacts
      <4>3. tables[i] \in Entities
        BY <1>0
      <4> QED BY <4>2, <4>3 DEF Entities
    <3> HIDE DEF id, n, q
    <3>3. call' = [call EXCEPT ![p] = r]
      BY <1>0, <2>2, <3>1
    <3>4. r \in CallStates /\ r.at = "syncRows" /\ r.job = "waits" /\ r.name = ById(tables, id).name
      BY <2>2, <3>2 DEF Replaces, CallStates, Waiting
    <3> HIDE DEF r
    <3>5. Replaces(r, p) /\ GoesOn(r, p)
      BY <3>2, <3>4 DEF Replaces, GoesOn, CallOk, Waiting
    <3> QED BY <1>0, <1>00, <2>1, <3>3, <3>5, OnlyCall
  <2> QED BY <2>3, <2>4
<1> QED BY <1>1, <1>2, <1>3

\* A new source gets an entity of each kind with the same new id.
LEMMA NewEntity ==
  ASSUME IInv, NEW n \in Names
  PROVE  LET e == Entity(NewId, n)
             d == Derived(NewId, "Importing")
         IN  /\ Tables(Append(tables, e), Append(derived, d))
             /\ Ids(Append(tables, e)) = Ids(tables) \cup {NewId}
             /\ Ids(Append(derived, d)) = Ids(derived) \cup {NewId}
             /\ \A i \in DOMAIN Append(derived, d) :
                  Append(derived, d)[i].id # NewId => i \in DOMAIN derived /\ Append(derived, d)[i] = derived[i]
<1> DEFINE id == NewId
           e == Entity(id, n)
           d == Derived(id, "Importing")
<1>1. id \in Nat /\ id \notin Ids(tables) /\ id \notin Ids(derived)
  BY NewIdFacts DEF IInv
<1> HIDE DEF id
<1>2. e \in Entities /\ e.id = id
  BY <1>1 DEF Entity, Entities
<1>3. d \in DerivedEntities /\ d.id = id
  BY <1>1 DEF Derived, DerivedEntities, Statuses, Profiles
<1> HIDE DEF e, d
<1>4. tables \in Seq(Entities) /\ UniqueIds(tables) /\ derived \in Seq(DerivedEntities) /\ UniqueIds(derived)
  BY DEF IInv, TypeOK
<1>5. Append(tables, e) \in Seq(Entities) /\ UniqueIds(Append(tables, e))
      /\ Ids(Append(tables, e)) = Ids(tables) \cup {id}
  BY <1>1, <1>2, <1>4, AppendFacts
<1>6. Append(derived, d) \in Seq(DerivedEntities) /\ UniqueIds(Append(derived, d))
      /\ Ids(Append(derived, d)) = Ids(derived) \cup {id}
  BY <1>1, <1>3, <1>4, AppendFacts
<1>7. \A i \in DOMAIN Append(derived, d) :
        Append(derived, d)[i].id # id => i \in DOMAIN derived /\ Append(derived, d)[i] = derived[i]
  BY <1>3, <1>4
<1> QED BY <1>5, <1>6, <1>7 DEF Tables, e, d, id

LEMMA AddStep ==
  ASSUME IInv, NEW p \in Polls, NEW n \in Names, AddOrSync(p, n)
  PROVE  Good(tables', derived', call') /\ (Paired => Paired')
<1> DEFINE isNew == ~Taken(n)
           id == IF isNew THEN NewId ELSE Named(n).id
           ts == IF isNew THEN Append(tables, Entity(id, n)) ELSE tables
           ds == IF isNew THEN Append(derived, Derived(id, "Importing")) ELSE derived
           r == [call[p] EXCEPT !.cats = @ \ {n}, !.adding = TRUE]
           calls == [call EXCEPT ![p] = r]
<1> p \in Callers
  BY DEF Callers
<1>0. /\ call \in [Callers -> CallStates] /\ call[p] \in CallStates /\ CallOk(call[p], p)
      /\ call[p].at = "loop" /\ Good(tables, derived, call)
  BY CallFacts, InvGood DEF AddOrSync, Looping
<1>1. tables' = ts /\ CollectTableInfo(p, id, ts, ds, calls) /\ misfired' = misfired
  BY DEF AddOrSync
<1>2. r \in CallStates /\ r.at = "loop" /\ r.job = call[p].job
  BY <1>0 DEF CallStates
<1> HIDE DEF r
<1>3. CallOk(r, p)
  BY <1>0, <1>2 DEF CallOk, Waiting
<1>4. CallsOk(calls) /\ \A k \in Callers : calls[k] = IF k = p THEN r ELSE call[k]
  BY <1>0, <1>2, <1>3, OneCall DEF Good
<1>5. /\ Tables(ts, ds) /\ (Ids(tables) = Ids(derived) => Ids(ts) = Ids(ds))
      /\ Ids(tables) \subseteq Ids(ts)
      /\ \A o \in Ids(ds) : o \in Ids(derived) \/ o \in Ids(ts)
      /\ \A i \in DOMAIN ds : ds[i].id # id => i \in DOMAIN derived /\ ds[i] = derived[i]
  <2>1. CASE isNew
    BY <2>1, NewEntity
  <2>2. CASE ~isNew
    BY <1>0, <2>2 DEF Good
  <2> QED BY <2>1, <2>2
<1> HIDE DEF ts, ds, id, calls
<1>6. \A i \in DOMAIN ds : ds[i].id # id /\ ds[i].status # "Idle" =>
        \E k \in Callers : Resets(calls[k], ds[i].id)
  <2>1. \A o : ~Resets(call[p], o)
    BY <1>0 DEF Resets, Working
  <2> QED BY <1>0, <1>4, <1>5, <2>1 DEF Good, Attended
<1>7. RollsBack(calls, ts, ds)
  <2>1. UI \in Callers
    BY DEF Callers
  <2> QED BY <1>0, <1>2, <1>4, <1>5, <2>1 DEF Good, RollsBack
<1>8. calls[p].at \notin Working
  BY <1>2, <1>4 DEF Working
<1>9. /\ Tables(ts, derived') /\ CallsOk(call') /\ Attended(call', derived')
      /\ RollsBack(call', ts, derived') /\ Ids(derived') = Ids(ds)
  BY <1>1, <1>4, <1>5, <1>6, <1>7, <1>8, CollectFacts
<1>10. Paired => Paired'
  BY <1>1, <1>5, <1>9 DEF Paired
<1> QED BY <1>1, <1>9, <1>10 DEF Good

-----------------------------------------------------------------------------
(* The answers of jobs                                                     *)

LEMMA EndsFacts ==
  ASSUME IInv, NEW c \in Callers
  PROVE  /\ Replaces(Over(c, call[c]), c) /\ GoesOn(Over(c, call[c]), c)
         /\ Ends(c) => call' = [call EXCEPT ![c] = Over(c, call[c])]
<1>1. Over(c, call[c]) \in CallStates /\ CallOk(Over(c, call[c]), c)
      /\ Over(c, call[c]).at \in {"idle", "loop"}
  BY CallFacts, OverFacts
<1> QED BY <1>1 DEF Replaces, GoesOn, Ends

\* A call that does not hold up the status of an entity ends.
LEMMA EndStep ==
  ASSUME IInv, NEW c \in Callers, \A o : ~Resets(call[c], o), Ends(c),
         UNCHANGED <<tables, derived, misfired>>
  PROVE  Good(tables', derived', call') /\ (Paired => Paired')
<1>1. Replaces(Over(c, call[c]), c) /\ GoesOn(Over(c, call[c]), c)
      /\ call' = [call EXCEPT ![c] = Over(c, call[c])]
  BY EndsFacts
<1> QED BY <1>1, CallFacts, OnlyCall

\* A call puts its next job into the queue.
LEMMA JobFacts ==
  ASSUME IInv, NEW c \in Callers, call[c].at \in Waiting, NEW at \in Waiting \ {"profileRows", "import"}
  PROVE  LET r == [call[c] EXCEPT !.at = at, !.job = "waits"] IN
         Replaces(r, c) /\ GoesOn(r, c) /\ r.id = call[c].id /\ r.at = at /\ r.job = "waits"
<1> DEFINE r == [call[c] EXCEPT !.at = at, !.job = "waits"]
<1>1. call[c] \in CallStates /\ CallOk(call[c], c)
  BY CallFacts
<1>2. r \in CallStates /\ r.at = at /\ r.job = "waits" /\ r.name = call[c].name /\ r.id = call[c].id
  BY <1>1 DEF CallStates
<1> HIDE DEF r
<1>3. CallOk(r, c)
  BY <1>1, <1>2 DEF CallOk
<1>4. GoesOn(r, c)
  BY <1>2 DEF GoesOn
<1> QED BY <1>2, <1>3, <1>4 DEF Replaces, r

LEMMA RunStep ==
  ASSUME IInv, NEW c \in Callers, RunJob(c)
  PROVE  Good(tables', derived', call') /\ (Paired => Paired')
<1> DEFINE r == [call[c] EXCEPT !.job = "runs"]
<1>1. call' = [call EXCEPT ![c] = r] /\ UNCHANGED <<tables, derived, misfired>> /\ call[c].job = "waits"
  BY DEF RunJob, entities
<1>2. call[c] \in CallStates /\ CallOk(call[c], c)
  BY CallFacts
<1>3. /\ r \in CallStates /\ r.at = call[c].at /\ r.job = "runs" /\ r.id = call[c].id
      /\ r.name = call[c].name /\ r.cols = call[c].cols /\ r.content = call[c].content
      /\ r.original = call[c].original
  BY <1>2 DEF CallStates
<1> HIDE DEF r
<1>4. Replaces(r, c) /\ GoesOn(r, c)
  BY <1>1, <1>2, <1>3 DEF Replaces, GoesOn, CallOk
<1>5. \A o : Resets(call[c], o) => Resets(r, o)
  BY <1>3 DEF Resets
<1> QED BY <1>1, <1>4, <1>5, CallFacts, OnlyCall

LEMMA SyncStep ==
  ASSUME IInv, NEW c \in Callers, SyncRows(c) \/ SyncCols(c)
  PROVE  Good(tables', derived', call') /\ (Paired => Paired')
<1>0. call[c].at \in {"syncRows", "syncCols"} /\ UNCHANGED <<tables, misfired>>
  BY DEF SyncRows, SyncCols, Settled, entities
<1>1. \A o : ~Resets(call[c], o)
  BY <1>0 DEF Resets, Working
<1>2. CASE SyncRows(c)
  <2>1. UNCHANGED derived
    BY <1>2 DEF SyncRows, entities
  <2>2. CASE Ends(c)
    BY <1>0, <1>1, <2>1, <2>2, EndStep
  <2>3. CASE NextJob(c, "syncCols")
    <3> DEFINE r == [call[c] EXCEPT !.at = "syncCols", !.job = "waits"]
    <3>1. call' = [call EXCEPT ![c] = r]
      BY <2>3, CallFacts DEF NextJob
    <3>2. Replaces(r, c) /\ GoesOn(r, c)
      BY <1>0, JobFacts DEF Waiting
    <3> HIDE DEF r
    <3> QED BY <1>0, <1>1, <2>1, <3>1, <3>2, CallFacts, OnlyCall
  <2> QED BY <1>2, <2>2, <2>3 DEF SyncRows
<1>3. CASE SyncCols(c)
  <2>1. CASE Ends(c) /\ UNCHANGED derived
    BY <1>0, <1>1, <2>1, EndStep
  <2>2. CASE CollectTableInfo(c, call[c].id, tables, derived, call)
    <3>1. Good(tables, derived, call) /\ call[c].at \notin Working
      BY <1>0, InvGood DEF Working
    <3>2. /\ Tables(tables, derived') /\ CallsOk(call') /\ Attended(call', derived')
          /\ RollsBack(call', tables, derived') /\ Ids(derived') = Ids(derived)
      BY <2>2, <3>1, CollectFacts DEF Good, Attended
    <3> QED BY <1>0, <3>2 DEF Good, Paired
  <2> QED BY <1>3, <2>1, <2>2 DEF SyncCols
<1> QED BY <1>2, <1>3

\* The ResetStateToIdle decorator.
LEMMA EndProfileStep ==
  ASSUME IInv, NEW c \in Callers, EndProfile(c), call[c].at # "import", UNCHANGED <<tables, misfired>>
  PROVE  Good(tables', derived', call') /\ (Paired => Paired')
<1> DEFINE w == [call[c] EXCEPT !.at = "wait", !.job = "none"]
           r == IF call[c].id \in Ids(derived) THEN w ELSE Over(c, call[c])
<1>1. derived' = WithStatus(derived, call[c].id, "Idle") /\ call' = [call EXCEPT ![c] = r]
  BY CallFacts DEF EndProfile, StatusAfter
<1>2. w \in CallStates /\ w.at = "wait" /\ w.job = "none"
  BY CallFacts DEF CallStates
<1>3. Replaces(r, c) /\ GoesOn(r, c)
  <2> HIDE DEF w
  <2>1. Replaces(w, c) /\ GoesOn(w, c)
    BY <1>2 DEF Replaces, GoesOn, CallOk, Waiting
  <2> QED BY <2>1, EndsFacts
<1> HIDE DEF r
<1>4. \A o : o # call[c].id /\ Resets(call[c], o) => Resets(r, o)
  BY DEF Resets
<1> QED BY <1>1, <1>3, <1>4, StatusStep DEF Statuses

LEMMA ProfileStep ==
  ASSUME IInv, NEW c \in Callers, ProfileCols(c) \/ Summaries(c) \/ Updated(c)
  PROVE  Good(tables', derived', call') /\ (Paired => Paired')
<1>0. call[c].at \in {"profileCols", "summaries", "wait"} /\ UNCHANGED <<tables, misfired>>
  BY DEF ProfileCols, Summaries, Updated, Settled
<1>1. CASE EndProfile(c)
  BY <1>0, <1>1, EndProfileStep
<1>2. CASE ProfileCols(c) /\ Result(c) = "ok"
  <2> DEFINE r == [call[c] EXCEPT !.at = "profileRows", !.job = "waits", !.cols = Got(c).cols]
  <2>1. call' = [call EXCEPT ![c] = r] /\ UNCHANGED derived /\ call[c].at = "profileCols"
    BY <1>2, CallFacts DEF ProfileCols, Settled
  <2>2. call[c].name \in Names /\ data[call[c].name] \in Contents
    <3>1. call[c].name \in Names
      BY <2>1, CallFacts DEF CallOk, Waiting
    <3>2. data[call[c].name] # None
      BY <1>2 DEF Result
    <3> QED BY <3>1, <3>2 DEF IInv, TypeOK
  <2>3. Got(c).cols \in Columns
    BY <2>2 DEF Got, ProfileOf, Columns
  <2>4. call[c] \in CallStates
    BY CallFacts
  <2>5. /\ r \in CallStates /\ r.at = "profileRows" /\ r.job = "waits" /\ r.cols = Got(c).cols
        /\ r.id = call[c].id /\ r.name = call[c].name
    BY <2>3, <2>4 DEF CallStates, Waiting, Columns
  <2> HIDE DEF r
  <2>6. Replaces(r, c) /\ GoesOn(r, c)
    BY <2>2, <2>3, <2>5 DEF Replaces, GoesOn, CallOk, Waiting
  <2>7. \A o : Resets(call[c], o) => Resets(r, o)
    BY <2>5 DEF Resets, Working
  <2> QED BY <1>0, <2>1, <2>6, <2>7, CallFacts, OnlyCall
<1>3. CASE Updated(c)
  <2>1. Ends(c) /\ call[c].at = "wait"
    BY <1>3 DEF Updated
  <2>2. \A o : ~Resets(call[c], o)
    BY <2>1 DEF Resets, Working
  <2>3. CASE derived' = WithStatus(derived, call[c].id, "Idle")
    BY <1>0, <2>1, <2>2, <2>3, EndsFacts, StatusStep DEF Statuses
  <2>4. CASE derived' = derived
    BY <1>0, <2>1, <2>2, <2>4, EndStep
  <2> QED BY <1>3, <2>3, <2>4 DEF Updated
<1> QED BY <1>1, <1>2, <1>3 DEF ProfileCols, Summaries

\* updateEntity stores the row count and the columns.
LEMMA ProfileRowsStep ==
  ASSUME IInv, NEW c \in Callers, ProfileRows(c)
  PROVE  Good(tables', derived', call') /\ (Paired => Paired')
<1>0. call[c].at = "profileRows" /\ UNCHANGED <<tables, misfired>>
  BY DEF ProfileRows, Settled
<1>1. CASE EndProfile(c)
  BY <1>0, <1>1, EndProfileStep
<1>2. CASE Result(c) = "ok" /\ Known(c)
  <2> DEFINE r == [call[c] EXCEPT !.at = "summaries", !.job = "waits"]
             pr == [rows |-> Got(c).rows, cols |-> call[c].cols]
             d == [id |-> call[c].id, status |-> "Profiling", profile |-> pr]
  <2>1. derived' = [i \in DOMAIN derived |-> IF derived[i].id # call[c].id THEN derived[i] ELSE d]
    BY <1>2 DEF ProfileRows
  <2>2. call' = [call EXCEPT ![c] = r]
    BY <1>2, CallFacts DEF ProfileRows, NextJob
  <2>3. call[c] \in CallStates /\ CallOk(call[c], c) /\ call \in [Callers -> CallStates]
        /\ derived \in Seq(DerivedEntities) /\ UniqueIds(derived)
    BY CallFacts
  <2>4. pr \in Profiles
    <3>1. call[c].cols \in Columns /\ call[c].name \in Names
      BY <1>0, <2>3 DEF CallOk, Waiting
    <3>2. data[call[c].name] \in Contents
      BY <1>2, <3>1 DEF Result, IInv, TypeOK
    <3>3. Got(c).rows \in {k[1] : k \in Contents}
      BY <3>2 DEF Got, ProfileOf
    <3> QED BY <3>1, <3>3 DEF Profiles, Columns
  <2> HIDE DEF pr
  <2>5. d \in DerivedEntities /\ d.id = call[c].id
    BY <2>3, <2>4 DEF DerivedEntities, Statuses, CallStates
  <2>6. Replaces(r, c) /\ r.id = call[c].id /\ r.at = "summaries"
    BY <1>0, JobFacts DEF Waiting
  <2> HIDE DEF r, d
  <2>7. \A i \in DOMAIN derived : derived'[i] = IF derived[i].id # call[c].id THEN derived[i] ELSE d
    BY <2>1
  <2>8. DOMAIN derived' = 1..Len(derived) /\ Len(derived) \in Nat /\ DOMAIN derived = 1..Len(derived)
    BY <2>1, <2>3
  <2>9. \A i \in 1..Len(derived) : derived'[i] \in DerivedEntities /\ derived'[i].id = derived[i].id
    BY <2>3, <2>5, <2>7, <2>8
  <2>10. derived' \in Seq(DerivedEntities)
    <3>1. derived' = [i \in 1..Len(derived) |-> derived'[i]]
      BY <2>1, <2>8
    <3> QED BY <2>8, <2>9, <3>1
  <2>11. UniqueIds(derived') /\ Ids(derived') = Ids(derived)
    <3>1. \A i, j \in DOMAIN derived : derived[i].id = derived[j].id => i = j
      BY <2>3, UniqueFacts
    <3>2. UniqueIds(derived')
      BY <2>8, <2>9, <2>10, <3>1, UniqueFacts
    <3>3. Ids(derived') = Ids(derived)
      BY <2>8, <2>9 DEF Ids
    <3> QED BY <3>2, <3>3
  <2>12. CallsOk(call') /\ \A k \in Callers : call'[k] = IF k = c THEN r ELSE call[k]
    BY <2>2, <2>3, <2>6, OneCall DEF Replaces, IInv
  <2>13. Attended(call', derived')
    <3>1. ASSUME NEW i \in DOMAIN derived', derived'[i].status # "Idle"
          PROVE  \E k \in Callers : Resets(call'[k], derived'[i].id)
      <4>1. CASE derived[i].id = call[c].id
        BY <4>1, <2>6, <2>8, <2>9, <2>12 DEF Resets, Working
      <4>2. CASE derived[i].id # call[c].id
        <5>1. derived'[i] = derived[i] /\ i \in DOMAIN derived
          BY <4>2, <2>7, <2>8
        <5>2. PICK k \in Callers : Resets(call[k], derived[i].id)
          BY <3>1, <5>1 DEF IInv, Attended
        <5>3. k # c
          BY <4>2, <5>2 DEF Resets
        <5> QED BY <5>1, <5>2, <5>3, <2>12
      <4> QED BY <4>1, <4>2
    <3> QED BY <3>1 DEF Attended
  <2>14. RollsBack(call', tables', derived')
    <3>1. UI \in Callers
      BY DEF Callers
    <3> QED BY <1>0, <2>6, <2>11, <2>12, <3>1 DEF IInv, RollsBack
  <2> QED BY <1>0, <2>3, <2>10, <2>11, <2>12, <2>13, <2>14, InvGood DEF Good, Tables, Paired
<1> QED BY <1>1, <1>2 DEF ProfileRows

-----------------------------------------------------------------------------
(* The user interface                                                      *)

LEMMA ImportStep ==
  ASSUME IInv, Imported \/ RollBack
  PROVE  Good(tables', derived', call') /\ (Paired => Paired')
<1> UI \in Callers
  BY DEF Callers
<1>0. call[UI].at = "import" /\ Ends(UI) /\ misfired' = misfired
      /\ call[UI] \in CallStates /\ CallOk(call[UI], UI)
      /\ tables \in Seq(Entities) /\ UniqueIds(tables)
  BY CallFacts DEF Imported, RollBack, Settled
<1>1. CASE Imported
  <2>1. UNCHANGED tables
    BY <1>1 DEF Imported
  <2>2. CASE call[UI].job = "cancelled"
    <3>1. \A o : ~Resets(call[UI], o)
      BY <1>0, <2>2 DEF Resets
    <3>2. UNCHANGED derived
      BY <1>1, <2>2 DEF Imported
    <3> QED BY <1>0, <2>1, <3>1, <3>2, EndStep
  <2>3. CASE call[UI].job # "cancelled"
    <3>1. derived' = WithStatus(derived, call[UI].id, "Idle")
      BY <1>1, <2>3 DEF Imported
    <3>2. \A o : o # call[UI].id => ~Resets(call[UI], o)
      BY DEF Resets
    <3> QED BY <1>0, <2>1, <3>1, <3>2, EndsFacts, StatusStep DEF Statuses
  <2> QED BY <2>2, <2>3
<1>2. CASE RollBack
  <2> DEFINE old == call[UI].original
             r == Over(UI, call[UI])
  <2>1. old # None /\ tables' = Renamed(old.id, old.name, old.to)
        /\ derived' = IF old.id \in Ids(tables) THEN WithStatus(derived, old.id, "Idle") ELSE derived
    BY <1>2 DEF RollBack
  <2>2. old \in Entities /\ old.id = call[UI].id
    BY <1>0, <2>1 DEF CallStates, CallOk
  <2>3. tables' \in Seq(Entities) /\ UniqueIds(tables') /\ Ids(tables') = Ids(tables)
    BY <2>1, <2>2, RenamedFacts DEF Entities, IInv
  <2>4. call' = [call EXCEPT ![UI] = r] /\ Replaces(r, UI) /\ r.at \in {"idle", "loop"}
    BY <1>0, EndsFacts, OverFacts
  <2> HIDE DEF r
  <2>5. CallsOk(call') /\ \A k \in Callers : call'[k] = IF k = UI THEN r ELSE call[k]
    BY <2>4, CallFacts, OneCall DEF Replaces, IInv
  <2>6. derived \in Seq(DerivedEntities) /\ UniqueIds(derived) /\ Attended(call, derived)
    BY CallFacts DEF IInv
  <2>7. \A k \in Callers : \A o : o # old.id /\ Resets(call[k], o) => Resets(call'[k], o)
    BY <2>2, <2>5 DEF Resets
  <2>8. /\ derived' \in Seq(DerivedEntities) /\ UniqueIds(derived') /\ Ids(derived') = Ids(derived)
        /\ Attended(call', derived')
    <3>1. CASE old.id \in Ids(tables)
      <4>1. derived' = WithStatus(derived, old.id, "Idle")
        BY <2>1, <3>1
      <4>2. "Idle" \in Statuses
        BY DEF Statuses
      <4>3. derived' \in Seq(DerivedEntities) /\ UniqueIds(derived') /\ Ids(derived') = Ids(derived)
        BY <4>1, <4>2, <2>6, StatusFacts
      <4>4. Attended(call', WithStatus(derived, old.id, "Idle"))
        BY <4>2, <2>6, <2>7, AttendedStatus
      <4> QED BY <4>1, <4>3, <4>4
    <3>2. CASE old.id \notin Ids(tables)
      <4>1. derived' = derived /\ old.id \notin Ids(derived)
        BY <1>0, <2>1, <2>2, <3>2 DEF IInv, RollsBack
      <4>2. \A i \in DOMAIN derived : derived[i].id # old.id
        BY <4>1 DEF Ids
      <4> QED BY <4>1, <4>2, <2>6, <2>7 DEF Attended
    <3> QED BY <3>1, <3>2
  <2>9. RollsBack(call', tables', derived')
    BY <2>4, <2>5 DEF RollsBack
  <2>10. Paired => Paired'
    BY <1>0, <2>3, <2>8 DEF Paired
  <2> QED BY <2>3, <2>5, <2>8, <2>9, <2>10 DEF Good, Tables
<1> QED BY <1>1, <1>2

LEMMA RollBackNewStep ==
  ASSUME IInv, RollBackNew
  PROVE  Good(tables', derived', call') /\ (Paired => Paired') /\ misfired' \in BOOLEAN
<1> UI \in Callers
  BY DEF Callers
<1> DEFINE id == call[UI].id
           n == call[UI].name
           r == Over(UI, call[UI])
<1>1. /\ call[UI].at = "import" /\ derived' = Without(derived, id) /\ Ends(UI)
      /\ tables' = IF Taken(n) THEN Without(tables, Named(n).id) ELSE tables
      /\ misfired' = (misfired \/ id \notin Ids(derived) \/ ~Taken(n) \/ Named(n).id # id)
  BY DEF RollBackNew, Settled, Known
<1>2. /\ tables \in Seq(Entities) /\ UniqueIds(tables) /\ misfired \in BOOLEAN
      /\ derived \in Seq(DerivedEntities) /\ UniqueIds(derived) /\ Attended(call, derived)
  BY CallFacts DEF IInv
<1>3. call' = [call EXCEPT ![UI] = r] /\ Replaces(r, UI) /\ r.at \in {"idle", "loop"}
  BY <1>1, EndsFacts, OverFacts, CallFacts
<1> HIDE DEF r
<1>4. CallsOk(call') /\ \A k \in Callers : call'[k] = IF k = UI THEN r ELSE call[k]
  BY <1>3, CallFacts, OneCall DEF Replaces, IInv
<1>5. derived' \in Seq(DerivedEntities) /\ UniqueIds(derived')
      /\ (id \in Ids(derived) => Ids(derived') = Ids(derived) \ {id})
  BY <1>1, <1>2, WithoutFacts
<1>6. tables' \in Seq(Entities) /\ UniqueIds(tables')
      /\ (Taken(n) => Ids(tables') = Ids(tables) \ {Named(n).id})
  <2>1. CASE Taken(n)
    <3>1. Named(n).id \in Ids(tables)
      BY <2>1, NamedFacts DEF Ids, IInv
    <3> QED BY <1>1, <1>2, <2>1, <3>1, WithoutFacts
  <2>2. CASE ~Taken(n)
    BY <1>1, <1>2, <2>2
  <2> QED BY <2>1, <2>2
<1>7. Attended(call', derived')
  <2>1. \A k \in Callers : \A o : o # id /\ Resets(call[k], o) => Resets(call'[k], o)
    BY <1>4 DEF Resets
  <2> QED BY <1>1, <1>2, <2>1, AttendedWithout
<1>8. RollsBack(call', tables', derived')
  BY <1>3, <1>4 DEF RollsBack
<1>9. Paired => Paired'
  BY <1>1, <1>5, <1>6 DEF Paired
<1> QED BY <1>1, <1>2, <1>4, <1>5, <1>6, <1>7, <1>8, <1>9 DEF Good, Tables

LEMMA RequestStep ==
  ASSUME IInv,
         \/ \E n \in Names : DropTableRequest(n)
         \/ \E id \in Ids(tables) : \/ ResetTableName(id) \/ CollectRequest(id)
                                    \/ \E n \in Names : UpdateTableName(id, n)
  PROVE  Good(tables', derived', call') /\ (Paired => Paired') /\ misfired' \in BOOLEAN
<1> UI \in Callers
  BY DEF Callers
<1>0. Good(tables, derived, call) /\ misfired \in BOOLEAN
  BY InvGood DEF IInv, TypeOK
<1>1. ASSUME NEW n \in Names, DropTableRequest(n)
      PROVE  Good(tables', derived', call') /\ (Paired => Paired') /\ misfired' \in BOOLEAN
  BY <1>0, <1>1, DropFacts DEF DropTableRequest, Good
<1>2. ASSUME NEW id \in Ids(tables), NEW to \in Names \cup {None},
             tables' = Renamed(id, ById(tables, id).name, to), UNCHANGED <<derived, call, misfired>>
      PROVE  Good(tables', derived', call') /\ (Paired => Paired') /\ misfired' \in BOOLEAN
  <2>1. ById(tables, id).name \in Names
    <3>1. PICK i \in DOMAIN tables : ById(tables, id) = tables[i]
      BY ByIdFacts
    <3>2. tables[i] \in Entities
      BY <1>0 DEF Good, Tables
    <3> QED BY <3>1, <3>2 DEF Entities
  <2>2. tables' \in Seq(Entities) /\ UniqueIds(tables') /\ Ids(tables') = Ids(tables)
    BY <1>2, <2>1, RenamedFacts DEF IInv
  <2> QED BY <1>0, <1>2, <2>2, NameStep
<1>3. ASSUME NEW id \in Ids(tables), CollectRequest(id)
      PROVE  Good(tables', derived', call') /\ (Paired => Paired') /\ misfired' \in BOOLEAN
  <2>1. /\ call[UI].at = "idle" /\ CollectTableInfo(UI, id, tables, derived, call)
        /\ UNCHANGED <<tables, misfired>>
    BY <1>3 DEF CollectRequest
  <2>2. call[UI].at \notin Working
    BY <2>1 DEF Working
  <2>3. /\ Tables(tables, derived') /\ CallsOk(call') /\ Attended(call', derived')
        /\ RollsBack(call', tables, derived') /\ Ids(derived') = Ids(derived)
    BY <1>0, <2>1, <2>2, CollectFacts DEF Good, Attended
  <2> QED BY <1>0, <2>1, <2>3 DEF Good, Paired
<1> QED BY <1>1, <1>2, <1>3 DEF ResetTableName, UpdateTableName

LEMMA UploadStep ==
  ASSUME IInv, NEW n \in Names, NEW content \in Contents, Upload(n, content)
  PROVE  Good(tables', derived', call') /\ (Paired => Paired')
<1> UI \in Callers
  BY DEF Callers
<1> DEFINE isNew == ~Taken(n)
           id == IF isNew THEN NewId ELSE Named(n).id
           was == IF isNew THEN None ELSE Named(n)
           r == [call[UI] EXCEPT !.at = "import", !.job = "waits", !.id = id, !.name = n,
                                 !.content = content, !.original = was]
<1>0. /\ call \in [Callers -> CallStates] /\ call[UI] \in CallStates /\ call[UI].at = "idle"
      /\ Good(tables, derived, call) /\ misfired' = misfired /\ call' = [call EXCEPT ![UI] = r]
      /\ isNew \/ id \in Ids(derived)
  BY CallFacts, InvGood DEF Upload
<1>1. id \in Nat /\ (isNew => id \notin Ids(derived)) /\ (~isNew => id \in Ids(tables))
      /\ was \in Entities \cup {None} /\ (was # None => was.id = id)
  <2>1. CASE isNew
    BY <2>1, NewIdFacts DEF IInv
  <2>2. CASE ~isNew
    <3>1. PICK i \in DOMAIN tables : Named(n) = tables[i]
      BY <2>2, NamedFacts DEF IInv
    <3>2. tables[i] \in Entities
      BY <1>0 DEF Good, Tables
    <3> QED BY <2>2, <3>1, <3>2 DEF Entities, Ids
  <2> QED BY <2>1, <2>2
<1>2. /\ tables' = IF isNew THEN Append(tables, Entity(id, n)) ELSE tables
      /\ derived' = IF isNew THEN Append(derived, Derived(id, "Importing"))
                    ELSE WithStatus(derived, id, "Importing")
  BY DEF Upload
<1>3. /\ Tables(tables', derived') /\ (Ids(tables) = Ids(derived) => Ids(tables') = Ids(derived'))
      /\ id \in Ids(tables')
      /\ \A i \in DOMAIN derived' : derived'[i].id # id => i \in DOMAIN derived /\ derived'[i] = derived[i]
  <2>1. CASE isNew
    BY <1>2, <2>1, NewEntity
  <2>2. CASE ~isNew
    <3>1. tables' = tables /\ derived' = WithStatus(derived, id, "Importing")
      BY <1>2, <2>2
    <3>2. "Importing" \in Statuses
      BY DEF Statuses
    <3>3. derived \in Seq(DerivedEntities) /\ UniqueIds(derived)
      BY <1>0 DEF Good, Tables
    <3> HIDE DEF id
    <3>4. /\ derived' \in Seq(DerivedEntities) /\ UniqueIds(derived') /\ Ids(derived') = Ids(derived)
          /\ DOMAIN derived' = DOMAIN derived
          /\ \A i \in DOMAIN derived : derived'[i].id = derived[i].id /\ (derived[i].id # id => derived'[i] = derived[i])
      BY <3>1, <3>2, <3>3, StatusFacts
    <3> QED BY <1>0, <1>1, <2>2, <3>1, <3>4 DEF Good, Tables
  <2> QED BY <2>1, <2>2
<1> HIDE DEF id, was
<1>4. /\ r \in CallStates /\ r.at = "import" /\ r.job = "waits" /\ r.name = n /\ r.content = content
      /\ r.original = was /\ r.id = id
  BY <1>0, <1>1 DEF CallStates, Waiting
<1> HIDE DEF r
<1>5. CallOk(r, UI)
  BY <1>1, <1>4 DEF CallOk, Waiting
<1>6. CallsOk(call') /\ \A k \in Callers : call'[k] = IF k = UI THEN r ELSE call[k]
  BY <1>0, <1>4, <1>5, OneCall DEF Good
<1>7. Attended(call', derived')
  <2>1. ASSUME NEW i \in DOMAIN derived', derived'[i].status # "Idle"
        PROVE  \E k \in Callers : Resets(call'[k], derived'[i].id)
    <3>1. CASE derived'[i].id = id
      BY <3>1, <1>4, <1>6 DEF Resets, Working
    <3>2. CASE derived'[i].id # id
      <4>1. i \in DOMAIN derived /\ derived'[i] = derived[i]
        BY <3>2, <1>3
      <4>2. PICK k \in Callers : Resets(call[k], derived[i].id)
        BY <1>0, <2>1, <4>1 DEF Good, Attended
      <4>3. k # UI
        BY <1>0, <4>2 DEF Resets, Working
      <4> QED BY <4>1, <4>2, <4>3, <1>6
    <3> QED BY <3>1, <3>2
  <2> QED BY <2>1 DEF Attended
<1>8. RollsBack(call', tables', derived')
  BY <1>3, <1>4, <1>6 DEF RollsBack
<1>9. Paired => Paired'
  BY <1>0, <1>3 DEF Paired
<1> QED BY <1>3, <1>6, <1>7, <1>8, <1>9 DEF Good

-----------------------------------------------------------------------------
(* The runtime's tables and the counters                                   *)

StoreOk ==
  /\ sources \subseteq Names
  /\ data \in [Names -> Contents \cup {None}]
  /\ \A n \in sources : data[n] # None

LEMMA RuntimeStep ==
  ASSUME IInv, NEW names, NEW tab, RuntimeChange(names, tab)
  PROVE  Good(tables', derived', call') /\ (Paired => Paired') /\ misfired' \in BOOLEAN
<1>1. UNCHANGED <<tables, derived, call, misfired>>
  BY DEF RuntimeChange, entities
<1>2. tables \in Seq(Entities) /\ UniqueIds(tables) /\ misfired \in BOOLEAN
  BY DEF IInv, TypeOK
<1> QED BY <1>1, <1>2, NameStep

LEMMA StoreStep ==
  ASSUME IInv, Next
  PROVE  StoreOk' /\ changes' \in Nat
<1>0. StoreOk /\ changes \in Nat /\ None \notin Contents /\ UI \in Callers
  BY ValuesAssumption DEF IInv, TypeOK, StoreOk, Callers
<1>1. CASE UNCHANGED <<sources, data, changes>>
  BY <1>0, <1>1 DEF StoreOk
<1>2. CASE Imported
  <2>1. UNCHANGED <<sources, changes>>
    BY <1>2 DEF Imported
  <2>2. data' = data \/ data' = [data EXCEPT ![call[UI].name] = call[UI].content]
    BY <1>2 DEF Imported
  <2>3. call[UI].content \in Contents
    BY <1>0, <1>2, CallFacts DEF Imported, Settled, CallOk
  <2> QED BY <1>0, <2>1, <2>2, <2>3 DEF StoreOk
<1>3. ASSUME NEW n \in Names, NEW c \in Contents, CreateOrRefresh(n, c) PROVE StoreOk' /\ changes' \in Nat
  BY <1>0, <1>3 DEF CreateOrRefresh, RuntimeChange, StoreOk
<1>4. ASSUME NEW n \in Names, DeleteSource(n) PROVE StoreOk' /\ changes' \in Nat
  BY <1>0, <1>4 DEF DeleteSource, RuntimeChange, StoreOk
<1>5. ASSUME NEW n \in Names, NEW m \in Names, RenameSource(n, m) PROVE StoreOk' /\ changes' \in Nat
  BY <1>0, <1>5 DEF RenameSource, RuntimeChange, StoreOk
<1>6. CASE UNCHANGED <<sources, data>> /\ changes' = changes + 1
  BY <1>0, <1>6 DEF StoreOk
<1>7. ASSUME NEW c \in Callers, CallStep(c) PROVE Imported \/ UNCHANGED <<sources, data, changes>>
  <2>1. CASE RunJob(c) \/ SyncRows(c) \/ SyncCols(c) \/ ProfileCols(c) \/ ProfileRows(c) \/ Summaries(c) \/ Updated(c)
    BY <2>1 DEF RunJob, SyncRows, SyncCols, ProfileCols, ProfileRows, Summaries, Updated, runtime
  <2>2. CASE RollBackNew \/ RollBack
    BY <2>2 DEF RollBackNew, RollBack, runtime
  <2>3. CASE PollStep(c)
    BY <2>3 DEF PollStep, ListCatalogObjects, ReceiveCatalog, ConfirmRename, DropAbsent, SyncTable,
                AddOrSync, EndPoll, AtEntity, Looping, runtime
  <2> QED BY <1>7, <2>1, <2>2, <2>3 DEF CallStep, Goes
<1>8. ASSUME Changes PROVE StoreOk' /\ changes' \in Nat
  <2>1. ASSUME NEW n \in Names, DropTableRequest(n) PROVE UNCHANGED <<sources, data>> /\ changes' = changes + 1
    BY <2>1 DEF DropTableRequest, Change, runtime
  <2>2. ASSUME NEW id, ResetTableName(id) \/ CollectRequest(id)
        PROVE  UNCHANGED <<sources, data>> /\ changes' = changes + 1
    BY <2>2 DEF ResetTableName, CollectRequest, Change, runtime
  <2>3. ASSUME NEW id, NEW n \in Names, UpdateTableName(id, n)
        PROVE  UNCHANGED <<sources, data>> /\ changes' = changes + 1
    BY <2>3 DEF UpdateTableName, Change, runtime
  <2>4. ASSUME NEW n \in Names, NEW c \in Contents, Upload(n, c)
        PROVE  UNCHANGED <<sources, data>> /\ changes' = changes + 1
    BY <2>4 DEF Upload, Change, runtime
  <2> QED BY <1>3, <1>4, <1>5, <1>6, <1>8, <2>1, <2>2, <2>3, <2>4 DEF Changes
<1> QED BY <1>1, <1>2, <1>7, <1>8 DEF Next

-----------------------------------------------------------------------------
(* The theorems                                                            *)

LEMMA InitInv == Init => IInv /\ Paired
<1> SUFFICES ASSUME Init PROVE IInv /\ Paired
  OBVIOUS
<1> DEFINE e == Entity(1, First[1])
           d == [Derived(1, "Idle") EXCEPT !.profile = ProfileOf(First[2])]
<1>1. First[1] \in Names /\ First[2] \in Contents /\ None \notin Contents
  BY ValuesAssumption
<1>2. e \in Entities /\ e.id = 1
  BY <1>1 DEF Entity, Entities
<1>3. ProfileOf(First[2]) \in Profiles
  BY <1>1 DEF ProfileOf, Profiles
<1>4. d \in DerivedEntities /\ d.id = 1 /\ d.status = "Idle"
  BY <1>3 DEF Derived, DerivedEntities, Statuses
<1>5. tables = <<e>> /\ derived = <<d>>
  BY DEF Init
<1> HIDE DEF e, d
<1>6. tables \in Seq(Entities) /\ derived \in Seq(DerivedEntities)
  BY <1>2, <1>4, <1>5
<1>7. DOMAIN tables = {1} /\ tables[1] = e /\ DOMAIN derived = {1} /\ derived[1] = d
  BY <1>5
<1>8. UniqueIds(tables) /\ UniqueIds(derived)
  BY <1>6, <1>7, UniqueFacts
<1>9. \A c \in Callers : call[c] = NoCall
  BY DEF Init
<1>10. CallsOk(call)
  BY NoCallOk DEF Init, CallsOk
<1>11. Attended(call, derived)
  BY <1>4, <1>7 DEF Attended
<1>12. RollsBack(call, tables, derived)
  <2>1. call[UI].at = "idle"
    BY <1>9 DEF NoCall, Callers
  <2> QED BY <2>1 DEF RollsBack
<1>13. Paired
  BY <1>2, <1>4, <1>7 DEF Paired, Ids
<1>14. sources \subseteq Names /\ data \in [Names -> Contents \cup {None}]
       /\ (\A n \in sources : data[n] # None) /\ changes \in Nat /\ misfired \in BOOLEAN
  BY <1>1 DEF Init
<1> QED BY <1>6, <1>8, <1>10, <1>11, <1>12, <1>13, <1>14 DEF IInv, TypeOK, CallsOk

LEMMA InvStep == IInv /\ [Next]_vars => IInv' /\ (Paired => Paired')
<1> SUFFICES ASSUME IInv, [Next]_vars PROVE IInv' /\ (Paired => Paired')
  OBVIOUS
<1> USE DEF Callers
<1>1. CASE Next
  <2>1. StoreOk' /\ changes' \in Nat
    BY <1>1, StoreStep
  <2>2. Good(tables', derived', call') /\ (Paired => Paired') /\ (misfired' = misfired \/ misfired' \in BOOLEAN)
    <3>1. ASSUME NEW c \in Callers, RunJob(c)
          PROVE  Good(tables', derived', call') /\ (Paired => Paired') /\ misfired' = misfired
      BY <3>1, RunStep DEF RunJob
    <3>2. ASSUME NEW c \in Callers, Goes(c)
          PROVE  /\ Good(tables', derived', call') /\ (Paired => Paired')
                 /\ misfired' = misfired \/ misfired' \in BOOLEAN
      <4>1. CASE SyncRows(c) \/ SyncCols(c)
        BY <4>1, SyncStep DEF SyncRows, SyncCols
      <4>2. CASE ProfileCols(c) \/ Summaries(c) \/ Updated(c)
        BY <4>2, ProfileStep DEF ProfileCols, Summaries, Updated
      <4>3. CASE ProfileRows(c)
        BY <4>3, ProfileRowsStep DEF ProfileRows
      <4>4. CASE Imported \/ RollBack
        BY <4>4, ImportStep DEF Imported, RollBack
      <4>5. CASE RollBackNew
        BY <4>5, RollBackNewStep
      <4> QED BY <3>2, <4>1, <4>2, <4>3, <4>4, <4>5 DEF Goes
    <3>3. ASSUME NEW p \in Polls, PollStep(p)
          PROVE  /\ Good(tables', derived', call') /\ (Paired => Paired')
                 /\ misfired' = misfired \/ misfired' \in BOOLEAN
      <4>1. CASE ListCatalogObjects(p) \/ ReceiveCatalog(p) \/ EndPoll(p)
        BY <4>1, ListStep DEF ListCatalogObjects, ReceiveCatalog, EndPoll
      <4>2. CASE ConfirmRename(p) \/ DropAbsent(p) \/ SyncTable(p)
        BY <4>2, EntityStep
      <4>3. ASSUME NEW n \in Names, AddOrSync(p, n)
            PROVE  Good(tables', derived', call') /\ (Paired => Paired') /\ misfired' = misfired
        BY <4>3, AddStep DEF AddOrSync
      <4> QED BY <3>3, <4>1, <4>2, <4>3 DEF PollStep
    <3>4. ASSUME Changes
          PROVE  /\ Good(tables', derived', call') /\ (Paired => Paired')
                 /\ misfired' = misfired \/ misfired' \in BOOLEAN
      <4>1. ASSUME NEW n \in Names, NEW c \in Contents, Upload(n, c)
            PROVE  Good(tables', derived', call') /\ (Paired => Paired') /\ misfired' = misfired
        BY <4>1, UploadStep DEF Upload
      <4>2. ASSUME NEW n \in Names, NEW c \in Contents, CreateOrRefresh(n, c)
            PROVE  Good(tables', derived', call') /\ (Paired => Paired') /\ misfired' \in BOOLEAN
        BY <4>2, RuntimeStep DEF CreateOrRefresh
      <4>3. ASSUME NEW n \in Names, DeleteSource(n)
            PROVE  Good(tables', derived', call') /\ (Paired => Paired') /\ misfired' \in BOOLEAN
        BY <4>3, RuntimeStep DEF DeleteSource
      <4>4. ASSUME NEW n \in Names, NEW m \in Names, RenameSource(n, m)
            PROVE  Good(tables', derived', call') /\ (Paired => Paired') /\ misfired' \in BOOLEAN
        BY <4>4, RuntimeStep DEF RenameSource
      <4> QED BY <3>4, <4>1, <4>2, <4>3, <4>4, RequestStep DEF Changes
    <3> QED BY <1>1, <3>1, <3>2, <3>3, <3>4 DEF Next, CallStep
  <2>3. misfired' \in BOOLEAN
    BY <2>2 DEF IInv, TypeOK
  <2> QED BY <2>1, <2>2, <2>3 DEF IInv, TypeOK, Good, Tables, StoreOk, CallsOk
<1>2. CASE UNCHANGED vars
  <2>1. UNCHANGED <<sources, data, tables, derived, call, changes, misfired>>
    BY <1>2 DEF vars, runtime, entities
  <2>2. Good(tables', derived', call') /\ (Paired => Paired')
    BY <2>1, CallFacts, NameStep DEF IInv, TypeOK
  <2>3. StoreOk' /\ changes' \in Nat /\ misfired' \in BOOLEAN
    BY <2>1 DEF IInv, TypeOK, StoreOk
  <2> QED BY <2>2, <2>3 DEF IInv, TypeOK, Good, Tables, StoreOk, CallsOk
<1> QED BY <1>1, <1>2

LEMMA Invariance == Spec => [](IInv /\ Paired)
<1>1. IInv /\ Paired /\ [Next]_vars => (IInv /\ Paired)'
  BY InvStep
<1> QED BY InitInv, <1>1, PTL DEF Spec

\* Entities and calls keep their types, and no id is given twice (sources and
\* profiles of TableActions.ts and DuckDbConnection.ts).
THEOREM TypeCorrect == Spec => []TypeOK
<1>1. IInv => TypeOK
  BY DEF IInv
<1> QED BY Invariance, <1>1, PTL

\* However polls, imports, profiles, cancellations and deletions meet, a source
\* that is shown as importing or profiling has a call that will reset it
\* (ResetStateToIdle, addOrUpdateTable).
THEOREM NoneLeftSpinning == Spec => []NeverStuck
<1>1. IInv => NeverStuck
  BY DEF IInv, NeverStuck, Attended, Resets, Working, ToSet
<1> QED BY Invariance, <1>1, PTL

\* Persistent and derived entities come and go together, as long as no removal
\* misses one of the two (addOrSyncTableFromDB, dropTable, deleteEntity).
THEOREM EntitiesPaired == Spec => []Paired
BY Invariance, PTL

=============================================================================
