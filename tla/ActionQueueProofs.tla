------------------------- MODULE ActionQueueProofs -------------------------
(***************************************************************************)
(* The safety of Heap and of ActionQueue, for every set of ids, every set  *)
(* of priorities and any number of actions.  First the heap: what its      *)
(* loops do, by their states and the least round that would go wrong, then *)
(* its operations.  The inductive invariant IInv of the queue is about     *)
(* where an action is: in one entry, with DuckDB, or settled.  From it     *)
(* follows that every step is a step of PromiseQueue.                      *)
(***************************************************************************)
EXTENDS ActionQueue, TLAPS, SequenceTheorems, WellFoundedInduction

-----------------------------------------------------------------------------
(* Loops                                                                   *)

\* A set of numbers has a least one: what holds of a number if it holds of all
\* smaller ones holds of every number, for there is no least exception.
LEMMA LeastElement ==
  ASSUME NEW S \in SUBSET Nat, S # {} PROVE \E i \in S : \A j \in S : i <= j
<1> DEFINE R == OpToRel(<, Nat)
<1>1. IsWellFoundedOn(R, Nat)
  BY NatLessThanWellFounded
<1>2. PICK i \in S : \A j \in S : <<j, i>> \notin R
  <2> HIDE DEF R
  <2> QED BY <1>1, WFMin
<1>3. \A j \in S : ~(j < i)
  BY <1>2 DEF OpToRel
<1> QED BY <1>3

\* f is the sequence of states of a loop that starts in s.
IsLoop(f, S, once, s) ==
  f \in [Nat -> S] /\ f[0] = s /\ \A n \in Nat \ {0} : f[n] = once[f[n - 1]]

\* The sequence of states of a loop exists: the recursive functions that model
\* loops are not empty talk.
LEMMA LoopExists ==
  ASSUME NEW S, NEW once \in [S -> S], NEW s \in S
  PROVE  \E f : IsLoop(f, S, once, s)
<1> DEFINE Runs(n) == {g \in [0..n -> S] : g[0] = s /\ \A k \in 0..(n - 1) : g[k + 1] = once[g[k]]}
<1>1. \A n \in Nat : Runs(n) # {}
  <2> DEFINE None == {n \in Nat : Runs(n) = {}}
  <2>1. SUFFICES ASSUME None # {} PROVE FALSE
    OBVIOUS
  <2>2. PICK n \in None : \A k \in None : n <= k
    <3> HIDE DEF None
    <3>1. None \in SUBSET Nat
      BY DEF None
    <3> QED BY <2>1, <3>1, LeastElement
  <2>3. CASE n = 0
    <3> DEFINE g == [k \in 0..0 |-> s]
    <3>1. g \in Runs(0)
      OBVIOUS
    <3> QED BY <3>1, <2>2, <2>3
  <2>4. CASE n # 0
    <3>1. n \in Nat /\ n - 1 \in Nat /\ n - 1 \notin None
      BY <2>2, <2>4
    <3>2. PICK g : g \in Runs(n - 1)
      BY <3>1
    <3> DEFINE e == [k \in 0..n |-> IF k = n THEN once[g[n - 1]] ELSE g[k]]
    <3>3. g \in [0..(n - 1) -> S] /\ g[0] = s /\ \A k \in 0..(n - 2) : g[k + 1] = once[g[k]]
      BY <3>1, <3>2
    <3>4. e \in [0..n -> S]
      BY <3>1, <3>3
    <3>5. e[0] = s
      BY <3>1, <3>3, <2>4
    <3>6. ASSUME NEW k \in 0..(n - 1) PROVE e[k + 1] = once[e[k]]
      <4>1. CASE k = n - 1
        BY <3>1, <4>1
      <4>2. CASE k # n - 1
        BY <3>1, <3>3, <4>2
      <4> QED BY <4>1, <4>2
    <3>7. e \in Runs(n)
      BY <3>4, <3>5, <3>6
    <3> QED BY <3>7, <2>2
  <2> QED BY <2>3, <2>4
<1>2. ASSUME NEW n \in Nat, NEW m \in Nat, NEW g \in Runs(n), NEW e \in Runs(m)
      PROVE  \A k \in 0..n : k <= m => g[k] = e[k]
  <2> DEFINE Diff == {k \in 0..n : k <= m /\ g[k] # e[k]}
  <2>1. SUFFICES ASSUME Diff # {} PROVE FALSE
    OBVIOUS
  <2>2. PICK k \in Diff : \A j \in Diff : k <= j
    <3> HIDE DEF Diff
    <3>1. Diff \in SUBSET Nat
      BY DEF Diff
    <3> QED BY <2>1, <3>1, LeastElement
  <2>3. k # 0
    BY <2>2
  <2>4. k - 1 \in 0..n /\ k - 1 <= m /\ k - 1 \notin Diff /\ k - 1 \in 0..(n - 1) /\ k - 1 \in 0..(m - 1)
    BY <2>2, <2>3
  <2>5. g[k - 1] = e[k - 1]
    BY <2>4
  <2>6. g[(k - 1) + 1] = once[g[k - 1]] /\ e[(k - 1) + 1] = once[e[k - 1]]
    BY <2>4
  <2>7. (k - 1) + 1 = k
    BY <2>2
  <2> QED BY <2>2, <2>5, <2>6, <2>7
<1> DEFINE A(n) == CHOOSE g \in Runs(n) : TRUE
           f == [n \in Nat |-> A(n)[n]]
<1>3. \A n \in Nat : A(n) \in Runs(n)
  BY <1>1
<1>4. \A n \in Nat : A(n)[n] \in S
  <2> TAKE n \in Nat
  <2>1. A(n) \in [0..n -> S]
    BY <1>3
  <2> HIDE DEF A
  <2> QED BY <2>1
<1>5. f[0] = s
  BY <1>3
<1>6. ASSUME NEW n \in Nat, n # 0 PROVE f[n] = once[f[n - 1]]
  <2>1. n - 1 \in Nat /\ n - 1 \in 0..n /\ n - 1 \in 0..(n - 1) /\ (n - 1) + 1 = n
    BY <1>6
  <2>2. A(n)[(n - 1) + 1] = once[A(n)[n - 1]]
    BY <1>3, <2>1
  <2>3. A(n)[n - 1] = A(n - 1)[n - 1]
    <3> HIDE DEF A
    <3>1. A(n) \in Runs(n) /\ A(n - 1) \in Runs(n - 1)
      BY <1>3, <2>1
    <3> HIDE DEF Runs
    <3> QED BY <3>1, <2>1, <1>2
  <2> HIDE DEF A
  <2> QED BY <2>1, <2>2, <2>3
<1>7. f \in [Nat -> S]
  BY <1>4
<1> HIDE DEF f
<1>8. IsLoop(f, S, once, s)
  BY <1>5, <1>6, <1>7 DEF IsLoop
<1> QED BY <1>8

\* A loop whose body keeps S, and lowers mu unless it changes nothing, stays in S
\* and has ended after mu[s] rounds.
LEMMA LoopEnds ==
  ASSUME NEW S, NEW once \in [S -> S], NEW mu \in [S -> Nat], NEW s \in S,
         \A x \in S : once[x] = x \/ mu[once[x]] < mu[x],
         NEW f, f[0] = s, \A n \in Nat : f[n] \in S => f[n + 1] = once[f[n]]
  PROVE  /\ \A n \in Nat : f[n] \in S
         /\ \A n \in Nat : n >= mu[s] => once[f[n]] = f[n]
<1>1. \A n \in Nat : f[n] \in S
  <2> DEFINE Out == {n \in Nat : f[n] \notin S}
  <2>1. SUFFICES ASSUME Out # {} PROVE FALSE
    OBVIOUS
  <2>2. PICK n \in Out : \A k \in Out : n <= k
    <3> HIDE DEF Out
    <3>1. Out \in SUBSET Nat
      BY DEF Out
    <3> QED BY <2>1, <3>1, LeastElement
  <2>3. n # 0
    BY <2>2
  <2>4. n - 1 \in Nat /\ n - 1 \notin Out /\ (n - 1) + 1 = n
    BY <2>2, <2>3
  <2>5. f[n - 1] \in S /\ f[(n - 1) + 1] = once[f[n - 1]]
    BY <2>4
  <2> QED BY <2>2, <2>4, <2>5
<1>2. \A n \in Nat : once[f[n]] = f[n] \/ mu[f[n]] + n <= mu[s]
  <2> DEFINE Late == {n \in Nat : ~(once[f[n]] = f[n] \/ mu[f[n]] + n <= mu[s])}
  <2>1. SUFFICES ASSUME Late # {} PROVE FALSE
    OBVIOUS
  <2>2. PICK n \in Late : \A k \in Late : n <= k
    <3> HIDE DEF Late
    <3>1. Late \in SUBSET Nat
      BY DEF Late
    <3> QED BY <2>1, <3>1, LeastElement
  <2>3. n # 0
    BY <2>2
  <2>4. n - 1 \in Nat /\ n - 1 \notin Late /\ (n - 1) + 1 = n
    BY <2>2, <2>3
  <2>5. f[n - 1] \in S /\ f[n] = once[f[n - 1]] /\ f[n] \in S
    BY <1>1, <2>4
  <2>6. CASE once[f[n - 1]] = f[n - 1]
    <3>1. once[f[n]] = f[n]
      BY <2>5, <2>6
    <3> QED BY <3>1, <2>2
  <2>7. CASE once[f[n - 1]] # f[n - 1]
    <3>1. mu[f[n - 1]] + (n - 1) <= mu[s] /\ mu[f[n]] < mu[f[n - 1]]
      BY <2>4, <2>5, <2>7
    <3>2. mu[f[n]] \in Nat /\ mu[f[n - 1]] \in Nat /\ mu[s] \in Nat /\ n \in Nat
      BY <2>5, <2>2
    <3>3. mu[f[n]] + n <= mu[s]
      BY <3>1, <3>2
    <3> QED BY <3>3, <2>2
  <2> QED BY <2>6, <2>7
<1>3. ASSUME NEW n \in Nat, n >= mu[s] PROVE once[f[n]] = f[n]
  <2>1. SUFFICES ASSUME once[f[n]] # f[n] PROVE FALSE
    OBVIOUS
  <2>2. f[n] \in S /\ once[f[n]] \in S
    BY <1>1
  <2>3. mu[f[n]] + n <= mu[s] /\ mu[once[f[n]]] < mu[f[n]]
    BY <1>2, <2>1, <2>2
  <2>4. mu[f[n]] \in Nat /\ mu[once[f[n]]] \in Nat /\ mu[s] \in Nat
    BY <2>2
  <2> QED BY <2>3, <2>4, <1>3
<1> QED BY <1>1, <1>3

-----------------------------------------------------------------------------
(* The order of the heap, on the ranks of the items at indexes 1..N        *)

Ranks(p, a) == [j \in 1..Len(a) |-> p[a[j]]]
Tidy(r, N) == \A j \in 2..N : r[j \div 2] <= r[j]

\* In order but for the item at k, whose parent does not rank below its children.
Slack(r, N, k) ==
  /\ \A j \in 2..N : j # k /\ j \div 2 # k => r[j \div 2] <= r[j]
  /\ k >= 2 => \A c \in 2..N : c \div 2 = k => r[k \div 2] <= r[c]
AboveOK(r, N, k) == k >= 2 /\ k <= N => r[k \div 2] <= r[k]
BelowOK(r, N, k) == \A c \in 2..N : c \div 2 = k => r[k] <= r[c]

LEMMA Halves ==
  /\ \A j \in Nat : j >= 2 => j \div 2 \in 1..(j - 1)
  /\ \A j, k \in Nat : j \div 2 = k <=> j = 2 * k \/ j = 2 * k + 1
OBVIOUS

LEMMA TidyFrom ==
  ASSUME NEW N \in Nat, NEW r \in [1..N -> Int], NEW k \in Nat \ {0},
         Slack(r, N, k), AboveOK(r, N, k), BelowOK(r, N, k)
  PROVE  Tidy(r, N)
BY Halves DEF Slack, AboveOK, BelowOK, Tidy

LEMMA TidyIs ==
  ASSUME NEW N \in Nat, NEW r \in [1..N -> Int], NEW k \in 1..N, Tidy(r, N)
  PROVE  Slack(r, N, k) /\ AboveOK(r, N, k) /\ BelowOK(r, N, k)
<1>1. \A j \in 2..N : j \div 2 \in 1..N /\ r[j \div 2] \in Int /\ r[j] \in Int
  BY Halves
<1>2. Slack(r, N, k)
  <2>1. ASSUME k >= 2, NEW c \in 2..N, c \div 2 = k PROVE r[k \div 2] <= r[c]
    <3>1. k \in 2..N /\ r[k] \in Int
      BY <2>1
    <3>2. r[k \div 2] <= r[k] /\ r[k] <= r[c]
      BY <3>1, <2>1 DEF Tidy
    <3> QED BY <3>1, <3>2, <2>1, <1>1
  <2> QED BY <2>1 DEF Slack, Tidy
<1> QED BY <1>2 DEF AboveOK, BelowOK, Tidy

\* The ranks q are the ranks r with i and k exchanged.
Switched(q, r, N, i, k) ==
  q[i] = r[k] /\ q[k] = r[i] /\ \A j \in 1..N : j # i /\ j # k => q[j] = r[j]

\* Exchanging an item with its parent, above which it ranks, moves the disorder up.
LEMMA SwapUp ==
  ASSUME NEW N \in Nat, NEW r \in [1..N -> Int], NEW i \in 2..N, NEW q \in [1..N -> Int],
         Slack(r, N, i), r[i] < r[i \div 2],
         Switched(q, r, N, i, i \div 2)
  PROVE  Slack(q, N, i \div 2) /\ BelowOK(q, N, i \div 2)
<1> DEFINE k == i \div 2
<1> USE DEF Switched
<1>1. k \in 1..(i - 1) /\ k \in 1..N
  BY Halves
<1>2. \A j \in 2..N : j \div 2 \in 1..(j - 1) /\ j \div 2 \in 1..N
  BY Halves
<1>3. ASSUME NEW c \in 2..N, c \div 2 = k PROVE q[k] <= q[c]
  <2>1. CASE c = i
    BY <2>1, <1>1
  <2>2. CASE c # i
    <3>1. c # k /\ q[c] = r[c]
      BY <1>2, <1>3, <2>2
    <3>2. r[k] <= r[c]
      BY <1>1, <1>3, <2>2 DEF Slack
    <3> QED BY <3>1, <3>2, <1>1
  <2> QED BY <2>1, <2>2
<1>4. ASSUME NEW j \in 2..N, j # k, j \div 2 # k PROVE q[j \div 2] <= q[j]
  <2>1. j # i
    BY <1>4
  <2>2. q[j] = r[j]
    BY <1>4, <2>1
  <2>3. CASE j \div 2 = i
    <3>1. r[k] <= r[j]
      BY <2>3 DEF Slack
    <3> QED BY <2>2, <2>3, <3>1
  <2>4. CASE j \div 2 # i
    <3>1. q[j \div 2] = r[j \div 2]
      BY <1>2, <1>4, <2>4
    <3> QED BY <2>1, <2>2, <2>4, <3>1 DEF Slack
  <2> QED BY <2>3, <2>4
<1>5. ASSUME k >= 2, NEW c \in 2..N, c \div 2 = k PROVE q[k \div 2] <= q[c]
  <2>1. k \div 2 \in 1..(k - 1)
    BY <1>1, <1>5, Halves
  <2>2. q[k \div 2] = r[k \div 2] /\ r[k \div 2] <= r[k]
    <3>1. k \in 2..N /\ k # i /\ k \div 2 # i /\ k \div 2 # k /\ k \div 2 \in 1..N
      BY <1>1, <1>5, <2>1
    <3>2. q[k \div 2] = r[k \div 2]
      BY <3>1
    <3> HIDE DEF k
    <3> QED BY <3>1, <3>2 DEF Slack
  <2>3. q[c] = r[k] \/ r[k] <= q[c]
    <3>1. CASE c = i
      BY <3>1
    <3>2. CASE c # i
      <4>1. c # k /\ q[c] = r[c]
        BY <1>1, <1>2, <1>5, <3>2
      <4>2. r[k] <= r[c]
        BY <1>1, <1>5, <3>2 DEF Slack
      <4> QED BY <4>1, <4>2
    <3> QED BY <3>1, <3>2
  <2> QED BY <1>1, <2>1, <2>2, <2>3
<1> QED BY <1>3, <1>4, <1>5 DEF Slack, BelowOK

\* No child of i ranks before c.
LeastChild(r, N, i, c) == \A d \in 2..N : d \div 2 = i => r[c] <= r[d]

\* Exchanging an item with its best child moves the disorder down.
LEMMA SwapDown ==
  ASSUME NEW N \in Nat, NEW r \in [1..N -> Int], NEW i \in 1..N, NEW c \in 2..N,
         NEW q \in [1..N -> Int], Parent(c) = i,
         LeastChild(r, N, i, c), Slack(r, N, i), AboveOK(r, N, i), r[c] < r[i],
         Switched(q, r, N, i, c)
  PROVE  Slack(q, N, c) /\ AboveOK(q, N, c)
<1> USE DEF Switched, Parent
<1>1. \A j \in 2..N : j \div 2 \in 1..(j - 1) /\ j \div 2 \in 1..N
  BY Halves
<1>2. i < c
  BY <1>1
<1>3. AboveOK(q, N, c)
  BY DEF AboveOK
<1>4. ASSUME NEW d \in 2..N, d \div 2 = c PROVE q[c \div 2] <= q[d]
  <2>1. d # i /\ d # c /\ q[d] = r[d]
    BY <1>1, <1>2, <1>4
  <2>2. r[c] <= r[d]
    BY <1>2, <1>4, <2>1 DEF Slack
  <2> QED BY <2>1, <2>2
<1>5. ASSUME NEW j \in 2..N, j # c, j \div 2 # c PROVE q[j \div 2] <= q[j]
  <2>1. CASE j = i
    <3>1. j \div 2 \in 1..N /\ j \div 2 # i /\ j \div 2 # c
      BY <1>1, <1>2, <2>1
    <3>2. q[j \div 2] = r[j \div 2] /\ r[i \div 2] <= r[c]
      BY <3>1, <2>1 DEF Slack
    <3> QED BY <3>2, <2>1
  <2>2. CASE j \div 2 = i
    <3>1. j # i /\ q[j] = r[j] /\ r[c] <= r[j]
      BY <1>1, <1>5, <2>2 DEF LeastChild
    <3> QED BY <3>1, <2>2
  <2>3. CASE j # i /\ j \div 2 # i
    <3>1. q[j] = r[j] /\ q[j \div 2] = r[j \div 2]
      BY <1>1, <1>5, <2>3
    <3>2. r[j \div 2] <= r[j]
      BY <2>3 DEF Slack
    <3> QED BY <3>1, <3>2
  <2> QED BY <2>1, <2>2, <2>3
<1> QED BY <1>3, <1>4, <1>5 DEF Slack

\* In a heap that is in order the root ranks first.
LEMMA RootFirst ==
  ASSUME NEW N \in Nat, NEW r \in [1..N -> Int], Tidy(r, N)
  PROVE  \A j \in 1..N : r[1] <= r[j]
<1> DEFINE Odd == {j \in 1..N : ~(r[1] <= r[j])}
<1>1. SUFFICES ASSUME Odd # {} PROVE FALSE
  OBVIOUS
<1>2. PICK j \in Odd : \A k \in Odd : j <= k
  <2> HIDE DEF Odd
  <2>1. Odd \in SUBSET Nat
    BY DEF Odd
  <2> QED BY <1>1, <2>1, LeastElement
<1>3. j # 1 /\ j \in 2..N
  BY <1>2
<1>4. j \div 2 \in 1..(j - 1) /\ j \div 2 \in 1..N /\ j \div 2 \notin Odd
  BY <1>2, <1>3, Halves
<1>5. r[1] <= r[j \div 2] /\ r[j \div 2] <= r[j]
  BY <1>3, <1>4 DEF Tidy
<1>6. 1 \in 1..N /\ r[1] \in Int /\ r[j] \in Int /\ r[j \div 2] \in Int
  BY <1>3, <1>4
<1> QED BY <1>2, <1>5, <1>6

-----------------------------------------------------------------------------
(* The moves                                                               *)

\* The heaps of N items that hold the items C and whose index is exact.
Heaps(N, C) ==
  {h \in [array : Seq(Ids), idxOf : [C -> Nat]] :
     Len(h.array) = N /\ Contents(h.array) = C /\ \A i \in 1..N : h.idxOf[h.array[i]] = i}

LEMMA HeapFacts ==
  ASSUME NEW N \in Nat, NEW C, NEW h \in Heaps(N, C)
  PROVE  /\ h = [array |-> h.array, idxOf |-> h.idxOf]
         /\ h.array \in Seq(Ids) /\ h.array \in [1..N -> C] /\ DOMAIN h.array = 1..N
         /\ Len(h.array) = N
         /\ Contents(h.array) = C /\ C \subseteq Ids
         /\ h.idxOf \in [C -> Nat]
         /\ \A i \in 1..N : h.idxOf[h.array[i]] = i
         /\ \A i, k \in 1..N : h.array[i] = h.array[k] => i = k
         /\ \A v \in C : h.idxOf[v] \in 1..N /\ h.array[h.idxOf[v]] = v
         /\ Exact(h)
<1>1. /\ h.array \in Seq(Ids) /\ h.idxOf \in [C -> Nat] /\ Len(h.array) = N
      /\ Contents(h.array) = C /\ \A i \in 1..N : h.idxOf[h.array[i]] = i
      /\ h = [array |-> h.array, idxOf |-> h.idxOf]
  BY DEF Heaps
<1>2. DOMAIN h.array = 1..N /\ \A i \in 1..N : h.array[i] \in Ids
  BY <1>1
<1>3. C = {h.array[i] : i \in 1..N}
  BY <1>1 DEF Contents
<1>4. h.array \in [1..N -> C]
  <2>1. h.array = [i \in 1..N |-> h.array[i]]
    BY <1>1, <1>2
  <2> QED BY <1>3, <2>1
<1>5. \A i, k \in 1..N : h.array[i] = h.array[k] => i = k
  BY <1>1
<1>6. \A v \in C : h.idxOf[v] \in 1..N /\ h.array[h.idxOf[v]] = v
  BY <1>1, <1>3
<1>7. Exact(h)
  BY <1>1 DEF Exact
<1>8. C \subseteq Ids
  BY <1>2, <1>3
<1> QED BY <1>1, <1>2, <1>3, <1>4, <1>5, <1>6, <1>7, <1>8

LEMMA HeapMade ==
  ASSUME NEW N \in Nat, NEW C, NEW a, NEW x, C \subseteq Ids,
         a \in [1..N -> C], \A v \in C : \E i \in 1..N : v = a[i], x \in [C -> Nat],
         \A i \in 1..N : x[a[i]] = i
  PROVE  [array |-> a, idxOf |-> x] \in Heaps(N, C)
<1>1. a \in [1..N -> Ids]
  BY DEF Heaps
<1>2. a \in Seq(Ids) /\ Len(a) = N
  BY <1>1, SeqDef, LenProperties
<1>3. Contents(a) = C
  BY <1>2 DEF Contents
<1> QED BY <1>2, <1>3 DEF Heaps

LEMMA SwapKeeps ==
  ASSUME NEW N \in Nat, NEW C, NEW h \in Heaps(N, C), NEW i \in 1..N, NEW k \in 1..N, i # k
  PROVE  /\ Swap(h, i, k) \in Heaps(N, C)
         /\ Swap(h, i, k).array[i] = h.array[k]
         /\ Swap(h, i, k).array[k] = h.array[i]
         /\ \A j \in 1..N : j # i /\ j # k => Swap(h, i, k).array[j] = h.array[j]
<1>1. /\ h.array \in [1..N -> C] /\ h.idxOf \in [C -> Nat] /\ C \subseteq Ids
      /\ \A v \in C : h.idxOf[v] \in 1..N /\ h.array[h.idxOf[v]] = v
      /\ \A j \in 1..N : h.idxOf[h.array[j]] = j
      /\ \A j, l \in 1..N : h.array[j] = h.array[l] => j = l
  BY HeapFacts
<1> DEFINE a == [h.array EXCEPT ![i] = h.array[k], ![k] = h.array[i]]
           x == [h.idxOf EXCEPT ![a[i]] = i, ![a[k]] = k]
<1>2. a \in [1..N -> C] /\ a[i] = h.array[k] /\ a[k] = h.array[i]
      /\ \A j \in 1..N : j # i /\ j # k => a[j] = h.array[j]
  BY <1>1
<1>3. Swap(h, i, k) = [array |-> a, idxOf |-> x]
  BY DEF Swap
<1> HIDE DEF a
<1>4. x \in [C -> Nat] /\ x[a[i]] = i /\ x[a[k]] = k
  <2>1. a[i] \in C /\ a[k] \in C /\ a[i] # a[k] /\ i \in Nat /\ k \in Nat
    <3>1. h.array[i] # h.array[k]
      BY <1>1
    <3> QED BY <3>1, <1>2
  <2>2. h.idxOf \in [C -> Nat]
    BY <1>1
  <2>3. x \in [C -> Nat]
    BY <2>1, <2>2
  <2>4. x[a[k]] = k
    BY <2>1, <2>2
  <2>5. x[a[i]] = i
    BY <2>1, <2>2
  <2> QED BY <2>3, <2>4, <2>5
<1>5. \A j \in 1..N : x[a[j]] = j
  <2>1. ASSUME NEW j \in 1..N, j # i, j # k PROVE x[a[j]] = j
    <3>1. a[j] = h.array[j] /\ a[j] # a[i] /\ a[j] # a[k] /\ a[j] \in C
      BY <2>1, <1>1, <1>2
    <3>2. x[a[j]] = h.idxOf[a[j]]
      BY <3>1, <1>1
    <3> QED BY <3>1, <3>2, <1>1
  <2> QED BY <2>1, <1>4
<1>6. ASSUME NEW v \in C PROVE \E j \in 1..N : v = a[j]
  <2>1. PICK j \in 1..N : v = h.array[j]
    BY <1>1
  <2> QED BY <2>1, <1>2
<1> HIDE DEF x
<1>7. [array |-> a, idxOf |-> x] \in Heaps(N, C)
  BY <1>1, <1>2, <1>4, <1>5, <1>6, HeapMade
<1> QED BY <1>2, <1>3, <1>7

LEMMA RanksOf ==
  ASSUME NEW N \in Nat, NEW C, NEW h \in Heaps(N, C), NEW p \in [Ids -> Priorities]
  PROVE  /\ Ranks(p, h.array) \in [1..N -> Int]
         /\ \A j \in 1..N : Ranks(p, h.array)[j] = p[h.array[j]]
         /\ \A j, k \in 1..N : Above(p, h.array[j], h.array[k])
                                 <=> Ranks(p, h.array)[j] < Ranks(p, h.array)[k]
         /\ InOrder(p, h.array) <=> Tidy(Ranks(p, h.array), N)
<1>1. Len(h.array) = N /\ \A j \in 1..N : h.array[j] \in Ids
  BY HeapFacts
<1>2. \A j \in 1..N : p[h.array[j]] \in Int
  BY <1>1, PrioritiesAssumption
<1>3. \A j \in 1..N : Ranks(p, h.array)[j] = p[h.array[j]]
  BY <1>1 DEF Ranks
<1>4. Ranks(p, h.array) \in [1..N -> Int]
  BY <1>1, <1>2 DEF Ranks
<1>5. \A j, k \in 1..N : Above(p, h.array[j], h.array[k])
                           <=> Ranks(p, h.array)[j] < Ranks(p, h.array)[k]
  BY <1>2, <1>3 DEF Above
<1>6. \A j \in 2..N : j \div 2 \in 1..N /\ j \in 1..N
  BY Halves
<1> HIDE DEF Ranks
<1>7. ASSUME NEW j \in 2..N
      PROVE  ~Above(p, h.array[j], h.array[Parent(j)])
               <=> Ranks(p, h.array)[j \div 2] <= Ranks(p, h.array)[j]
  <2>1. Ranks(p, h.array)[j \div 2] \in Int /\ Ranks(p, h.array)[j] \in Int
    BY <1>4, <1>6
  <2> QED BY <2>1, <1>5, <1>6 DEF Parent
<1>8. InOrder(p, h.array) <=> Tidy(Ranks(p, h.array), N)
  BY <1>1, <1>7 DEF InOrder, Tidy
<1> QED BY <1>3, <1>4, <1>5, <1>8

UpKeeps(S, p, mu) ==
  \A m \in S : /\ UpOnce(p, m) \in S
               /\ UpOnce(p, m) = m \/ mu[UpOnce(p, m)] < mu[m]

\* The while loop of moveUp keeps S when its body does, and after mu rounds it
\* has broken.
LEMMA UpsLoop ==
  ASSUME NEW S, NEW p, NEW h, NEW i, NEW mu \in [S -> Nat], [heap |-> h, at |-> i] \in S,
         UpKeeps(S, p, mu)
  PROVE  \A n \in Nat :
           /\ Ups(p, h, i)[n] \in S
           /\ n >= mu[[heap |-> h, at |-> i]] => UpOnce(p, Ups(p, h, i)[n]) = Ups(p, h, i)[n]
<1> DEFINE s == [heap |-> h, at |-> i]
           once == [m \in S |-> UpOnce(p, m)]
           g == Ups(p, h, i)
<1>1. \A m \in S : once[m] = UpOnce(p, m)
  OBVIOUS
<1>2. s \in S /\ once \in [S -> S]
  BY DEF UpKeeps
<1>3. \A m \in S : once[m] = m \/ mu[once[m]] < mu[m]
  BY DEF UpKeeps
<1> HIDE DEF s, once
<1>4. PICK f : IsLoop(f, S, once, s)
  BY <1>2, LoopExists
<1>5. f = [n \in Nat |-> IF n = 0 THEN s ELSE UpOnce(p, f[n - 1])]
  <2>1. \A n \in Nat : n # 0 => f[n - 1] \in S /\ n \in Nat \ {0}
    BY <1>4 DEF IsLoop
  <2>2. \A n \in Nat : n # 0 => f[n] = UpOnce(p, f[n - 1])
    BY <1>1, <1>4, <2>1 DEF IsLoop
  <2>3. \A n \in Nat : f[n] = IF n = 0 THEN s ELSE UpOnce(p, f[n - 1])
    BY <1>4, <2>2 DEF IsLoop
  <2>4. f = [n \in Nat |-> f[n]]
    BY <1>4 DEF IsLoop
  <2> QED BY <2>3, <2>4
<1>6. g = [n \in Nat |-> IF n = 0 THEN s ELSE UpOnce(p, g[n - 1])]
  BY <1>5 DEF Ups, s
<1> HIDE DEF g
<1>7. g[0] = s /\ \A n \in Nat : g[n + 1] = UpOnce(p, g[n])
  <2>1. \A n \in Nat : g[n] = IF n = 0 THEN s ELSE UpOnce(p, g[n - 1])
    BY <1>6
  <2>2. g[0] = s
    BY <2>1
  <2>3. ASSUME NEW n \in Nat PROVE g[n + 1] = UpOnce(p, g[n])
    <3>1. n + 1 \in Nat /\ n + 1 # 0 /\ (n + 1) - 1 = n
      OBVIOUS
    <3>2. g[n + 1] = UpOnce(p, g[(n + 1) - 1])
      BY <2>1, <3>1
    <3> QED BY <3>1, <3>2
  <2> QED BY <2>2, <2>3
<1>8. g[0] = s /\ \A n \in Nat : g[n] \in S => g[n + 1] = once[g[n]]
  BY <1>1, <1>7
<1>9. /\ \A n \in Nat : g[n] \in S
      /\ \A n \in Nat : n >= mu[s] => once[g[n]] = g[n]
  BY <1>2, <1>3, <1>8, LoopEnds
<1> QED BY <1>1, <1>9 DEF g, s

DownKeeps(S, p, mu) ==
  \A m \in S : /\ DownOnce(p, m) \in S
               /\ DownOnce(p, m) = m \/ mu[DownOnce(p, m)] < mu[m]

\* The while loop of moveDown keeps S when its body does, and after mu rounds it
\* has broken.
LEMMA DownsLoop ==
  ASSUME NEW S, NEW p, NEW h, NEW i, NEW mu \in [S -> Nat], [heap |-> h, at |-> i] \in S,
         DownKeeps(S, p, mu)
  PROVE  \A n \in Nat :
           /\ Downs(p, h, i)[n] \in S
           /\ n >= mu[[heap |-> h, at |-> i]] => DownOnce(p, Downs(p, h, i)[n]) = Downs(p, h, i)[n]
<1> DEFINE s == [heap |-> h, at |-> i]
           once == [m \in S |-> DownOnce(p, m)]
           g == Downs(p, h, i)
<1>1. \A m \in S : once[m] = DownOnce(p, m)
  OBVIOUS
<1>2. s \in S /\ once \in [S -> S]
  BY DEF DownKeeps
<1>3. \A m \in S : once[m] = m \/ mu[once[m]] < mu[m]
  BY DEF DownKeeps
<1> HIDE DEF s, once
<1>4. PICK f : IsLoop(f, S, once, s)
  BY <1>2, LoopExists
<1>5. f = [n \in Nat |-> IF n = 0 THEN s ELSE DownOnce(p, f[n - 1])]
  <2>1. \A n \in Nat : n # 0 => f[n - 1] \in S /\ n \in Nat \ {0}
    BY <1>4 DEF IsLoop
  <2>2. \A n \in Nat : n # 0 => f[n] = DownOnce(p, f[n - 1])
    BY <1>1, <1>4, <2>1 DEF IsLoop
  <2>3. \A n \in Nat : f[n] = IF n = 0 THEN s ELSE DownOnce(p, f[n - 1])
    BY <1>4, <2>2 DEF IsLoop
  <2>4. f = [n \in Nat |-> f[n]]
    BY <1>4 DEF IsLoop
  <2> QED BY <2>3, <2>4
<1>6. g = [n \in Nat |-> IF n = 0 THEN s ELSE DownOnce(p, g[n - 1])]
  BY <1>5 DEF Downs, s
<1> HIDE DEF g
<1>7. g[0] = s /\ \A n \in Nat : g[n + 1] = DownOnce(p, g[n])
  <2>1. \A n \in Nat : g[n] = IF n = 0 THEN s ELSE DownOnce(p, g[n - 1])
    BY <1>6
  <2>2. g[0] = s
    BY <2>1
  <2>3. ASSUME NEW n \in Nat PROVE g[n + 1] = DownOnce(p, g[n])
    <3>1. n + 1 \in Nat /\ n + 1 # 0 /\ (n + 1) - 1 = n
      OBVIOUS
    <3>2. g[n + 1] = DownOnce(p, g[(n + 1) - 1])
      BY <2>1, <3>1
    <3> QED BY <3>1, <3>2
  <2> QED BY <2>2, <2>3
<1>8. g[0] = s /\ \A n \in Nat : g[n] \in S => g[n + 1] = once[g[n]]
  BY <1>1, <1>7
<1>9. /\ \A n \in Nat : g[n] \in S
      /\ \A n \in Nat : n >= mu[s] => once[g[n]] = g[n]
  BY <1>2, <1>3, <1>8, LoopEnds
<1> QED BY <1>1, <1>9 DEF g, s

\* One round of moveUp: the item is not above its parent, or changes places with it.
LEMMA UpRound ==
  ASSUME NEW N \in Nat, NEW C, NEW p \in [Ids -> Priorities],
         NEW m, m.heap \in Heaps(N, C), m.at \in 1..N
  PROVE  LET r == Ranks(p, m.heap.array) IN
         \/ UpOnce(p, m) = m /\ AboveOK(r, N, m.at)
         \/ /\ m.at \in 2..N /\ r[m.at] < r[m.at \div 2]
            /\ UpOnce(p, m) = [heap |-> Swap(m.heap, m.at, m.at \div 2), at |-> m.at \div 2]
<1> DEFINE r == Ranks(p, m.heap.array)
<1>1. /\ r \in [1..N -> Int]
      /\ \A j, k \in 1..N : Above(p, m.heap.array[j], m.heap.array[k]) <=> r[j] < r[k]
  BY RanksOf
<1> HIDE DEF r
<1>2. CASE m.at = 1
  BY <1>2 DEF UpOnce, AboveOK, r
<1>3. CASE m.at > 1
  <2>1. m.at \in 2..N /\ m.at \div 2 \in 1..N
    BY <1>3, Halves
  <2>2. Above(p, m.heap.array[m.at], m.heap.array[Parent(m.at)]) <=> r[m.at] < r[m.at \div 2]
    BY <1>1, <2>1 DEF Parent
  <2>3. r[m.at] \in Int /\ r[m.at \div 2] \in Int
    BY <1>1, <2>1
  <2>4. CASE r[m.at] < r[m.at \div 2]
    BY <1>3, <2>1, <2>2, <2>4 DEF UpOnce, Parent, r
  <2>5. CASE ~(r[m.at] < r[m.at \div 2])
    <3>1. UpOnce(p, m) = m
      BY <2>2, <2>5 DEF UpOnce
    <3>2. AboveOK(r, N, m.at)
      BY <2>3, <2>5 DEF AboveOK
    <3> QED BY <3>1, <3>2 DEF r
  <2> QED BY <2>4, <2>5
<1> QED BY <1>2, <1>3

\* The ranks of b are those of a with i and k exchanged.
Exchanged(p, N, a, b, i, k) ==
  /\ Ranks(p, a) \in [1..N -> Int] /\ Ranks(p, b) \in [1..N -> Int]
  /\ Switched(Ranks(p, b), Ranks(p, a), N, i, k)

LEMMA SwapRanks ==
  ASSUME NEW N \in Nat, NEW C, NEW p \in [Ids -> Priorities], NEW h \in Heaps(N, C),
         NEW i \in 1..N, NEW k \in 1..N, i # k
  PROVE  Swap(h, i, k) \in Heaps(N, C) /\ Exchanged(p, N, h.array, Swap(h, i, k).array, i, k)
<1> DEFINE w == Swap(h, i, k)
<1>1. /\ w \in Heaps(N, C)
      /\ w.array[i] = h.array[k] /\ w.array[k] = h.array[i]
      /\ \A j \in 1..N : j # i /\ j # k => w.array[j] = h.array[j]
  BY SwapKeeps
<1> HIDE DEF w
<1>2. Ranks(p, h.array) \in [1..N -> Int] /\ \A j \in 1..N : Ranks(p, h.array)[j] = p[h.array[j]]
  BY RanksOf
<1>3. Ranks(p, w.array) \in [1..N -> Int] /\ \A j \in 1..N : Ranks(p, w.array)[j] = p[w.array[j]]
  BY <1>1, RanksOf
<1>4. Ranks(p, w.array)[i] = Ranks(p, h.array)[k] /\ Ranks(p, w.array)[k] = Ranks(p, h.array)[i]
  BY <1>1, <1>2, <1>3
<1>5. ASSUME NEW j \in 1..N, j # i, j # k PROVE Ranks(p, w.array)[j] = Ranks(p, h.array)[j]
  <2>1. w.array[j] = h.array[j]
    BY <1>1, <1>5
  <2>2. Ranks(p, w.array)[j] = p[w.array[j]] /\ Ranks(p, h.array)[j] = p[h.array[j]]
    BY <1>2, <1>3
  <2> QED BY <2>1, <2>2
<1>6. Exchanged(p, N, h.array, w.array, i, k)
  BY <1>2, <1>3, <1>4, <1>5 DEF Exchanged, Switched
<1> QED BY <1>1, <1>6 DEF w

LEMMA SwapWithParent ==
  ASSUME NEW N \in Nat, NEW C, NEW p \in [Ids -> Priorities], NEW h \in Heaps(N, C),
         NEW i \in 2..N, Ranks(p, h.array)[i] < Ranks(p, h.array)[i \div 2]
  PROVE  LET w == Swap(h, i, i \div 2) IN
         /\ w \in Heaps(N, C)
         /\ Slack(Ranks(p, h.array), N, i) =>
              Slack(Ranks(p, w.array), N, i \div 2) /\ BelowOK(Ranks(p, w.array), N, i \div 2)
<1>1. i \div 2 \in 1..N /\ i \in 1..N /\ i # i \div 2
  BY Halves
<1> DEFINE k == i \div 2
           w == Swap(h, i, k)
<1> HIDE DEF k
<1>2. w \in Heaps(N, C) /\ Exchanged(p, N, h.array, w.array, i, k)
  BY <1>1, SwapRanks DEF k
<1> HIDE DEF w
<1>3. Slack(Ranks(p, h.array), N, i) =>
        Slack(Ranks(p, w.array), N, k) /\ BelowOK(Ranks(p, w.array), N, k)
  BY <1>2, SwapUp DEF Exchanged, k
<1> QED BY <1>2, <1>3 DEF w, k

\* The states of moveUp that starts at index i of heap h.
UpStates(p, N, C, h, i, ord) ==
  {m \in [heap : Heaps(N, C), at : 1..i] :
     /\ m.at = i => m.heap = h
     /\ ord => /\ Slack(Ranks(p, m.heap.array), N, m.at)
               /\ m.at # i => BelowOK(Ranks(p, m.heap.array), N, m.at)}

LEMMA UpBody ==
  ASSUME NEW N \in Nat, NEW C, NEW p \in [Ids -> Priorities], NEW h \in Heaps(N, C),
         NEW i \in 1..N, NEW ord \in BOOLEAN
  PROVE  LET S == UpStates(p, N, C, h, i, ord) IN UpKeeps(S, p, [m \in S |-> m.at])
<1> DEFINE S == UpStates(p, N, C, h, i, ord)
           mu == [m \in S |-> m.at]
<1>1. ASSUME NEW m \in S
      PROVE  UpOnce(p, m) \in S /\ (UpOnce(p, m) = m \/ mu[UpOnce(p, m)] < mu[m])
  <2> DEFINE r == Ranks(p, m.heap.array)
             k == m.at \div 2
             w == Swap(m.heap, m.at, k)
  <2>1. m.heap \in Heaps(N, C) /\ m.at \in 1..i /\ m.at \in 1..N
    BY DEF UpStates
  <2>2. CASE UpOnce(p, m) = m
    BY <2>2
  <2>3. CASE /\ m.at \in 2..N /\ r[m.at] < r[k]
             /\ UpOnce(p, m) = [heap |-> w, at |-> k]
    <3>1. k \in 1..(m.at - 1) /\ k \in 1..N /\ k \in 1..i /\ k # i /\ m.at # k
      BY <2>1, <2>3, Halves
    <3>2. /\ w \in Heaps(N, C)
          /\ Slack(r, N, m.at) =>
               Slack(Ranks(p, w.array), N, k) /\ BelowOK(Ranks(p, w.array), N, k)
      BY <2>1, <2>3, SwapWithParent
    <3>3. ord => Slack(Ranks(p, w.array), N, k) /\ BelowOK(Ranks(p, w.array), N, k)
      BY <3>2 DEF UpStates
    <3> HIDE DEF w
    <3>4. [heap |-> w, at |-> k] \in S
      BY <3>1, <3>2, <3>3 DEF UpStates
    <3> HIDE DEF S
    <3>5. mu[[heap |-> w, at |-> k]] = k /\ mu[m] = m.at
      BY <3>4
    <3> QED BY <2>1, <2>3, <3>1, <3>4, <3>5
  <2> QED BY <2>1, <2>2, <2>3, UpRound
<1> QED BY <1>1 DEF UpKeeps

\* moveUp ends with a heap of the same items and an exact index; if only the item
\* at i was out of order, the heap is in order when the item has moved, and else
\* only the items below it may be above it.
LEMMA MoveUpResult ==
  ASSUME NEW N \in Nat, NEW C, NEW p \in [Ids -> Priorities], NEW h \in Heaps(N, C),
         NEW i \in 1..N, NEW ord \in BOOLEAN, ord => Slack(Ranks(p, h.array), N, i)
  PROVE  LET m == MoveUp(p, h, i) IN
         /\ m.heap \in Heaps(N, C) /\ m.at \in 1..i
         /\ m.at = i => m.heap = h
         /\ ord /\ m.at = i => AboveOK(Ranks(p, h.array), N, i)
         /\ ord /\ m.at # i => InOrder(p, m.heap.array)
<1> DEFINE S == UpStates(p, N, C, h, i, ord)
           mu == [x \in S |-> x.at]
           s == [heap |-> h, at |-> i]
           m == MoveUp(p, h, i)
<1>1. s \in S
  BY DEF UpStates
<1>2. mu \in [S -> Nat] /\ mu[s] = i
  <2>1. \A x \in S : x.at \in Nat
    BY DEF UpStates
  <2> HIDE DEF S
  <2> QED BY <1>1, <2>1
<1>3. UpKeeps(S, p, mu)
  BY UpBody
<1> HIDE DEF S, mu
<1>4. Len(h.array) = N
  BY HeapFacts
<1>5. m \in S /\ UpOnce(p, m) = m
  <2>1. /\ Ups(p, h, i)[N] \in S
        /\ N >= mu[s] => UpOnce(p, Ups(p, h, i)[N]) = Ups(p, h, i)[N]
    BY <1>1, <1>2, <1>3, UpsLoop
  <2> QED BY <2>1, <1>2, <1>4 DEF MoveUp
<1> HIDE DEF m
<1>6. /\ m.heap \in Heaps(N, C) /\ m.at \in 1..i /\ m.at \in 1..N
      /\ m.at = i => m.heap = h
      /\ ord => Slack(Ranks(p, m.heap.array), N, m.at)
      /\ ord /\ m.at # i => BelowOK(Ranks(p, m.heap.array), N, m.at)
  BY <1>5 DEF S, UpStates
<1>7. AboveOK(Ranks(p, m.heap.array), N, m.at)
  <2>1. CASE m.at \in 2..N /\ UpOnce(p, m) = [heap |-> Swap(m.heap, m.at, m.at \div 2), at |-> m.at \div 2]
    <3>1. m.at \div 2 # m.at
      BY <2>1, Halves
    <3>2. m.at = m.at \div 2
      BY <2>1, <1>5
    <3> QED BY <3>1, <3>2
  <2> QED BY <1>6, <2>1, UpRound
<1>8. ord /\ m.at # i => InOrder(p, m.heap.array)
  <2>1. ASSUME ord, m.at # i PROVE Tidy(Ranks(p, m.heap.array), N)
    <3>1. Ranks(p, m.heap.array) \in [1..N -> Int]
      BY <1>6, RanksOf
    <3>2. m.at \in Nat \ {0}
      BY <1>6
    <3> QED BY <1>6, <1>7, <2>1, <3>1, <3>2, TidyFrom
  <2> QED BY <1>6, <2>1, RanksOf
<1> QED BY <1>6, <1>7, <1>8 DEF m

\* The best child ranks no lower than its sibling.
LEMMA BestChildIs ==
  ASSUME NEW N \in Nat, NEW C, NEW p \in [Ids -> Priorities], NEW h \in Heaps(N, C),
         NEW i \in Nat \ {0}, 2 * i <= N
  PROVE  LET c == BestChild(p, h.array, i)
             r == Ranks(p, h.array)
         IN  /\ c \in 2..N /\ c \div 2 = i /\ i \in 1..N
             /\ \A d \in 2..N : d \div 2 = i => r[c] <= r[d]
<1> DEFINE c == BestChild(p, h.array, i)
           r == Ranks(p, h.array)
<1>1. /\ r \in [1..N -> Int]
      /\ \A j, k \in 1..N : Above(p, h.array[j], h.array[k]) <=> r[j] < r[k]
  BY RanksOf
<1>2. Len(h.array) = N
  BY HeapFacts
<1> HIDE DEF r
<1>3. i \in 1..N /\ 2 * i \in 2..N /\ r[2 * i] \in Int
  BY <1>1
<1>4. \A d \in 2..N : d \div 2 = i => d = 2 * i \/ d = 2 * i + 1
  BY Halves
<1>5. CASE 2 * i + 1 <= N
  <2>1. 2 * i + 1 \in 2..N /\ r[2 * i + 1] \in Int
    BY <1>1, <1>3, <1>5
  <2>2. c = IF r[2 * i + 1] < r[2 * i] THEN 2 * i + 1 ELSE 2 * i
    BY <1>1, <1>2, <1>3, <1>5, <2>1 DEF BestChild
  <2> HIDE DEF c
  <2>3. c \in 2..N /\ c \div 2 = i
    BY <1>3, <2>1, <2>2
  <2>4. \A d \in 2..N : d \div 2 = i => r[c] <= r[d]
    BY <1>3, <1>4, <2>1, <2>2
  <2> QED BY <1>3, <2>3, <2>4 DEF c, r
<1>6. CASE ~(2 * i + 1 <= N)
  <2>1. c = 2 * i
    BY <1>2, <1>6 DEF BestChild
  <2> HIDE DEF c
  <2>2. c \in 2..N /\ c \div 2 = i
    BY <1>3, <2>1
  <2>3. \A d \in 2..N : d \div 2 = i => r[c] <= r[d]
    BY <1>3, <1>4, <1>6, <2>1
  <2> QED BY <1>3, <2>2, <2>3 DEF c, r
<1> QED BY <1>5, <1>6

\* One round of moveDown: no child is above the item, or the best one takes its place.
LEMMA DownRound ==
  ASSUME NEW N \in Nat, NEW C, NEW p \in [Ids -> Priorities],
         NEW m, m.heap \in Heaps(N, C), m.at \in Nat \ {0}
  PROVE  LET r == Ranks(p, m.heap.array)
             c == BestChild(p, m.heap.array, m.at)
         IN
         \/ DownOnce(p, m) = m /\ BelowOK(r, N, m.at)
         \/ /\ 2 * m.at <= N /\ r[c] < r[m.at]
            /\ DownOnce(p, m) = [heap |-> Swap(m.heap, m.at, c), at |-> c]
<1> DEFINE r == Ranks(p, m.heap.array)
           c == BestChild(p, m.heap.array, m.at)
<1>1. /\ r \in [1..N -> Int]
      /\ \A j, k \in 1..N : Above(p, m.heap.array[j], m.heap.array[k]) <=> r[j] < r[k]
  BY RanksOf
<1>2. Len(m.heap.array) = N
  BY HeapFacts
<1>3. CASE ~(2 * m.at <= N)
  <2>1. DownOnce(p, m) = m
    BY <1>2, <1>3 DEF DownOnce
  <2>2. BelowOK(r, N, m.at)
    <3> HIDE DEF r
    <3>1. \A d \in 2..N : d \div 2 # m.at
      BY <1>3, Halves
    <3> QED BY <3>1 DEF BelowOK
  <2> QED BY <2>1, <2>2
<1>4. CASE 2 * m.at <= N
  <2>1. /\ c \in 2..N /\ c \div 2 = m.at /\ m.at \in 1..N
        /\ \A d \in 2..N : d \div 2 = m.at => r[c] <= r[d]
    BY <1>4, BestChildIs
  <2> HIDE DEF r, c
  <2>2. r[c] \in Int /\ r[m.at] \in Int
    BY <1>1, <2>1
  <2>3. Above(p, m.heap.array[c], m.heap.array[m.at]) <=> r[c] < r[m.at]
    BY <1>1, <2>1
  <2>4. CASE r[c] < r[m.at]
    BY <1>2, <1>4, <2>3, <2>4 DEF DownOnce, c, r
  <2>5. CASE ~(r[c] < r[m.at])
    <3>1. DownOnce(p, m) = m
      BY <2>3, <2>5 DEF DownOnce, c
    <3>2. BelowOK(r, N, m.at)
      <4>1. ASSUME NEW d \in 2..N, d \div 2 = m.at PROVE r[m.at] <= r[d]
        <5>1. r[d] \in Int /\ r[c] <= r[d]
          BY <1>1, <2>1, <4>1
        <5> QED BY <5>1, <2>2, <2>5
      <4> QED BY <4>1 DEF BelowOK
    <3> QED BY <3>1, <3>2 DEF r
  <2> QED BY <2>4, <2>5
<1> QED BY <1>3, <1>4

LEMMA SwapWithChild ==
  ASSUME NEW N \in Nat, NEW C, NEW p \in [Ids -> Priorities], NEW h \in Heaps(N, C),
         NEW i \in Nat \ {0}, 2 * i <= N,
         Ranks(p, h.array)[BestChild(p, h.array, i)] < Ranks(p, h.array)[i]
  PROVE  LET c == BestChild(p, h.array, i)
             w == Swap(h, i, c)
         IN
         /\ w \in Heaps(N, C)
         /\ Slack(Ranks(p, h.array), N, i) /\ AboveOK(Ranks(p, h.array), N, i) =>
              Slack(Ranks(p, w.array), N, c) /\ AboveOK(Ranks(p, w.array), N, c)
<1> DEFINE c == BestChild(p, h.array, i)
           r == Ranks(p, h.array)
           w == Swap(h, i, c)
<1>1. /\ c \in 2..N /\ c \div 2 = i /\ i \in 1..N
      /\ \A d \in 2..N : d \div 2 = i => r[c] <= r[d]
  BY BestChildIs
<1>2. r[c] < r[i]
  OBVIOUS
<1> HIDE DEF c, r
<1>3. c \in 1..N /\ i # c
  BY <1>1, Halves
<1>4. w \in Heaps(N, C) /\ Exchanged(p, N, h.array, w.array, i, c)
  BY <1>1, <1>3, SwapRanks
<1> HIDE DEF w
<1>5. Slack(r, N, i) /\ AboveOK(r, N, i) =>
        Slack(Ranks(p, w.array), N, c) /\ AboveOK(Ranks(p, w.array), N, c)
  <2> DEFINE q == Ranks(p, w.array)
  <2>1. r \in [1..N -> Int] /\ q \in [1..N -> Int] /\ Switched(q, r, N, i, c)
    BY <1>4 DEF Exchanged, r
  <2> HIDE DEF q
  <2>2. LeastChild(r, N, i, c)
    BY <1>1 DEF LeastChild
  <2>3. Slack(r, N, i) /\ AboveOK(r, N, i) => Slack(q, N, c) /\ AboveOK(q, N, c)
    <3>1. c \in 2..N /\ i \in 1..N /\ Parent(c) = i
      BY <1>1 DEF Parent
    <3> QED BY <3>1, <1>2, <2>1, <2>2, SwapDown
  <2> QED BY <2>3 DEF q
<1> QED BY <1>4, <1>5 DEF w, c, r

\* The states of moveDown.
DownStates(p, N, C, ord) ==
  {m \in [heap : Heaps(N, C), at : Nat \ {0}] :
     ord => Slack(Ranks(p, m.heap.array), N, m.at) /\ AboveOK(Ranks(p, m.heap.array), N, m.at)}

LEMMA DownBody ==
  ASSUME NEW N \in Nat, NEW C, NEW p \in [Ids -> Priorities], NEW ord \in BOOLEAN
  PROVE  LET S == DownStates(p, N, C, ord)
         IN  DownKeeps(S, p, [m \in S |-> IF m.at <= N THEN N - m.at ELSE 0])
<1> DEFINE S == DownStates(p, N, C, ord)
           mu == [m \in S |-> IF m.at <= N THEN N - m.at ELSE 0]
<1>1. ASSUME NEW m \in S
      PROVE  DownOnce(p, m) \in S /\ (DownOnce(p, m) = m \/ mu[DownOnce(p, m)] < mu[m])
  <2> DEFINE r == Ranks(p, m.heap.array)
             c == BestChild(p, m.heap.array, m.at)
             w == Swap(m.heap, m.at, c)
  <2>1. /\ m.heap \in Heaps(N, C) /\ m.at \in Nat \ {0}
        /\ ord => Slack(r, N, m.at) /\ AboveOK(r, N, m.at)
    BY DEF DownStates
  <2>2. CASE DownOnce(p, m) = m
    BY <2>2
  <2>3. CASE 2 * m.at <= N /\ r[c] < r[m.at] /\ DownOnce(p, m) = [heap |-> w, at |-> c]
    <3>1. c \in 2..N /\ c \div 2 = m.at
      BY <2>1, <2>3, BestChildIs
    <3>2. /\ w \in Heaps(N, C)
          /\ Slack(r, N, m.at) /\ AboveOK(r, N, m.at) =>
               Slack(Ranks(p, w.array), N, c) /\ AboveOK(Ranks(p, w.array), N, c)
      BY <2>1, <2>3, SwapWithChild
    <3>3. ord => Slack(Ranks(p, w.array), N, c) /\ AboveOK(Ranks(p, w.array), N, c)
      BY <2>1, <3>2
    <3> HIDE DEF w, c
    <3>4. [heap |-> w, at |-> c] \in S
      BY <3>1, <3>2, <3>3 DEF DownStates
    <3> HIDE DEF S
    <3>5. mu[[heap |-> w, at |-> c]] = (IF c <= N THEN N - c ELSE 0)
      BY <3>4
    <3>6. mu[m] = (IF m.at <= N THEN N - m.at ELSE 0)
      OBVIOUS
    <3>7. m.at < c /\ c <= N
      BY <2>1, <3>1, Halves
    <3> HIDE DEF mu
    <3>8. mu[[heap |-> w, at |-> c]] < mu[m]
      BY <2>1, <3>1, <3>5, <3>6, <3>7
    <3> QED BY <2>3, <3>4, <3>8
  <2> QED BY <2>1, <2>2, <2>3, DownRound
<1> QED BY <1>1 DEF DownKeeps

\* moveDown ends with a heap of the same items and an exact index, and in order if
\* only the items below i were out of order.
LEMMA MoveDownResult ==
  ASSUME NEW N \in Nat, NEW C, NEW p \in [Ids -> Priorities], NEW h \in Heaps(N, C),
         NEW i \in Nat \ {0}, NEW ord \in BOOLEAN,
         ord => Slack(Ranks(p, h.array), N, i) /\ AboveOK(Ranks(p, h.array), N, i)
  PROVE  MoveDown(p, h, i) \in Heaps(N, C) /\ (ord => InOrder(p, MoveDown(p, h, i).array))
<1> DEFINE S == DownStates(p, N, C, ord)
           mu == [x \in S |-> IF x.at <= N THEN N - x.at ELSE 0]
           s == [heap |-> h, at |-> i]
           m == Downs(p, h, i)[N]
<1>1. s \in S
  BY DEF DownStates
<1>2. mu \in [S -> Nat] /\ N >= mu[s]
  <2>1. \A x \in S : x.at \in Nat
    BY DEF DownStates
  <2> HIDE DEF S
  <2> QED BY <1>1, <2>1
<1>3. DownKeeps(S, p, mu)
  BY DownBody
<1> HIDE DEF S, mu
<1>4. MoveDown(p, h, i) = m.heap
  <2>1. Len(h.array) = N
    BY HeapFacts
  <2> QED BY <2>1 DEF MoveDown
<1>5. m \in S /\ DownOnce(p, m) = m
  BY <1>1, <1>2, <1>3, DownsLoop
<1> HIDE DEF m
<1>6. /\ m.heap \in Heaps(N, C) /\ m.at \in Nat \ {0}
      /\ ord => Slack(Ranks(p, m.heap.array), N, m.at) /\ AboveOK(Ranks(p, m.heap.array), N, m.at)
  BY <1>5 DEF S, DownStates
<1>7. BelowOK(Ranks(p, m.heap.array), N, m.at)
  <2> DEFINE c == BestChild(p, m.heap.array, m.at)
  <2>1. CASE 2 * m.at <= N /\ DownOnce(p, m) = [heap |-> Swap(m.heap, m.at, c), at |-> c]
    <3>1. c \in 2..N /\ c \div 2 = m.at
      BY <1>6, <2>1, BestChildIs
    <3>2. m.at = c
      BY <2>1, <1>5
    <3> HIDE DEF c
    <3> QED BY <3>1, <3>2, Halves
  <2> QED BY <1>6, <2>1, DownRound
<1>8. ord => InOrder(p, m.heap.array)
  <2>1. ASSUME ord PROVE Tidy(Ranks(p, m.heap.array), N)
    <3>1. Ranks(p, m.heap.array) \in [1..N -> Int]
      BY <1>6, RanksOf
    <3> QED BY <1>6, <1>7, <2>1, <3>1, TidyFrom
  <2> QED BY <1>6, <2>1, RanksOf
<1> QED BY <1>4, <1>6, <1>8

-----------------------------------------------------------------------------
(* What the operations of the heap do                                      *)

\* The item at i leaves, and the last one takes its place.
LEMMA VacateResult ==
  ASSUME NEW N \in Nat, NEW C, NEW h \in Heaps(N, C), NEW i \in 1..N
  PROVE  LET w == Vacate(h, i) IN
         /\ w \in Heaps(N - 1, C \ {h.array[i]})
         /\ \A j \in 1..(N - 1) : j # i => w.array[j] = h.array[j]
<1>1. /\ h.array \in Seq(Ids) /\ h.array \in [1..N -> C] /\ DOMAIN h.array = 1..N
      /\ Len(h.array) = N
      /\ C \subseteq Ids /\ h.idxOf \in [C -> Nat]
      /\ \A j \in 1..N : h.idxOf[h.array[j]] = j
      /\ \A j, k \in 1..N : h.array[j] = h.array[k] => j = k
      /\ \A v \in C : h.idxOf[v] \in 1..N /\ h.array[h.idxOf[v]] = v
  BY HeapFacts
<1> DEFINE M == N - 1
           D == C \ {h.array[i]}
           e == [h.array EXCEPT ![i] = h.array[N]]
           a == SubSeq(e, 1, M)
           g == Forget(h.idxOf, h.array[i])
           x == IF i = N THEN g ELSE [g EXCEPT ![h.array[N]] = i]
<1>2. Vacate(h, i) = [array |-> a, idxOf |-> x]
  BY <1>1 DEF Vacate
<1>3. M \in Nat /\ N \in 1..N /\ 1..M \subseteq 1..N /\ D \subseteq Ids /\ N \notin 1..M
  BY <1>1
<1>4. e \in Seq(Ids) /\ Len(e) = N /\ e[i] = h.array[N] /\ \A j \in 1..N : j # i => e[j] = h.array[j]
  <2>1. e \in [1..N -> Ids]
    BY <1>1, <1>3
  <2>2. e[i] = h.array[N] /\ \A j \in 1..N : j # i => e[j] = h.array[j]
    BY <1>1
  <2> HIDE DEF e
  <2> QED BY <2>1, <2>2, SeqDef, LenProperties
<1> HIDE DEF e
<1>5. a \in [1..M -> Ids] /\ \A j \in 1..M : a[j] = e[j]
  <2>1. a = [j \in 1..M |-> e[j]]
    BY <1>3, <1>4
  <2>2. \A j \in 1..M : e[j] \in Ids
    BY <1>3, <1>4
  <2> QED BY <2>1, <2>2
<1> HIDE DEF a
<1>6. \A j \in 1..M : a[j] = IF j = i THEN h.array[N] ELSE h.array[j]
  BY <1>3, <1>4, <1>5
<1>7. a \in [1..M -> D]
  <2>1. ASSUME NEW j \in 1..M PROVE a[j] \in D
    <3>1. CASE j = i
      <4>1. a[j] = h.array[N] /\ i # N
        BY <1>3, <1>6, <3>1
      <4>2. h.array[N] \in C /\ h.array[N] # h.array[i]
        BY <1>1, <1>3, <4>1
      <4> QED BY <4>1, <4>2
    <3>2. CASE j # i
      <4>1. a[j] = h.array[j] /\ h.array[j] \in C /\ h.array[j] # h.array[i]
        BY <1>1, <1>3, <1>6, <3>2
      <4> QED BY <4>1
    <3> QED BY <3>1, <3>2
  <2> HIDE DEF D
  <2> QED BY <1>5, <2>1
<1>8. ASSUME NEW v \in D PROVE \E j \in 1..M : v = a[j]
  <2>1. PICK k \in 1..N : v = h.array[k]
    BY <1>1
  <2>2. k # i
    BY <2>1
  <2>3. CASE k = N
    <3>1. i \in 1..M /\ a[i] = h.array[N]
      BY <1>6, <2>2, <2>3
    <3> QED BY <3>1, <2>1, <2>3
  <2>4. CASE k # N
    <3>1. k \in 1..M /\ a[k] = h.array[k]
      BY <1>6, <2>2, <2>4
    <3> QED BY <3>1, <2>1
  <2> QED BY <2>3, <2>4
<1>9. g \in [D -> Nat] /\ \A v \in D : g[v] = h.idxOf[v]
  BY <1>1 DEF Forget
<1> HIDE DEF g
<1>10. x \in [D -> Nat] /\ \A j \in 1..M : x[a[j]] = j
  <2>1. CASE i = N
    <3>1. ASSUME NEW j \in 1..M PROVE x[a[j]] = j
      <4>1. a[j] = h.array[j] /\ a[j] \in D /\ j \in 1..N
        BY <1>3, <1>6, <1>7, <2>1
      <4> QED BY <4>1, <2>1, <1>1, <1>9
    <3> QED BY <3>1, <2>1, <1>9
  <2>2. CASE i # N
    <3>1. i \in 1..M /\ a[i] = h.array[N] /\ h.array[N] \in D
      BY <1>3, <1>6, <1>7, <2>2
    <3>2. x = [g EXCEPT ![h.array[N]] = i]
      BY <2>2
    <3> HIDE DEF x
    <3>3. x \in [D -> Nat] /\ x[a[i]] = i
      BY <1>9, <3>1, <3>2
    <3>4. ASSUME NEW j \in 1..M, j # i PROVE x[a[j]] = j
      <4>1. a[j] = h.array[j] /\ a[j] \in D /\ j \in 1..N /\ h.array[j] # h.array[N]
        BY <1>1, <1>3, <1>6, <1>7, <3>4
      <4>2. x[a[j]] = g[a[j]]
        BY <1>9, <3>2, <4>1
      <4> QED BY <4>1, <4>2, <1>1, <1>9
    <3> QED BY <3>3, <3>4
  <2> QED BY <2>1, <2>2
<1> HIDE DEF x, D, M
<1>11. [array |-> a, idxOf |-> x] \in Heaps(M, D)
  BY <1>3, <1>7, <1>8, <1>10, HeapMade
<1>12. \A j \in 1..M : j # i => a[j] = h.array[j]
  BY <1>6
<1> QED BY <1>2, <1>11, <1>12 DEF M, D

\* pop and delete take one item out; pop leaves the heap in order.
LEMMA TakenOutResult ==
  ASSUME NEW N \in Nat, NEW C, NEW p \in [Ids -> Priorities], NEW h \in Heaps(N, C),
         NEW i \in 1..N
  PROVE  /\ TakenOut(p, h, i) \in Heaps(N - 1, C \ {h.array[i]})
         /\ i = 1 /\ InOrder(p, h.array) => InOrder(p, TakenOut(p, h, i).array)
<1> DEFINE w == Vacate(h, i)
           M == N - 1
           D == C \ {h.array[i]}
           ord == i = 1 /\ InOrder(p, h.array)
           r == Ranks(p, h.array)
           q == Ranks(p, w.array)
<1>1. w \in Heaps(M, D) /\ \A j \in 1..M : j # i => w.array[j] = h.array[j]
  BY VacateResult
<1>2. M \in Nat /\ 1..M \subseteq 1..N
  OBVIOUS
<1>3. ord \in BOOLEAN /\ i \in Nat \ {0}
  BY DEF InOrder
<1> HIDE DEF w, M, D
<1>4. ASSUME ord PROVE Slack(q, M, i) /\ AboveOK(q, M, i)
  <2>1. /\ \A j \in 1..N : r[j] = p[h.array[j]]
        /\ Tidy(r, N)
    BY <1>4, RanksOf
  <2>2. \A j \in 1..M : q[j] = p[w.array[j]]
    BY <1>1, <1>2, RanksOf
  <2> HIDE DEF q, r
  <2>3. i = 1
    BY <1>4
  <2>4. ASSUME NEW j \in 2..M, j # i, j \div 2 # i PROVE q[j \div 2] <= q[j]
    <3>1. j \in 2..N /\ j \in 1..M /\ j \div 2 \in 1..M
      BY <1>2, Halves
    <3>2. q[j] = r[j] /\ q[j \div 2] = r[j \div 2]
      BY <1>1, <1>2, <2>1, <2>2, <2>4, <3>1
    <3> QED BY <2>1, <3>1, <3>2 DEF Tidy
  <2> QED BY <2>3, <2>4 DEF Slack, AboveOK
<1>5. ord => Slack(q, M, i) /\ AboveOK(q, M, i)
  BY <1>4
<1> HIDE DEF ord
<1>6. MoveDown(p, w, i) \in Heaps(M, D) /\ (ord => InOrder(p, MoveDown(p, w, i).array))
  BY <1>1, <1>2, <1>3, <1>5, MoveDownResult
<1> QED BY <1>6 DEF TakenOut, w, M, D, ord

\* push adds one item and leaves the heap in order.
LEMMA PushedResult ==
  ASSUME NEW N \in Nat, NEW C, NEW p \in [Ids -> Priorities], NEW h \in Heaps(N, C),
         NEW v \in Ids \ C
  PROVE  /\ Pushed(p, h, v) \in Heaps(N + 1, C \cup {v})
         /\ InOrder(p, h.array) => InOrder(p, Pushed(p, h, v).array)
<1> DEFINE n == N + 1
           D == C \cup {v}
           a == Append(h.array, v)
           x == [u \in DOMAIN h.idxOf \cup {v} |-> IF u = v THEN n ELSE h.idxOf[u]]
           w == [array |-> a, idxOf |-> x]
           ord == InOrder(p, h.array)
           r == Ranks(p, h.array)
           q == Ranks(p, a)
           m == MoveUp(p, w, n)
<1>1. /\ h.array \in Seq(Ids) /\ h.array \in [1..N -> C] /\ Len(h.array) = N
      /\ C \subseteq Ids /\ h.idxOf \in [C -> Nat]
      /\ \A j \in 1..N : h.idxOf[h.array[j]] = j
      /\ \A u \in C : h.idxOf[u] \in 1..N /\ h.array[h.idxOf[u]] = u
  BY HeapFacts
<1>2. /\ n \in Nat /\ n \in 1..n /\ D \subseteq Ids
      /\ \A j \in 1..n : j = n \/ j \in 1..N
  BY <1>1
<1>3. /\ a \in [1..n -> D] /\ a[n] = v /\ \A j \in 1..N : a[j] = h.array[j]
  <2>1. a \in Seq(Ids) /\ Len(a) = n /\ a[n] = v /\ \A j \in 1..N : a[j] = h.array[j]
    BY <1>1, AppendProperties
  <2>2. DOMAIN a = 1..n
    BY <2>1, LenProperties
  <2>3. ASSUME NEW j \in 1..n PROVE a[j] \in D
    <3> HIDE DEF a
    <3>1. CASE j = n
      BY <2>1, <3>1
    <3>2. CASE j # n
      <4>1. j \in 1..N /\ h.array[j] \in C
        BY <1>1, <1>2, <3>2
      <4> QED BY <4>1, <2>1
    <3> QED BY <3>1, <3>2
  <2>4. a = [j \in 1..n |-> a[j]]
    BY <2>1, <2>2
  <2> HIDE DEF a, D, n
  <2> QED BY <2>1, <2>3, <2>4
<1>4. x \in [D -> Nat] /\ x[v] = n /\ \A u \in C : x[u] = h.idxOf[u]
  BY <1>1, <1>2
<1> HIDE DEF a, x, D, n
<1>5. \A u \in D : \E j \in 1..n : u = a[j]
  <2>1. ASSUME NEW u \in C PROVE \E j \in 1..n : u = a[j]
    <3>1. h.idxOf[u] \in 1..N /\ a[h.idxOf[u]] = u
      BY <1>1, <1>3
    <3>2. 1..N \subseteq 1..n
      BY DEF n
    <3> QED BY <3>1, <3>2
  <2> QED BY <1>2, <1>3, <2>1 DEF D
<1>6. ASSUME NEW j \in 1..n PROVE x[a[j]] = j
  <2>1. CASE j = n
    BY <1>3, <1>4, <2>1
  <2>2. CASE j # n
    <3>1. j \in 1..N
      BY <1>2, <2>2
    <3>2. a[j] = h.array[j] /\ h.array[j] \in C /\ h.idxOf[h.array[j]] = j
      BY <1>1, <1>3, <3>1
    <3> QED BY <1>4, <3>2
  <2> QED BY <2>1, <2>2
<1>7. w \in Heaps(n, D)
  BY <1>2, <1>3, <1>4, <1>5, <1>6, HeapMade
<1>8. w.array = a
  OBVIOUS
<1> HIDE DEF w
<1>9. q \in [1..n -> Int] /\ \A j \in 1..n : q[j] = p[a[j]]
  <2> DEFINE s == Ranks(p, w.array)
  <2> HIDE DEF ord, q, r
  <2>1. n \in Nat /\ w \in Heaps(n, D)
    BY <1>2, <1>7
  <2>2. s \in [1..n -> Int] /\ \A j \in 1..n : s[j] = p[w.array[j]]
    BY <2>1, RanksOf
  <2> QED BY <1>8, <2>2 DEF q
<1>10. ASSUME ord PROVE Slack(q, n, n)
  <2>1. Tidy(r, N) /\ \A j \in 1..N : r[j] = p[h.array[j]]
    BY <1>10, RanksOf
  <2> HIDE DEF q, r
  <2>2. ASSUME NEW j \in 2..n, j # n, j \div 2 # n PROVE q[j \div 2] <= q[j]
    <3>1. j \in 2..N /\ j \in 1..N /\ j \div 2 \in 1..N /\ j \in 1..n /\ j \div 2 \in 1..n
      BY <2>2, Halves DEF n
    <3>2. q[j] = r[j] /\ q[j \div 2] = r[j \div 2]
      BY <1>3, <1>9, <2>1, <3>1
    <3> QED BY <2>1, <3>1, <3>2 DEF Tidy
  <2>3. ASSUME NEW c \in 2..n PROVE c \div 2 # n
    BY <1>2, Halves
  <2> QED BY <2>2, <2>3 DEF Slack
<1>11. ord \in BOOLEAN
  BY DEF InOrder
<1>12. ord => Slack(Ranks(p, w.array), n, n)
  BY <1>8, <1>10
<1> HIDE DEF ord
<1>13. /\ m.heap \in Heaps(n, D)
       /\ m.at = n => m.heap = w
       /\ ord /\ m.at = n => AboveOK(Ranks(p, w.array), n, n)
       /\ ord /\ m.at # n => InOrder(p, m.heap.array)
  BY <1>2, <1>7, <1>11, <1>12, MoveUpResult
<1> HIDE DEF m
<1>14. ASSUME ord, m.at = n PROVE InOrder(p, m.heap.array)
  <2>1. AboveOK(q, n, n) /\ Slack(q, n, n)
    BY <1>8, <1>12, <1>13, <1>14
  <2>2. BelowOK(q, n, n)
    <3>1. ASSUME NEW c \in 2..n PROVE c \div 2 # n
      BY <1>2, Halves
    <3> QED BY <3>1 DEF BelowOK
  <2>3. n \in Nat \ {0}
    BY <1>2
  <2> HIDE DEF q
  <2>4. Tidy(q, n)
    BY <1>2, <1>9, <2>1, <2>2, <2>3, TidyFrom
  <2>5. InOrder(p, w.array)
    BY <1>2, <1>7, <1>8, <2>4, RanksOf DEF q
  <2> QED BY <1>13, <1>14, <2>5
<1>15. Pushed(p, h, v) = m.heap
  BY <1>1 DEF Pushed, m, w, a, x, n
<1> QED BY <1>13, <1>14, <1>15 DEF ord, n, D

\* The priority of v changes from q to p, and updateItem puts the heap in order.
LEMMA UpdatedResult ==
  ASSUME NEW N \in Nat, NEW C, NEW p \in [Ids -> Priorities], NEW q \in [Ids -> Priorities],
         NEW h \in Heaps(N, C), NEW v \in C, \A u \in Ids : u # v => p[u] = q[u]
  PROVE  /\ Updated(p, h, v) \in Heaps(N, C)
         /\ InOrder(q, h.array) => InOrder(p, Updated(p, h, v).array)
<1> DEFINE i == h.idxOf[v]
           ord == InOrder(q, h.array)
           r == Ranks(p, h.array)
           o == Ranks(q, h.array)
           m == MoveUp(p, h, i)
<1>1. /\ i \in 1..N /\ h.array[i] = v
      /\ \A j \in 1..N : h.array[j] \in Ids /\ h.idxOf[h.array[j]] = j
  <2>1. C \subseteq Ids /\ h.array \in [1..N -> C]
    BY HeapFacts
  <2>2. i \in 1..N /\ h.array[i] = v /\ \A j \in 1..N : h.idxOf[h.array[j]] = j
    BY HeapFacts
  <2> QED BY <2>1, <2>2
<1>2. \A j \in 1..N : j # i => h.array[j] # v
  BY <1>1
<1> HIDE DEF i
<1>3. ASSUME ord PROVE Slack(r, N, i)
  <2>1. Tidy(o, N) /\ o \in [1..N -> Int] /\ \A j \in 1..N : o[j] = q[h.array[j]]
    BY <1>3, RanksOf
  <2>2. \A j \in 1..N : r[j] = p[h.array[j]]
    BY RanksOf
  <2> HIDE DEF r, o
  <2>3. \A j \in 1..N : j # i => r[j] = o[j]
    BY <1>1, <1>2, <2>1, <2>2
  <2>4. Slack(o, N, i)
    BY <1>1, <2>1, TidyIs
  <2>5. ASSUME NEW j \in 2..N, j # i, j \div 2 # i PROVE r[j \div 2] <= r[j]
    <3>1. j \in 1..N /\ j \div 2 \in 1..N
      BY Halves
    <3> QED BY <2>3, <2>4, <2>5, <3>1 DEF Slack
  <2>6. ASSUME i >= 2, NEW c \in 2..N, c \div 2 = i PROVE r[i \div 2] <= r[c]
    <3>1. c \in 1..N /\ c # i /\ i \div 2 \in 1..N /\ i \div 2 # i
      BY <1>1, <2>6, Halves
    <3>2. r[c] = o[c] /\ r[i \div 2] = o[i \div 2]
      BY <2>3, <3>1
    <3> QED BY <2>4, <2>6, <3>2 DEF Slack
  <2> QED BY <2>5, <2>6 DEF Slack
<1>4. ord \in BOOLEAN /\ (ord => Slack(r, N, i))
  BY <1>3 DEF InOrder
<1> HIDE DEF ord
<1>5. /\ m.heap \in Heaps(N, C)
      /\ ord /\ m.at = i => AboveOK(r, N, i)
      /\ ord /\ m.at # i => InOrder(p, m.heap.array)
  BY <1>1, <1>4, MoveUpResult
<1> HIDE DEF m, r
<1>6. Updated(p, h, v) = IF m.at = i THEN MoveDown(p, h, i) ELSE m.heap
  BY DEF Updated, m, i
<1>7. CASE m.at = i
  <2>1. ord => Slack(Ranks(p, h.array), N, i) /\ AboveOK(Ranks(p, h.array), N, i)
    BY <1>4, <1>5, <1>7 DEF r
  <2>2. i \in Nat \ {0}
    BY <1>1
  <2>3. MoveDown(p, h, i) \in Heaps(N, C) /\ (ord => InOrder(p, MoveDown(p, h, i).array))
    BY <1>4, <2>1, <2>2, MoveDownResult
  <2> QED BY <1>6, <1>7, <2>3 DEF ord
<1>8. CASE m.at # i
  BY <1>5, <1>6, <1>8 DEF ord
<1> QED BY <1>7, <1>8

-----------------------------------------------------------------------------
(* The heap by itself                                                      *)

LEMMA HeapIs ==
  ASSUME HeapInv
  PROVE  /\ Len(array) \in Nat /\ heap \in Heaps(Len(array), Contents(array))
         /\ prio \in [Ids -> Priorities] /\ Contents(array) \subseteq Ids
<1>1. Len(array) \in Nat /\ Contents(array) \subseteq Ids
  BY DEF HeapInv, Contents
<1>2. heap \in Heaps(Len(array), Contents(array))
  BY <1>1 DEF HeapInv, IndexExact, Exact, Heaps, heap
<1> QED BY <1>1, <1>2 DEF HeapInv

LEMMA HeapBecomes ==
  ASSUME NEW N \in Nat, NEW C, NEW h \in Heaps(N, C), Becomes(h), prio' \in [Ids -> Priorities]
  PROVE  HeapInv' /\ array' = h.array /\ Len(array') = N /\ Contents(array') = C
<1>1. /\ h.array \in Seq(Ids) /\ Len(h.array) = N /\ Contents(h.array) = C
      /\ h.idxOf \in [C -> Nat] /\ Exact(h) /\ h = [array |-> h.array, idxOf |-> h.idxOf]
  BY HeapFacts
<1>2. array' = h.array /\ idxOf' = h.idxOf
  BY DEF Becomes
<1>3. heap' = h
  BY <1>1, <1>2 DEF heap
<1> QED BY <1>1, <1>2, <1>3 DEF HeapInv, IndexExact

\* The order depends on the priorities of the items in the heap only.
LEMMA OrderOfContents ==
  ASSUME NEW N \in Nat, NEW C, NEW h \in Heaps(N, C),
         NEW p \in [Ids -> Priorities], NEW q \in [Ids -> Priorities]
  PROVE  (\A u \in C : p[u] = q[u]) => (InOrder(p, h.array) <=> InOrder(q, h.array))
<1>1. h.array \in [1..N -> C]
  BY HeapFacts
<1>2. /\ Ranks(p, h.array) \in [1..N -> Int] /\ \A j \in 1..N : Ranks(p, h.array)[j] = p[h.array[j]]
      /\ InOrder(p, h.array) <=> Tidy(Ranks(p, h.array), N)
  BY RanksOf
<1>3. /\ Ranks(q, h.array) \in [1..N -> Int] /\ \A j \in 1..N : Ranks(q, h.array)[j] = q[h.array[j]]
      /\ InOrder(q, h.array) <=> Tidy(Ranks(q, h.array), N)
  BY RanksOf
<1> SUFFICES ASSUME \A u \in C : p[u] = q[u] PROVE InOrder(p, h.array) <=> InOrder(q, h.array)
  OBVIOUS
<1>4. \A j \in 1..N : Ranks(p, h.array)[j] = Ranks(q, h.array)[j]
  <2> TAKE j \in 1..N
  <2>1. h.array[j] \in C
    BY <1>1
  <2> QED BY <2>1, <1>2, <1>3
<1>5. Ranks(p, h.array) = Ranks(q, h.array)
  BY <1>2, <1>3, <1>4
<1> QED BY <1>2, <1>3, <1>5

LEMMA PushKeeps ==
  ASSUME HeapInv, NEW v \in Ids, NEW p \in Priorities, Push(v, p)
  PROVE  /\ HeapInv' /\ Contents(array') = Contents(array) \cup {v}
         /\ InOrder(prio, array) => InOrder(prio', array')
<1> DEFINE N == Len(array)
           C == Contents(array)
<1>1. N \in Nat /\ heap \in Heaps(N, C) /\ heap.array = array /\ prio \in [Ids -> Priorities]
  BY HeapIs DEF heap
<1>2. v \in Ids \ C /\ Becomes(Pushed(prio', heap, v)) /\ prio' = [prio EXCEPT ![v] = p]
  BY DEF Push
<1>3. prio' \in [Ids -> Priorities]
  BY <1>1, <1>2
<1>4. C \subseteq Ids /\ \A u \in C : prio[u] = prio'[u]
  BY <1>1, <1>2, HeapIs
<1> DEFINE h == Pushed(prio', heap, v)
<1> HIDE DEF N, C
<1>5. InOrder(prio, array) <=> InOrder(prio', array)
  <2>1. InOrder(prio, heap.array) <=> InOrder(prio', heap.array)
    BY <1>1, <1>3, <1>4, OrderOfContents
  <2> QED BY <2>1, <1>1
<1>6. /\ h \in Heaps(N + 1, C \cup {v})
      /\ InOrder(prio', array) => InOrder(prio', h.array)
  <2>1. InOrder(prio', heap.array) => InOrder(prio', h.array)
    BY <1>1, <1>2, <1>3, PushedResult
  <2>2. h \in Heaps(N + 1, C \cup {v})
    BY <1>1, <1>2, <1>3, PushedResult
  <2> QED BY <2>1, <2>2, <1>1
<1> HIDE DEF h
<1>7. HeapInv' /\ array' = h.array /\ Contents(array') = C \cup {v}
  <2>1. N + 1 \in Nat /\ Becomes(h)
    BY <1>1, <1>2 DEF h
  <2> QED BY <2>1, <1>3, <1>6, HeapBecomes
<1> QED BY <1>5, <1>6, <1>7 DEF C

LEMMA UpdateItemKeeps ==
  ASSUME HeapInv, NEW v \in Ids, NEW p \in Priorities, UpdateItem(v, p)
  PROVE  /\ HeapInv' /\ Contents(array') = Contents(array)
         /\ InOrder(prio, array) => InOrder(prio', array')
<1> DEFINE N == Len(array)
           C == Contents(array)
           h == Updated(prio', heap, v)
<1>1. N \in Nat /\ heap \in Heaps(N, C) /\ heap.array = array /\ prio \in [Ids -> Priorities]
  BY HeapIs DEF heap
<1>2. v \in C /\ Becomes(h) /\ prio' = [prio EXCEPT ![v] = p]
  BY DEF UpdateItem, HeapInv
<1>3. prio' \in [Ids -> Priorities] /\ \A u \in Ids : u # v => prio'[u] = prio[u]
  BY <1>1, <1>2
<1> HIDE DEF N, C
<1>4. h \in Heaps(N, C) /\ (InOrder(prio, heap.array) => InOrder(prio', h.array))
  BY <1>1, <1>2, <1>3, UpdatedResult
<1> HIDE DEF h
<1>5. HeapInv' /\ array' = h.array /\ Contents(array') = C
  BY <1>1, <1>2, <1>3, <1>4, HeapBecomes
<1> QED BY <1>1, <1>4, <1>5 DEF C

LEMMA TakeOutKeeps ==
  ASSUME HeapInv, NEW i \in 1..Len(array), Becomes(TakenOut(prio, heap, i)), UNCHANGED prio
  PROVE  /\ HeapInv' /\ Contents(array') = Contents(array) \ {array[i]}
         /\ i = 1 /\ InOrder(prio, array) => InOrder(prio', array')
<1> DEFINE N == Len(array)
           C == Contents(array)
           h == TakenOut(prio, heap, i)
<1>1. /\ N \in Nat /\ N - 1 \in Nat /\ i \in 1..N
      /\ heap \in Heaps(N, C) /\ heap.array = array /\ prio \in [Ids -> Priorities]
  BY HeapIs DEF heap
<1> HIDE DEF N, C
<1>2. /\ h \in Heaps(N - 1, C \ {heap.array[i]})
      /\ i = 1 /\ InOrder(prio, heap.array) => InOrder(prio, h.array)
  BY <1>1, TakenOutResult
<1>3. Becomes(h) /\ prio' = prio
  OBVIOUS
<1> HIDE DEF h
<1>4. HeapInv' /\ array' = h.array /\ Contents(array') = C \ {heap.array[i]}
  BY <1>1, <1>2, <1>3, HeapBecomes
<1> QED BY <1>1, <1>2, <1>3, <1>4 DEF C

\* In a heap that is in order, no item is above the first one.
LEMMA FirstIsBest ==
  ASSUME NEW N \in Nat, NEW C, NEW h \in Heaps(N, C), NEW p \in [Ids -> Priorities],
         InOrder(p, h.array)
  PROVE  \A i \in 1..N : ~Above(p, h.array[i], h.array[1])
<1> DEFINE r == Ranks(p, h.array)
<1>1. /\ r \in [1..N -> Int] /\ Tidy(r, N)
      /\ \A j, k \in 1..N : Above(p, h.array[j], h.array[k]) <=> r[j] < r[k]
  BY RanksOf
<1> HIDE DEF r
<1>2. \A i \in 1..N : r[1] <= r[i]
  BY <1>1, RootFirst
<1>3. ASSUME NEW i \in 1..N PROVE ~Above(p, h.array[i], h.array[1])
  <2>1. 1 \in 1..N /\ r[1] \in Int /\ r[i] \in Int
    BY <1>1
  <2> QED BY <2>1, <1>1, <1>2
<1> QED BY <1>3

LEMMA HeapInitInv == ASSUME HeapInit PROVE HeapInv
<1>1. array = <<>> /\ idxOf = [v \in {} |-> 0] /\ prio \in [Ids -> Priorities]
  BY DEF HeapInit
<1>2. Len(array) = 0 /\ array \in Seq(Ids)
  BY <1>1
<1>3. Contents(array) = {}
  BY <1>2 DEF Contents
<1>4. idxOf \in [{} -> Nat] /\ DOMAIN idxOf = {}
  BY <1>1
<1> QED BY <1>1, <1>2, <1>3, <1>4 DEF HeapInv, IndexExact, Exact, heap

LEMMA HeapNextKeeps ==
  ASSUME HeapInv, [HeapNext]_heapVars
  PROVE  HeapInv' /\ (QueueNext /\ InOrder(prio, array) => InOrder(prio', array'))
<1>1. CASE Pop
  <2>1. 1 \in 1..Len(array)
    BY <1>1 DEF Pop, HeapInv
  <2> QED BY <1>1, <2>1, TakeOutKeeps DEF Pop
<1>2. ASSUME NEW v \in Ids, NEW p \in Priorities, Push(v, p)
      PROVE  HeapInv' /\ (InOrder(prio, array) => InOrder(prio', array'))
  BY <1>2, PushKeeps
<1>3. ASSUME NEW v \in Ids, NEW p \in Priorities, UpdateItem(v, p)
      PROVE  HeapInv' /\ (InOrder(prio, array) => InOrder(prio', array'))
  BY <1>3, UpdateItemKeeps
<1>4. ASSUME NEW v \in Ids, Delete(v) PROVE HeapInv'
  <2>1. idxOf[v] \in 1..Len(array)
    <3>1. v \in Contents(array)
      BY <1>4 DEF Delete, HeapInv
    <3>2. \A u \in Contents(array) : heap.idxOf[u] \in 1..Len(array)
      BY HeapIs, HeapFacts
    <3> QED BY <3>1, <3>2 DEF heap
  <2> QED BY <1>4, <2>1, TakeOutKeeps DEF Delete
<1>5. CASE UNCHANGED heapVars
  BY <1>5 DEF heapVars, HeapInv, IndexExact, Exact, heap, Contents, InOrder, Above
<1>6. CASE QueueNext
  BY <1>1, <1>2, <1>3, <1>6 DEF QueueNext
<1>7. QueueNext \/ (\E v \in Ids : Delete(v)) \/ UNCHANGED heapVars
  BY DEF HeapNext
<1> QED BY <1>4, <1>5, <1>6, <1>7

\* IndexExact: the entry of an item in valueToIdxMap is the index of the item in
\* the array, and no other item has one, whatever is pushed, popped, deleted and
\* updated (updateItem and delete look the item up there).
THEOREM IndexIsExact == HeapSpec => []IndexExact
<1>1. HeapInit => HeapInv
  BY HeapInitInv
<1>2. HeapInv /\ [HeapNext]_heapVars => HeapInv'
  BY HeapNextKeeps
<1>3. HeapInv => IndexExact
  BY DEF HeapInv
<1> QED BY <1>1, <1>2, <1>3, PTL DEF HeapSpec

\* PopsBest: push, pop and updateItem leave the heap in order, and pop takes an item
\* that none is above, and only that one.
THEOREM PopTakesBest == HeapSpec => PopsBest
<1> DEFINE A == InOrder(prio, array) =>
                  /\ QueueNext => InOrder(prio', array')
                  /\ Pop => /\ Contents(array') = Contents(array) \ {array[1]}
                            /\ \A i \in 1..Len(array) : ~Above(prio, array[i], array[1])
<1>1. HeapInit => HeapInv
  BY HeapInitInv
<1>2. HeapInv /\ [HeapNext]_heapVars => HeapInv'
  BY HeapNextKeeps
<1>3. ASSUME HeapInv, [HeapNext]_heapVars PROVE [A]_heapVars
  <2>1. SUFFICES ASSUME InOrder(prio, array) PROVE A
    OBVIOUS
  <2>2. QueueNext => InOrder(prio', array')
    BY <1>3, <2>1, HeapNextKeeps
  <2>3. ASSUME Pop
        PROVE  /\ Contents(array') = Contents(array) \ {array[1]}
               /\ \A i \in 1..Len(array) : ~Above(prio, array[i], array[1])
    <3>1. 1 \in 1..Len(array)
      BY <1>3, <2>3 DEF Pop, HeapInv
    <3>2. Contents(array') = Contents(array) \ {array[1]}
      BY <1>3, <2>3, <3>1, TakeOutKeeps DEF Pop
    <3>3. Len(array) \in Nat /\ heap \in Heaps(Len(array), Contents(array)) /\ heap.array = array
      BY <1>3, HeapIs DEF heap
    <3>4. prio \in [Ids -> Priorities]
      BY <1>3 DEF HeapInv
    <3>5. \A i \in 1..Len(array) : ~Above(prio, heap.array[i], heap.array[1])
      BY <2>1, <3>3, <3>4, FirstIsBest
    <3> QED BY <3>2, <3>3, <3>5
  <2> QED BY <2>2, <2>3
<1>4. HeapInv /\ [HeapNext]_heapVars => [A]_heapVars
  BY <1>3
<1> QED BY <1>1, <1>2, <1>4, PTL DEF HeapSpec, PopsBest

\* As long as nobody calls delete(), the heap is in order.
THEOREM HeapStaysInOrder == HeapInit /\ [][QueueNext]_heapVars => []InOrder(prio, array)
<1> DEFINE J == HeapInv /\ InOrder(prio, array)
<1>1. HeapInit => J
  BY HeapInitInv DEF HeapInit, InOrder
<1>2. J /\ [QueueNext]_heapVars => J'
  <2>1. ASSUME J, QueueNext PROVE J'
    BY <2>1, HeapNextKeeps DEF HeapNext
  <2>2. ASSUME J, UNCHANGED heapVars PROVE J'
    BY <2>2 DEF heapVars, HeapInv, IndexExact, Exact, heap, Contents, InOrder, Above
  <2> QED BY <2>1, <2>2
<1>3. J => InOrder(prio, array)
  OBVIOUS
<1> QED BY <1>1, <1>2, <1>3, PTL

-----------------------------------------------------------------------------
(* Sequences of actions                                                    *)

\* Taking the head of an ordered entry: what is left is ordered and does not
\* have the head, which is the smallest action of the entry.
LEMMA TakeOldest ==
  ASSUME NEW s \in Seq(Actions), s # <<>>, Ordered(s)
  PROVE  /\ Tail(s) \in Seq(Actions)
         /\ Ordered(Tail(s))
         /\ Head(s) \in Actions
         /\ Elems(s) = Elems(Tail(s)) \cup {Head(s)}
         /\ Head(s) \notin Elems(Tail(s))
         /\ \A b \in Elems(s) : Head(s) <= b
<1>1. /\ Tail(s) \in Seq(Actions)
      /\ Len(Tail(s)) = Len(s) - 1
      /\ \A i \in 1..Len(Tail(s)) : Tail(s)[i] = s[i + 1]
      /\ Head(s) = s[1] /\ Len(s) \in Nat /\ Len(s) >= 1
  BY HeadTailProperties, EmptySeq
<1>2. DOMAIN s = 1..Len(s) /\ DOMAIN Tail(s) = 1..(Len(s) - 1)
  BY <1>1
<1>3. \A i \in 1..Len(s) : s[i] \in Actions /\ s[i] \in Int
  <2>1. \A i \in 1..Len(s) : s[i] \in Actions
    BY <1>1, <1>2
  <2> QED BY <2>1 DEF Actions
<1>4. Ordered(Tail(s))
  BY <1>1, <1>2, <1>3 DEF Ordered
<1>5. \A i \in 2..Len(s) : s[1] < s[i]
  BY <1>1, <1>2, <1>3 DEF Ordered
<1>6. Elems(s) = Elems(Tail(s)) \cup {Head(s)}
  <2>1. ASSUME NEW b \in Elems(s) PROVE b \in Elems(Tail(s)) \cup {Head(s)}
    <3>1. PICK i \in 1..Len(s) : b = s[i]
      BY <1>2 DEF Elems
    <3>2. CASE i = 1
      BY <3>1, <3>2, <1>1
    <3>3. CASE i # 1
      <4>1. i - 1 \in 1..(Len(s) - 1) /\ Tail(s)[i - 1] = s[i]
        BY <3>3, <1>1
      <4> QED BY <4>1, <3>1, <1>2 DEF Elems
    <3> QED BY <3>2, <3>3
  <2>2. ASSUME NEW b \in Elems(Tail(s)) PROVE b \in Elems(s)
    <3>1. PICK i \in 1..(Len(s) - 1) : b = Tail(s)[i]
      BY <1>2 DEF Elems
    <3>2. i + 1 \in 1..Len(s) /\ b = s[i + 1]
      BY <3>1, <1>1
    <3> QED BY <3>2, <1>2 DEF Elems
  <2>3. Head(s) \in Elems(s)
    BY <1>1, <1>2 DEF Elems
  <2> QED BY <2>1, <2>2, <2>3
<1>7. \A b \in Elems(Tail(s)) : b \in Int /\ Head(s) < b
  BY <1>1, <1>2, <1>3, <1>5 DEF Elems
<1>8. Head(s) \in Actions /\ Head(s) \in Int
  BY <1>1, <1>3
<1>9. \A b \in Elems(s) : Head(s) <= b
  BY <1>6, <1>7, <1>8
<1> QED
  BY <1>1, <1>4, <1>6, <1>7, <1>8, <1>9

\* Appending a new action keeps an entry ordered.
LEMMA AppendNewest ==
  ASSUME NEW s \in Seq(Actions), NEW a \in Actions, Ordered(s),
         \A b \in Elems(s) : b < a
  PROVE  /\ Append(s, a) \in Seq(Actions)
         /\ Append(s, a) # <<>>
         /\ Ordered(Append(s, a))
         /\ Elems(Append(s, a)) = Elems(s) \cup {a}
<1>1. /\ Append(s, a) \in Seq(Actions)
      /\ DOMAIN s = 1..Len(s) /\ Len(s) \in Nat
      /\ DOMAIN Append(s, a) = 1..(Len(s) + 1)
      /\ \A i \in 1..Len(s) : Append(s, a)[i] = s[i]
      /\ Append(s, a)[Len(s) + 1] = a
  BY AppendProperties
<1>2. \A i \in 1..Len(s) : s[i] \in Elems(s) /\ s[i] \in Int
  <2>1. \A i \in 1..Len(s) : s[i] \in Actions
    BY <1>1
  <2> QED BY <2>1, <1>1 DEF Elems, Actions
<1>3. Ordered(Append(s, a))
  BY <1>1, <1>2 DEF Ordered, Actions
<1>4. Elems(Append(s, a)) = Elems(s) \cup {a}
  BY <1>1 DEF Elems
<1>5. Append(s, a) # <<>>
  BY <1>1, EmptySeq
<1> QED BY <1>1, <1>3, <1>4, <1>5
-----------------------------------------------------------------------------
(* The inductive invariant                                                 *)

LEMMA InitInv == Init => IInv
<1> SUFFICES ASSUME Init PROVE IInv
  OBVIOUS
<1> USE MaxActionsAssumption DEF Init
<1>1. \A id \in Ids : queue[id] = <<>> /\ Elems(queue[id]) = {}
  <2>1. Elems(<<>>) = {}
    BY DEF Elems
  <2> QED BY <2>1
<1>2. TypeOK
  <2>1. queue \in [Ids -> Seq(Actions)]
    OBVIOUS
  <2>2. outcome \in [Actions -> Outcomes]
    BY DEF Outcomes
  <2>3. enqueued \in 0..MaxActions /\ timers \in 0..enqueued
    OBVIOUS
  <2>4. inflight \subseteq Actions /\ running \in BOOLEAN
    OBVIOUS
  <2>5. HeapInv
    BY HeapInitInv
  <2> QED BY <2>1, <2>2, <2>3, <2>4, <2>5 DEF TypeOK
<1>3. QueueInv
  BY <1>1 DEF QueueInv, Ordered, Actions
<1>4. LoopInv
  <2>1. Live = {}
    BY <1>1 DEF Live, entries, HeapInit, Contents
  <2> QED BY <2>1 DEF LoopInv, OneInFlight, NoLostWakeup
<1>5. InOrder(prio, array)
  BY DEF HeapInit, InOrder
<1> QED BY <1>2, <1>3, <1>4, <1>5 DEF IInv

\* The heaps dequeue passes through while it pops emptied entries: in order, and
\* with every entry that has actions.
DropStates ==
  {h \in UNION {Heaps(n, C) : n \in Nat, C \in SUBSET Ids} :
     /\ InOrder(prio, h.array)
     /\ Live \subseteq Contents(h.array) /\ Contents(h.array) \subseteq entries}

LEMMA DropState ==
  ASSUME NEW N \in Nat, NEW C, NEW h \in Heaps(N, C), InOrder(prio, h.array),
         Live \subseteq C, C \subseteq entries
  PROVE  h \in DropStates
<1>1. C \subseteq Ids /\ Contents(h.array) = C
  BY HeapFacts
<1> QED BY <1>1 DEF DropStates

LEMMA DropStateIs ==
  ASSUME NEW h \in DropStates
  PROVE  /\ Len(h.array) \in Nat /\ h \in Heaps(Len(h.array), Contents(h.array))
         /\ InOrder(prio, h.array)
         /\ Live \subseteq Contents(h.array) /\ Contents(h.array) \subseteq entries
<1>1. PICK n \in Nat, C \in SUBSET Ids : h \in Heaps(n, C)
  BY DEF DropStates
<1>2. Len(h.array) = n /\ Contents(h.array) = C
  BY <1>1, HeapFacts
<1> QED BY <1>1, <1>2 DEF DropStates

LEMMA DropBody ==
  ASSUME prio \in [Ids -> Priorities], NEW h \in DropStates
  PROVE  /\ DropOnce(h) \in DropStates
         /\ \/ DropOnce(h) = h /\ (h.array = <<>> \/ queue[h.array[1]] # <<>>)
            \/ Len(DropOnce(h).array) < Len(h.array)
<1> DEFINE N == Len(h.array)
           C == Contents(h.array)
           w == TakenOut(prio, h, 1)
<1>1. /\ N \in Nat /\ h \in Heaps(N, C) /\ InOrder(prio, h.array)
      /\ Live \subseteq C /\ C \subseteq entries
  BY DropStateIs
<1>2. CASE h.array = <<>> \/ queue[h.array[1]] # <<>>
  BY <1>2 DEF DropOnce
<1>3. CASE h.array # <<>> /\ queue[h.array[1]] = <<>>
  <2>1. DropOnce(h) = w
    BY <1>3 DEF DropOnce
  <2>2. 1 \in 1..N /\ N - 1 \in Nat
    <3>1. h.array \in Seq(Ids)
      BY <1>1, HeapFacts
    <3> QED BY <3>1, <1>3
  <2> HIDE DEF N, C
  <2>3. w \in Heaps(N - 1, C \ {h.array[1]}) /\ InOrder(prio, w.array)
    BY <1>1, <2>2, TakenOutResult
  <2> HIDE DEF w
  <2>4. Live \subseteq C \ {h.array[1]} /\ C \ {h.array[1]} \subseteq entries
    BY <1>1, <1>3 DEF Live
  <2>5. w \in DropStates
    BY <2>2, <2>3, <2>4, DropState
  <2>6. Len(w.array) = N - 1
    BY <2>2, <2>3, HeapFacts
  <2>7. Len(w.array) < N
    BY <1>1, <2>6
  <2> QED BY <2>1, <2>5, <2>7 DEF N
<1> QED BY <1>2, <1>3

\* The while loop of dequeue ends with an empty heap or with an action on top.
LEMMA DroppedIs ==
  ASSUME prio \in [Ids -> Priorities], heap \in DropStates
  PROVE  /\ Dropped \in DropStates
         /\ Dropped.array = <<>> \/ queue[Dropped.array[1]] # <<>>
<1> DEFINE S == DropStates
           once == [h \in S |-> DropOnce(h)]
           mu == [h \in S |-> Len(h.array)]
           g == Drops
<1>1. \A h \in S : once[h] = DropOnce(h)
  OBVIOUS
<1>2. heap \in S /\ once \in [S -> S]
  BY DropBody
<1>3. mu \in [S -> Nat] /\ mu[heap] = Len(array)
  <2>1. \A h \in S : Len(h.array) \in Nat
    BY DropStateIs
  <2>2. heap.array = array
    BY DEF heap
  <2> HIDE DEF S
  <2> QED BY <1>2, <2>1, <2>2
<1>4. \A h \in S : once[h] = h \/ mu[once[h]] < mu[h]
  <2> TAKE h \in S
  <2>1. /\ DropOnce(h) \in S
        /\ DropOnce(h) = h \/ Len(DropOnce(h).array) < Len(h.array)
    BY DropBody
  <2> HIDE DEF S
  <2>2. once[h] = DropOnce(h) /\ mu[DropOnce(h)] = Len(DropOnce(h).array) /\ mu[h] = Len(h.array)
    BY <2>1
  <2> HIDE DEF once, mu
  <2> QED BY <2>1, <2>2
<1> HIDE DEF S, once, mu
<1>5. PICK f : IsLoop(f, S, once, heap)
  BY <1>2, LoopExists
<1>6. f = [n \in Nat |-> IF n = 0 THEN heap ELSE DropOnce(f[n - 1])]
  <2>1. \A n \in Nat : n # 0 => f[n - 1] \in S /\ n \in Nat \ {0}
    BY <1>5 DEF IsLoop
  <2>2. \A n \in Nat : n # 0 => f[n] = DropOnce(f[n - 1])
    BY <1>1, <1>5, <2>1 DEF IsLoop
  <2>3. \A n \in Nat : f[n] = IF n = 0 THEN heap ELSE DropOnce(f[n - 1])
    BY <1>5, <2>2 DEF IsLoop
  <2>4. f = [n \in Nat |-> f[n]]
    BY <1>5 DEF IsLoop
  <2> QED BY <2>3, <2>4
<1>7. g = [n \in Nat |-> IF n = 0 THEN heap ELSE DropOnce(g[n - 1])]
  BY <1>6 DEF Drops
<1> HIDE DEF g
<1>8. g[0] = heap /\ \A n \in Nat : g[n] \in S => g[n + 1] = once[g[n]]
  <2>1. \A n \in Nat : g[n] = IF n = 0 THEN heap ELSE DropOnce(g[n - 1])
    BY <1>7
  <2>2. g[0] = heap
    BY <2>1
  <2>3. ASSUME NEW n \in Nat PROVE g[n + 1] = DropOnce(g[n])
    <3>1. n + 1 \in Nat /\ n + 1 # 0 /\ (n + 1) - 1 = n
      OBVIOUS
    <3>2. g[n + 1] = DropOnce(g[(n + 1) - 1])
      BY <2>1, <3>1
    <3> QED BY <3>1, <3>2
  <2> QED BY <1>1, <2>2, <2>3
<1>9. /\ \A n \in Nat : g[n] \in S
      /\ \A n \in Nat : n >= mu[heap] => once[g[n]] = g[n]
  <2>1. once \in [S -> S] /\ mu \in [S -> Nat] /\ heap \in S
    BY <1>2, <1>3
  <2>2. g[0] = heap
    BY <1>8
  <2>3. \A n \in Nat : g[n] \in S => g[n + 1] = once[g[n]]
    BY <1>8
  <2> QED BY <2>1, <2>2, <2>3, <1>4, LoopEnds
<1>10. Len(array) \in Nat /\ Len(array) >= mu[heap]
  <2>1. mu[heap] \in Nat
    BY <1>2, <1>3
  <2> QED BY <2>1, <1>3
<1>11. Dropped \in S /\ DropOnce(Dropped) = Dropped
  BY <1>1, <1>9, <1>10 DEF Dropped, g
<1>12. ~(Len(DropOnce(Dropped).array) < Len(Dropped.array))
  <2>1. Len(Dropped.array) \in Nat
    BY <1>11, DropStateIs DEF S
  <2> QED BY <1>11, <2>1
<1> QED BY <1>11, <1>12, DropBody DEF S

\* What dequeue does for run(): the oldest action of an entry that no other
\* waiting entry outranks is dispatched, or nothing was waiting.
LEMMA Dequeues ==
  ASSUME IInv, NEW rest \in SUBSET Actions, DispatchNext(rest), UNCHANGED prio
  PROVE  /\ HeapInv' /\ InOrder(prio, array)'
         /\ \/ \E id \in Ids :
                 /\ queue[id] # <<>>
                 /\ \A other \in Ids : queue[other] # <<>> => prio[id] <= prio[other]
                 /\ queue' = [queue EXCEPT ![id] = Tail(queue[id])]
                 /\ inflight' = rest \cup {Head(queue[id])}
                 /\ running' = TRUE
                 /\ \A other \in Ids : queue'[other] # <<>> => other \in entries'
            \/ /\ \A id \in Ids : queue[id] = <<>>
               /\ queue' = queue
               /\ inflight' = rest
               /\ running' = FALSE
<1> DEFINE N == Len(Dropped.array)
           C == Contents(Dropped.array)
<1>1. /\ prio \in [Ids -> Priorities] /\ prio' \in [Ids -> Priorities]
      /\ queue \in [Ids -> Seq(Actions)]
  BY DEF IInv, TypeOK, HeapInv
<1>2. heap \in DropStates
  <2>1. Len(array) \in Nat /\ heap \in Heaps(Len(array), Contents(array)) /\ heap.array = array
    BY HeapIs DEF IInv, TypeOK, heap
  <2>2. Live \subseteq Contents(array) /\ Contents(array) \subseteq entries
    BY DEF Live, entries
  <2>3. InOrder(prio, heap.array)
    BY <2>1 DEF IInv
  <2> QED BY <2>1, <2>2, <2>3, DropState
<1>3. /\ N \in Nat /\ Dropped \in Heaps(N, C)
      /\ InOrder(prio, Dropped.array) /\ Live \subseteq C
      /\ Dropped.array = <<>> \/ queue[Dropped.array[1]] # <<>>
  BY <1>1, <1>2, DroppedIs, DropStateIs
<1>4. \A id \in Ids : queue[id] # <<>> => id \in C
  BY <1>3 DEF Live, IInv, QueueInv
<1>5. /\ Dropped.array \in [1..N -> C] /\ C \subseteq Ids
      /\ \A v \in C : \E j \in 1..N : v = Dropped.array[j]
  <2>1. /\ Dropped.array \in [1..N -> C] /\ C \subseteq Ids
        /\ \A v \in C : Dropped.idxOf[v] \in 1..N /\ Dropped.array[Dropped.idxOf[v]] = v
    BY <1>3, HeapFacts
  <2> HIDE DEF N, C
  <2> QED BY <2>1
<1>6. Dropped.array \in Seq(Ids)
  BY <1>3, HeapFacts
<1> HIDE DEF C
<1>7. CASE Dropped.array = <<>>
  <2>1. Becomes(Dropped) /\ inflight' = rest /\ running' = FALSE /\ queue' = queue
    BY <1>7 DEF DispatchNext
  <2>2. HeapInv' /\ array' = Dropped.array
    BY <1>1, <1>3, <2>1, HeapBecomes
  <2>3. \A id \in Ids : queue[id] = <<>>
    <3>1. N = 0
      BY <1>7
    <3> QED BY <3>1, <1>4, <1>5
  <2> QED BY <1>3, <2>1, <2>2, <2>3
<1>8. CASE Dropped.array # <<>>
  <2> DEFINE id == Dropped.array[1]
             h == IF Len(queue[id]) = 1 THEN TakenOut(prio, Dropped, 1) ELSE Dropped
             M == IF Len(queue[id]) = 1 THEN N - 1 ELSE N
             D == IF Len(queue[id]) = 1 THEN C \ {id} ELSE C
  <2>1. /\ queue' = [queue EXCEPT ![id] = Tail(queue[id])]
        /\ Becomes(h)
        /\ inflight' = rest \cup {Head(queue[id])}
        /\ running' = TRUE
    BY <1>8 DEF DispatchNext, Oldest
  <2>2. 1 \in 1..N /\ N - 1 \in Nat
    BY <1>6, <1>8
  <2> HIDE DEF N
  <2>3. id \in C /\ id \in Ids /\ queue[id] # <<>>
    BY <1>3, <1>5, <1>8, <2>2
  <2>4. TakenOut(prio, Dropped, 1) \in Heaps(N - 1, C \ {id}) /\ InOrder(prio, TakenOut(prio, Dropped, 1).array)
    BY <1>1, <1>3, <2>2, TakenOutResult
  <2> HIDE DEF id
  <2>5. M \in Nat /\ h \in Heaps(M, D) /\ InOrder(prio, h.array)
    BY <1>3, <2>2, <2>4
  <2> HIDE DEF h, M
  <2>6. HeapInv' /\ array' = h.array /\ Contents(array') = D
    BY <1>1, <2>1, <2>5, HeapBecomes
  <2>7. ASSUME NEW other \in Ids, queue[other] # <<>> PROVE prio[id] <= prio[other]
    <3>1. PICK j \in 1..N : other = Dropped.array[j]
      BY <1>4, <1>5, <2>7
    <3>2. ~Above(prio, other, id)
      BY <1>1, <1>3, <3>1, FirstIsBest DEF id
    <3>3. prio[id] \in Int /\ prio[other] \in Int
      BY <1>1, <2>3, PrioritiesAssumption
    <3> QED BY <3>2, <3>3 DEF Above
  <2>8. Len(queue[id]) = 1 => Tail(queue[id]) = <<>>
    <3>1. queue[id] \in Seq(Actions)
      BY <1>1, <2>3
    <3>2. Tail(queue[id]) \in Seq(Actions) /\ Len(Tail(queue[id])) = Len(queue[id]) - 1
      BY <3>1, <2>3, HeadTailProperties
    <3>3. Len(queue[id]) = 1 => Len(Tail(queue[id])) = 0
      BY <3>2
    <3> QED BY <3>2, <3>3, EmptySeq, Zenon
  <2>9. ASSUME NEW other \in Ids, queue'[other] # <<>> PROVE other \in entries'
    <3>1. entries' = D
      BY <2>6 DEF entries
    <3>2. CASE other = id
      <4>1. queue'[id] = Tail(queue[id])
        BY <1>1, <2>1, <2>3
      <4>2. Len(queue[id]) # 1
        BY <4>1, <3>2, <2>8, <2>9
      <4> QED BY <2>3, <3>1, <3>2, <4>2
    <3>3. CASE other # id
      <4>1. queue[other] # <<>>
        BY <1>1, <2>1, <2>3, <2>9, <3>3
      <4>2. other \in C
        BY <1>4, <4>1
      <4> QED BY <3>1, <3>3, <4>2
    <3> QED BY <3>2, <3>3
  <2>10. InOrder(prio, array)'
    BY <2>5, <2>6
  <2> QED BY <2>1, <2>3, <2>6, <2>7, <2>9, <2>10
<1> QED BY <1>7, <1>8

\* The dispatch of the next action, once the one before it is settled, keeps the
\* invariant.
LEMMA DispatchKeeps ==
  ASSUME IInv, DispatchNext({}),
         enqueued' = enqueued, UNCHANGED prio, timers' \in 0..enqueued,
         outcome' \in [Actions -> Outcomes],
         \A b \in Actions \ inflight : outcome'[b] = outcome[b],
         \A b \in inflight : outcome'[b] # "none"
  PROVE  IInv'
<1>9. HeapInv' /\ InOrder(prio, array)'
  BY Dequeues
<1>0. \A b \in 1..enqueued : b \in Actions
  BY MaxActionsAssumption DEF IInv, TypeOK, Actions
<1>1. CASE \E id \in Ids :
             /\ queue[id] # <<>>
             /\ \A other \in Ids : queue[other] # <<>> => prio[id] <= prio[other]
             /\ queue' = [queue EXCEPT ![id] = Tail(queue[id])]
             /\ inflight' = {} \cup {Head(queue[id])}
             /\ running' = TRUE
             /\ \A other \in Ids : queue'[other] # <<>> => other \in entries'
  <2>1. PICK id \in Ids :
             /\ queue[id] # <<>>
             /\ queue' = [queue EXCEPT ![id] = Tail(queue[id])]
             /\ inflight' = {Head(queue[id])}
             /\ running' = TRUE
             /\ \A other \in Ids : queue'[other] # <<>> => other \in entries'
    BY <1>1
  <2> DEFINE h == Head(queue[id])
  <2>2. queue \in [Ids -> Seq(Actions)] /\ Ordered(queue[id])
    BY DEF IInv, TypeOK, QueueInv
  <2>3. /\ Tail(queue[id]) \in Seq(Actions)
        /\ Ordered(Tail(queue[id]))
        /\ h \in Actions
        /\ Elems(queue[id]) = Elems(Tail(queue[id])) \cup {h}
        /\ h \notin Elems(Tail(queue[id]))
    BY <2>1, <2>2, TakeOldest
  <2>4. /\ queue'[id] = Tail(queue[id])
        /\ \A other \in Ids : other # id => queue'[other] = queue[other]
    BY <2>1, <2>2
  <2>5. \A other \in Ids : Elems(queue'[other]) \subseteq Elems(queue[other])
    BY <2>3, <2>4
  <2> HIDE DEF h
  <2>6. TypeOK'
    <3>1. queue' \in [Ids -> Seq(Actions)]
      BY <2>1, <2>2, <2>3
    <3>2. inflight' \subseteq Actions
      BY <2>1, <2>3 DEF h
    <3> QED BY <1>9, <3>1, <3>2, <2>1 DEF IInv, TypeOK
  <2>7. QueueInv'
    <3>1. h \in 1..enqueued /\ outcome[h] = "none" /\ h \notin inflight
      BY <2>3 DEF IInv, QueueInv
    <3>2. \A other \in Ids : h \notin Elems(queue'[other])
      BY <2>3, <2>4 DEF IInv, QueueInv
    <3>3. ASSUME NEW other \in Ids
          PROVE  /\ Ordered(queue'[other])
                 /\ queue'[other] # <<>> => other \in entries'
                 /\ Elems(queue'[other]) \subseteq 1..enqueued
                 /\ Elems(queue'[other]) \cap inflight' = {}
                 /\ \A b \in Elems(queue'[other]) : outcome'[b] = "none"
      <4>1. Ordered(queue'[other])
        BY <2>3, <2>4 DEF IInv, QueueInv
      <4>2. Elems(queue'[other]) \cap inflight' = {}
        BY <2>1, <3>2 DEF h
      <4>3. Elems(queue'[other]) \subseteq 1..enqueued
        BY <2>5 DEF IInv, QueueInv
      <4>4. \A b \in Elems(queue'[other]) : b \in Actions \ inflight /\ outcome[b] = "none"
        BY <1>0, <2>5, <4>3 DEF IInv, QueueInv
      <4> QED BY <2>1, <4>1, <4>2, <4>3, <4>4
    <3>4. \A x, y \in Ids : x # y => Elems(queue'[x]) \cap Elems(queue'[y]) = {}
      BY <2>5 DEF IInv, QueueInv
    <3>5. inflight' \subseteq 1..enqueued /\ \A b \in inflight' : outcome'[b] = "none"
      BY <2>1, <2>3, <3>1 DEF h
    <3>6. ASSUME NEW b \in 1..enqueued, outcome'[b] = "none" PROVE b \in Queued' \cup inflight'
      <4>1. b \in Actions
        BY <1>0
      <4>2. b \notin inflight /\ outcome[b] = "none"
        BY <3>6, <4>1
      <4>3. PICK x \in Ids : b \in Elems(queue[x])
        BY <4>2 DEF IInv, QueueInv, Queued
      <4>4. b \in Elems(queue'[x]) \/ b = h
        BY <4>3, <2>3, <2>4
      <4> QED BY <4>4, <2>1 DEF Queued, h
    <3>7. \A b \in Actions : b > enqueued => outcome'[b] = "none"
      BY DEF IInv, QueueInv, TypeOK, Actions
    <3> QED BY <3>3, <3>4, <3>5, <3>6, <3>7 DEF QueueInv
  <2>8. LoopInv'
    BY <2>1 DEF LoopInv, OneInFlight, NoLostWakeup
  <2> QED BY <1>9, <2>6, <2>7, <2>8 DEF IInv
<1>2. CASE /\ \A id \in Ids : queue[id] = <<>>
           /\ queue' = queue /\ inflight' = {} /\ running' = FALSE
  <2>1. \A id \in Ids : Elems(queue[id]) = {}
    BY <1>2 DEF Elems
  <2>2. TypeOK'
    BY <1>2, <1>9 DEF IInv, TypeOK
  <2>3. QueueInv'
    <3>1. ASSUME NEW b \in 1..enqueued PROVE outcome'[b] # "none"
      <4>1. b \in Actions /\ b \notin Queued
        BY <1>0, <2>1 DEF Queued
      <4>2. b \in inflight \/ outcome[b] # "none"
        BY <4>1 DEF IInv, QueueInv
      <4> QED BY <4>1, <4>2
    <3>2. \A b \in Actions : b > enqueued => outcome'[b] = "none"
      BY DEF IInv, QueueInv, TypeOK, Actions
    <3> QED BY <1>2, <2>1, <3>1, <3>2 DEF IInv, QueueInv
  <2>4. LoopInv'
    <3>1. entries' \subseteq Ids
      BY <1>9 DEF HeapInv, Contents, entries
    <3>2. Live' = {}
      BY <1>2, <3>1 DEF Live
    <3> QED BY <1>2, <3>2 DEF LoopInv, OneInFlight, NoLostWakeup
  <2> QED BY <1>9, <2>2, <2>3, <2>4 DEF IInv
<1> QED
  BY <1>1, <1>2, Dequeues

\* A step that leaves the heap alone leaves what is said of it.
LEMMA HeapUnchanged ==
  ASSUME HeapInv, InOrder(prio, array), UNCHANGED heapVars
  PROVE  HeapInv' /\ InOrder(prio, array)' /\ entries' = entries
<1>1. array' = array /\ idxOf' = idxOf /\ prio' = prio
  BY DEF heapVars
<1>2. heap' = heap /\ Contents(array)' = Contents(array)
  BY <1>1 DEF heap, Contents
<1>3. HeapInv'
  BY <1>1, <1>2 DEF HeapInv, IndexExact
<1> QED BY <1>1, <1>2, <1>3 DEF entries

LEMMA OnlyHeapChanges ==
  ASSUME IInv, UNCHANGED <<queue, enqueued, running, timers, inflight, outcome>>,
         HeapInv', InOrder(prio, array)', entries' = entries
  PROVE  IInv'
<1>1. TypeOK'
  BY DEF IInv, TypeOK
<1>2. QueueInv'
  BY DEF IInv, QueueInv, Queued
<1>3. LoopInv'
  BY DEF IInv, LoopInv, OneInFlight, NoLostWakeup, Live
<1> QED BY <1>1, <1>2, <1>3 DEF IInv

\* An id that is enqueued has an entry, and the heap is still in order.
LEMMA EnqueueHeap ==
  ASSUME IInv, NEW id \in Ids, NEW p \in Priorities, Enqueue(id, p)
  PROVE  HeapInv' /\ InOrder(prio, array)' /\ entries' = entries \cup {id}
<1>1. HeapInv /\ InOrder(prio, array)
  BY DEF IInv, TypeOK
<1>2. CASE id \in entries
  <2>1. UpdateItem(id, prio[id]) /\ prio[id] \in Priorities
    BY <1>1, <1>2 DEF Enqueue, HeapInv
  <2> QED BY <1>1, <1>2, <2>1, UpdateItemKeeps DEF entries
<1>3. CASE id \notin entries
  <2>1. Push(id, p)
    BY <1>3 DEF Enqueue
  <2> QED BY <1>1, <2>1, PushKeeps DEF entries
<1> QED BY <1>2, <1>3

LEMMA RunKeeps == IInv /\ Run => IInv'
<1> SUFFICES ASSUME IInv, Run PROVE IInv'
  OBVIOUS
<1>1. timers' \in 0..enqueued
  BY DEF Run, TimerFires, IInv, TypeOK
<1>2. CASE running
  <2>0. UNCHANGED <<heapVars, queue, enqueued, running, inflight, outcome>>
    BY <1>2 DEF Run, AlreadyRunning, heapVars
  <2>1. HeapInv' /\ InOrder(prio, array)' /\ entries' = entries
    BY <2>0, HeapUnchanged DEF IInv, TypeOK
  <2>2. TypeOK'
    BY <1>1, <2>0, <2>1 DEF IInv, TypeOK
  <2>3. QueueInv'
    BY <2>0, <2>1 DEF IInv, QueueInv, Queued
  <2>4. LoopInv'
    BY <1>2, <2>0 DEF IInv, LoopInv, OneInFlight, NoLostWakeup
  <2> QED BY <2>1, <2>2, <2>3, <2>4 DEF IInv
<1>3. CASE ~running
  <2>1. inflight = {} /\ DispatchNext({})
    BY <1>3 DEF Run, AlreadyRunning, IInv, LoopInv
  <2>2. outcome' \in [Actions -> Outcomes]
    BY DEF Run, IInv, TypeOK
  <2> QED BY <1>1, <2>1, <2>2, DispatchKeeps DEF Run
<1> QED BY <1>2, <1>3

LEMMA CompleteKeeps == ASSUME IInv, NEW a \in Actions, Complete(a) PROVE IInv'
<1>1. inflight = {a}
  BY DEF Complete, Answered, IInv, LoopInv, OneInFlight, TypeOK
<1>2. inflight \ {a} = {}
  BY <1>1
<1>3. DispatchNext({})
  BY <1>2 DEF Complete
<1>4. PICK o \in {"resolved", "rejected"} : outcome' = [outcome EXCEPT ![a] = o]
  BY DEF Complete, Answered
<1>5. outcome' \in [Actions -> Outcomes] /\ timers' \in 0..enqueued
  BY <1>4 DEF Complete, IInv, TypeOK, Outcomes
<1>6. /\ \A b \in Actions \ inflight : outcome'[b] = outcome[b]
      /\ \A b \in inflight : outcome'[b] # "none"
  BY <1>1, <1>4 DEF IInv, TypeOK
<1> QED BY <1>3, <1>5, <1>6, DispatchKeeps DEF Complete

LEMMA EnqueueKeeps ==
  ASSUME IInv, NEW id \in Ids, NEW p \in Priorities, Enqueue(id, p)
  PROVE  IInv'
<1> DEFINE new == enqueued + 1
<1>1. /\ new \in Actions /\ new \in Int /\ enqueued' = new
      /\ enqueued \in Int
      /\ \A b \in 1..enqueued : b \in Actions /\ b < new
      /\ \A b \in 1..enqueued' : b \in 1..enqueued \/ b = new
      /\ 1..enqueued \subseteq 1..enqueued'
  BY MaxActionsAssumption DEF Enqueue, IInv, TypeOK, Actions
<1>2. outcome[new] = "none" /\ new \notin inflight /\ \A x \in Ids : new \notin Elems(queue[x])
  BY <1>1 DEF IInv, QueueInv, Actions
<1>3. /\ queue' = [queue EXCEPT ![id] = Append(queue[id], new)]
      /\ timers' = WakeUp
      /\ running' = running /\ inflight' = inflight /\ outcome' = outcome
  BY DEF Enqueue
<1>12. HeapInv' /\ InOrder(prio, array)' /\ entries' = entries \cup {id}
  BY EnqueueHeap
<1>4. queue \in [Ids -> Seq(Actions)] /\ Ordered(queue[id])
  BY DEF IInv, TypeOK, QueueInv
<1>5. \A b \in Elems(queue[id]) : b < new
  BY <1>1 DEF IInv, QueueInv
<1> HIDE DEF new
<1>6. /\ Append(queue[id], new) \in Seq(Actions)
      /\ Append(queue[id], new) # <<>>
      /\ Ordered(Append(queue[id], new))
      /\ Elems(Append(queue[id], new)) = Elems(queue[id]) \cup {new}
  BY <1>1, <1>4, <1>5, AppendNewest
<1>7. /\ queue'[id] = Append(queue[id], new)
      /\ \A x \in Ids : x # id => queue'[x] = queue[x]
  BY <1>3, <1>4
<1>8. Elems(queue'[id]) = Elems(queue[id]) \cup {new}
  BY <1>6, <1>7
<1>9. TypeOK'
  <2>1. queue' \in [Ids -> Seq(Actions)]
    BY <1>3, <1>4, <1>6
  <2>2. enqueued' \in 0..MaxActions /\ timers' \in 0..enqueued'
    BY MaxActionsAssumption DEF Enqueue, IInv, TypeOK, WakeUp
  <2> QED BY <2>1, <2>2, <1>3, <1>12 DEF IInv, TypeOK
<1>10. QueueInv'
  <2>1. ASSUME NEW x \in Ids
        PROVE  /\ Ordered(queue'[x])
               /\ queue'[x] # <<>> => x \in entries'
               /\ Elems(queue'[x]) \subseteq 1..enqueued'
               /\ Elems(queue'[x]) \cap inflight' = {}
               /\ \A b \in Elems(queue'[x]) : outcome'[b] = "none"
    <3>1. CASE x = id
      <4>1. new \in 1..enqueued'
        BY <1>1 DEF Actions
      <4> QED BY <3>1, <4>1, <1>1, <1>2, <1>3, <1>6, <1>7, <1>8, <1>12 DEF IInv, QueueInv
    <3>2. CASE x # id
      BY <3>2, <1>1, <1>3, <1>7, <1>12 DEF IInv, QueueInv
    <3> QED BY <3>1, <3>2
  <2>2. ASSUME NEW x \in Ids, NEW y \in Ids, x # y
        PROVE  Elems(queue'[x]) \cap Elems(queue'[y]) = {}
    <3>1. Elems(queue[x]) \cap Elems(queue[y]) = {}
      BY <2>2 DEF IInv, QueueInv
    <3>2. new \notin Elems(queue[x]) /\ new \notin Elems(queue[y])
      BY <1>2
    <3>3. CASE x = id
      BY <3>1, <3>2, <3>3, <2>2, <1>7, <1>8
    <3>4. CASE y = id
      BY <3>1, <3>2, <3>4, <2>2, <1>7, <1>8
    <3>5. CASE x # id /\ y # id
      BY <3>1, <3>5, <1>7
    <3> QED BY <3>3, <3>4, <3>5
  <2>3. inflight' \subseteq 1..enqueued' /\ \A b \in inflight' : outcome'[b] = "none"
    BY <1>1, <1>3 DEF IInv, QueueInv
  <2>4. ASSUME NEW b \in 1..enqueued', outcome'[b] = "none" PROVE b \in Queued' \cup inflight'
    <3>1. CASE b = new
      BY <3>1, <1>8 DEF Queued
    <3>2. CASE b \in 1..enqueued
      <4>1. b \in Queued \cup inflight
        BY <2>4, <3>2, <1>3 DEF IInv, QueueInv
      <4>2. CASE b \in inflight
        BY <4>2, <1>3
      <4>3. CASE b \in Queued
        <5>1. PICK x \in Ids : b \in Elems(queue[x])
          BY <4>3 DEF Queued
        <5>2. b \in Elems(queue'[x])
          BY <5>1, <1>7, <1>8
        <5> QED BY <5>2 DEF Queued
      <4> QED BY <4>1, <4>2, <4>3
    <3> QED BY <3>1, <3>2, <1>1
  <2>5. \A b \in Actions : b > enqueued' => outcome'[b] = "none"
    BY <1>1, <1>3 DEF IInv, QueueInv, Actions, new
  <2> QED BY <2>1, <2>2, <2>3, <2>4, <2>5 DEF QueueInv
<1>11. LoopInv'
  BY <1>3 DEF IInv, LoopInv, OneInFlight, NoLostWakeup, WakeUp, TypeOK
<1> QED BY <1>9, <1>10, <1>11, <1>12 DEF IInv

LEMMA ClearQueueKeeps == ASSUME IInv, NEW id \in Ids, ClearQueue(id) PROVE IInv'
<1>1. /\ queue' = [queue EXCEPT ![id] = <<>>]
      /\ UNCHANGED <<entries, enqueued, running, timers, inflight>>
      /\ HeapInv' /\ InOrder(prio, array)'
  BY HeapUnchanged DEF ClearQueue, Emptied, IInv, TypeOK
<1>2. \A a \in Actions : outcome'[a] = IF a \in Elems(queue[id]) THEN "cancelled" ELSE outcome[a]
  BY DEF ClearQueue
<1>3. queue \in [Ids -> Seq(Actions)] /\ queue'[id] = <<>>
      /\ \A x \in Ids : x # id => queue'[x] = queue[x]
  BY <1>1 DEF IInv, TypeOK
<1>4. Elems(queue'[id]) = {}
  BY <1>3 DEF Elems
<1>5. TypeOK'
  <2>1. queue' \in [Ids -> Seq(Actions)]
    BY <1>1, <1>3
  <2>2. outcome' \in [Actions -> Outcomes]
    BY DEF ClearQueue, IInv, TypeOK, Outcomes
  <2> QED BY <1>1, <2>1, <2>2 DEF IInv, TypeOK
<1>6. \A b \in 1..enqueued : b \in Actions
  BY MaxActionsAssumption DEF IInv, TypeOK, Actions
<1>7. QueueInv'
  <2>1. ASSUME NEW x \in Ids
        PROVE  /\ Ordered(queue'[x])
               /\ queue'[x] # <<>> => x \in entries'
               /\ Elems(queue'[x]) \subseteq 1..enqueued'
               /\ Elems(queue'[x]) \cap inflight' = {}
               /\ \A b \in Elems(queue'[x]) : outcome'[b] = "none"
    <3>1. CASE x = id
      BY <3>1, <1>3, <1>4 DEF Ordered
    <3>2. CASE x # id
      <4>1. \A b \in Elems(queue[x]) : b \in Actions /\ b \notin Elems(queue[id])
        BY <3>2, <1>6 DEF IInv, QueueInv
      <4> QED BY <3>2, <4>1, <1>1, <1>2, <1>3 DEF IInv, QueueInv
    <3> QED BY <3>1, <3>2
  <2>2. \A x, y \in Ids : x # y => Elems(queue'[x]) \cap Elems(queue'[y]) = {}
    BY <1>3, <1>4 DEF IInv, QueueInv
  <2>3. inflight' \subseteq 1..enqueued' /\ \A b \in inflight' : outcome'[b] = "none"
    BY <1>1, <1>2, <1>6 DEF IInv, QueueInv
  <2>4. ASSUME NEW b \in 1..enqueued', outcome'[b] = "none" PROVE b \in Queued' \cup inflight'
    <3>1. b \in Actions /\ b \notin Elems(queue[id]) /\ outcome[b] = "none"
      BY <2>4, <1>1, <1>2, <1>6
    <3>2. b \in Queued \cup inflight
      BY <3>1, <1>1 DEF IInv, QueueInv
    <3>3. CASE b \in Queued
      <4>1. PICK x \in Ids : b \in Elems(queue[x])
        BY <3>3 DEF Queued
      <4> QED BY <4>1, <3>1, <1>3 DEF Queued
    <3> QED BY <3>2, <3>3, <1>1
  <2>5. \A b \in Actions : b > enqueued' => outcome'[b] = "none"
    <3>1. ASSUME NEW b \in Actions, b > enqueued PROVE outcome'[b] = "none"
      <4>1. b \notin Elems(queue[id]) /\ outcome[b] = "none"
        BY <3>1 DEF IInv, QueueInv, TypeOK, Actions
      <4> QED BY <4>1, <1>2
    <3> QED BY <3>1, <1>1
  <2> QED BY <2>1, <2>2, <2>3, <2>4, <2>5 DEF QueueInv
<1>8. LoopInv'
  BY <1>1, <1>3 DEF IInv, LoopInv, OneInFlight, NoLostWakeup, Live
<1> QED BY <1>1, <1>5, <1>7, <1>8 DEF IInv

LEMMA UpdatePriorityKeeps ==
  ASSUME IInv, NEW id \in Ids, NEW p \in Priorities, UpdatePriority(id, p) PROVE IInv'
<1>1. /\ UpdateItem(id, p)
      /\ UNCHANGED <<queue, enqueued, running, timers, inflight, outcome>>
  BY DEF UpdatePriority
<1>2. HeapInv' /\ InOrder(prio, array)' /\ entries' = entries
  BY <1>1, UpdateItemKeeps DEF IInv, TypeOK, entries
<1> QED BY <1>1, <1>2, OnlyHeapChanges

LEMMA StepKeeps == IInv /\ [Next]_vars => IInv'
<1> SUFFICES ASSUME IInv, [Next]_vars PROVE IInv'
  OBVIOUS
<1>1. CASE Run
  BY <1>1, RunKeeps
<1>2. CASE \E a \in Actions : Complete(a)
  BY <1>2, CompleteKeeps
<1>3. CASE \E id \in Ids : ClearQueue(id)
  BY <1>3, ClearQueueKeeps
<1>4. CASE \E id \in Ids, p \in Priorities : Enqueue(id, p)
  BY <1>4, EnqueueKeeps
<1>5. CASE \E id \in Ids, p \in Priorities : UpdatePriority(id, p)
  BY <1>5, UpdatePriorityKeeps
<1>6. CASE UNCHANGED vars
  <2>1. /\ UNCHANGED heapVars
        /\ UNCHANGED <<queue, enqueued, running, timers, inflight, outcome>>
    BY <1>6 DEF vars
  <2>2. HeapInv' /\ InOrder(prio, array)' /\ entries' = entries
    BY <2>1, HeapUnchanged DEF IInv, TypeOK
  <2> QED BY <2>1, <2>2, OnlyHeapChanges
<1> QED BY <1>1, <1>2, <1>3, <1>4, <1>5, <1>6 DEF Next

\* In every state of the queue the entries, the loop and the promises agree
\* (IInv): the theorems below read their properties off it.
THEOREM Invariance == Spec => []IInv
<1> QED BY InitInv, StepKeeps, PTL DEF Spec

-----------------------------------------------------------------------------
(* The theorems                                                            *)

\* Every variable keeps its type, and no more timers are pending than actions
\* have been enqueued.
THEOREM TypeCorrect == Spec => []TypeOK
<1>1. IInv => TypeOK
  BY DEF IInv
<1> QED BY <1>1, Invariance, PTL

\* The promise of an action is unsettled exactly while the action waits in the
\* heap or is with DuckDB: no call of enqueue is forgotten or answered twice.
THEOREM PromisesAreKept == Spec => []PromisesKept
<1>1. IInv => PromisesKept
  <2> SUFFICES ASSUME IInv PROVE PromisesKept
    OBVIOUS
  <2>1. \A a \in 1..enqueued : outcome[a] = "none" <=> a \in Queued \cup inflight
    BY DEF IInv, QueueInv, Queued
  <2>2. Queued \cap inflight = {} /\ \A id \in Ids : queue[id] # <<>> => id \in entries
    BY DEF IInv, QueueInv, Queued
  <2> QED BY <2>1, <2>2 DEF PromisesKept
<1> QED BY <1>1, Invariance, PTL

\* DuckDB is given one action at a time.
THEOREM OneAtATime == Spec => []OneInFlight
<1>1. IInv => OneInFlight
  BY DEF IInv, LoopInv
<1> QED BY <1>1, Invariance, PTL

\* Waiting actions are never left without a loop or a timer that starts one.
THEOREM NeverIdleWithWork == Spec => []NoLostWakeup
<1>1. IInv => NoLostWakeup
  BY DEF IInv, LoopInv
<1> QED BY <1>1, Invariance, PTL

\* What run() dispatches is the oldest action of an id that no waiting id
\* outranks.
THEOREM DispatchIsBest == Spec => BestFirst
<1> DEFINE Dispatches(a) ==
      \E id \in Ids : /\ a \in Elems(queue[id])
                      /\ \A b \in Elems(queue[id]) : a <= b
                      /\ \A other \in Ids : queue[other] # <<>> => prio[id] <= prio[other]
<1>1. ASSUME IInv, NEW rest \in SUBSET inflight, DispatchNext(rest), UNCHANGED prio,
             NEW a \in inflight' \ inflight
      PROVE  Dispatches(a)
  <2>1. rest \in SUBSET Actions
    BY <1>1 DEF IInv, TypeOK
  <2>2. PICK id \in Ids : /\ queue[id] # <<>>
                          /\ \A other \in Ids : queue[other] # <<>> => prio[id] <= prio[other]
                          /\ inflight' = rest \cup {Head(queue[id])}
    BY <1>1, <2>1, Dequeues
  <2>3. queue[id] \in Seq(Actions) /\ Ordered(queue[id])
    BY <1>1 DEF IInv, TypeOK, QueueInv
  <2>4. a = Head(queue[id])
    BY <1>1, <2>2
  <2>5. a \in Elems(queue[id]) /\ \A b \in Elems(queue[id]) : a <= b
    BY <2>2, <2>3, <2>4, TakeOldest
  <2> QED BY <2>2, <2>5
<1>2. ASSUME IInv, [Next]_vars, NEW a \in inflight' \ inflight PROVE Dispatches(a)
  <2>1. CASE Run
    BY <2>1, <1>1, <1>2 DEF Run
  <2>2. CASE \E b \in Actions : Complete(b)
    BY <2>2, <1>1, <1>2 DEF Complete
  <2>3. CASE UNCHANGED inflight
    BY <2>3, <1>2
  <2> QED BY <1>2, <2>1, <2>2, <2>3 DEF Next, ClearQueue, Enqueue, UpdatePriority, vars
<1>3. IInv /\ [Next]_vars => [\A a \in inflight' \ inflight : Dispatches(a)]_vars
  BY <1>2
<1> QED BY <1>3, Invariance, PTL DEF Spec, BestFirst

\* A cancelled action stays cancelled and is never dispatched.
THEOREM CancelIsFinal == Spec => CancelledForGood
<1> DEFINE Good(a) == outcome[a] = "cancelled" => outcome'[a] = "cancelled" /\ a \notin inflight'
<1>1. ASSUME IInv, [Next]_vars, NEW a \in Actions, outcome[a] = "cancelled"
      PROVE  outcome'[a] = "cancelled" /\ a \notin inflight'
  <2>1. a \notin inflight /\ \A id \in Ids : a \notin Elems(queue[id])
    BY <1>1 DEF IInv, QueueInv
  <2>2. ASSUME NEW rest \in SUBSET inflight, DispatchNext(rest), UNCHANGED prio
        PROVE  a \notin inflight'
    <3>1. rest \in SUBSET Actions
      BY <1>1 DEF IInv, TypeOK
    <3>2. ASSUME NEW id \in Ids, queue[id] # <<>> PROVE Head(queue[id]) \in Elems(queue[id])
      <4>1. queue[id] \in Seq(Actions) /\ Ordered(queue[id])
        BY <1>1 DEF IInv, TypeOK, QueueInv
      <4> QED BY <4>1, <3>2, TakeOldest
    <3> QED BY <1>1, <2>1, <2>2, <3>1, <3>2, Dequeues
  <2>3. CASE Run
    BY <2>1, <2>2, <2>3, <1>1 DEF Run
  <2>4. CASE \E b \in Actions : Complete(b)
    <3>1. PICK b \in Actions : Complete(b)
      BY <2>4
    <3>2. b # a /\ outcome'[a] = outcome[a]
      BY <3>1, <2>1 DEF Complete, Answered
    <3> QED BY <3>1, <3>2, <2>2, <1>1 DEF Complete
  <2>5. CASE \E id \in Ids : ClearQueue(id)
    BY <2>5, <2>1, <1>1 DEF ClearQueue
  <2>6. CASE UNCHANGED <<inflight, outcome>>
    BY <2>6, <2>1, <1>1
  <2> QED BY <1>1, <2>3, <2>4, <2>5, <2>6 DEF Next, Enqueue, UpdatePriority, vars
<1>2. IInv /\ [Next]_vars => [\A a \in Actions : Good(a)]_vars
  BY <1>1
<1> QED BY <1>2, Invariance, PTL DEF Spec, CancelledForGood

-----------------------------------------------------------------------------
(* The refinement                                                          *)

LEMMA WaitingOf ==
  \A id \in Ids : Waiting[id] = Elems(queue[id]) /\ Waiting'[id] = Elems(queue'[id])
BY DEF Waiting

\* An entry is empty exactly when nothing of its id waits.
LEMMA EmptyWaits ==
  ASSUME NEW s \in Seq(Actions) PROVE s = <<>> <=> Elems(s) = {}
<1>1. s # <<>> => Head(s) = s[1] /\ 1 \in DOMAIN s
  BY HeadTailProperties, EmptySeq
<1>2. s = <<>> => DOMAIN s = {}
  OBVIOUS
<1> QED BY <1>1, <1>2 DEF Elems

\* What run() does once a dispatch is over, or when a timer starts it, is one
\* turn of the promises: what was served is answered and the best one is next.
LEMMA DispatchServes ==
  ASSUME IInv, DispatchNext({}), UNCHANGED <<prio, enqueued>>,
         NEW o \in {"resolved", "rejected"},
         outcome' = [b \in Actions |-> IF b \in inflight THEN o ELSE outcome[b]]
  PROVE  Promises!Turn
<1>1. queue \in [Ids -> Seq(Actions)]
  BY DEF IInv, TypeOK
<1>2. \A id \in Ids : queue[id] = <<>> <=> Waiting[id] = {}
  BY <1>1, EmptyWaits, WaitingOf
<1>3. CASE \E id \in Ids :
              /\ queue[id] # <<>>
              /\ \A other \in Ids : queue[other] # <<>> => prio[id] <= prio[other]
              /\ queue' = [queue EXCEPT ![id] = Tail(queue[id])]
              /\ inflight' = {} \cup {Head(queue[id])}
  <2>1. PICK id \in Ids :
              /\ queue[id] # <<>>
              /\ \A other \in Ids : queue[other] # <<>> => prio[id] <= prio[other]
              /\ queue' = [queue EXCEPT ![id] = Tail(queue[id])]
              /\ inflight' = {Head(queue[id])}
    BY <1>3
  <2> DEFINE h == Head(queue[id])
  <2>2. Ordered(queue[id])
    BY DEF IInv, QueueInv
  <2>3. /\ h \in Actions
        /\ Elems(queue[id]) = Elems(Tail(queue[id])) \cup {h}
        /\ h \notin Elems(Tail(queue[id]))
        /\ \A b \in Elems(queue[id]) : h <= b
    BY <1>1, <2>1, <2>2, TakeOldest
  <2>4. /\ queue'[id] = Tail(queue[id])
        /\ \A other \in Ids : other # id => queue'[other] = queue[other]
    BY <1>1, <2>1
  <2> HIDE DEF h
  <2>5. Elems(queue'[id]) = Waiting[id] \ {h}
    BY <2>3, <2>4, WaitingOf
  <2>6. Waiting' = [Waiting EXCEPT ![id] = @ \ {h}]
    BY <2>4, <2>5 DEF Waiting
  <2>7. Promises!Serve(id, h)
    BY <1>2, <2>1, <2>3, <2>6, WaitingOf DEF Promises!Serve, h
  <2> QED BY <2>3, <2>7 DEF Promises!Turn
<1>4. CASE (\A id \in Ids : queue[id] = <<>>) /\ queue' = queue /\ inflight' = {}
  <2>1. Waiting' = Waiting
    BY <1>4 DEF Waiting
  <2>2. Promises!Rest
    BY <1>2, <1>4, <2>1 DEF Promises!Rest
  <2> QED BY <2>2 DEF Promises!Turn
<1> QED BY <1>3, <1>4, Dequeues

\* Appending to an entry is asking for an action; an id that has no entry has
\* nothing waiting, so it may take the new priority.
LEMMA EnqueueAsks ==
  ASSUME IInv, NEW id \in Ids, NEW p \in Priorities, Enqueue(id, p)
  PROVE  Promises!Ask(id, p)
<1> DEFINE new == enqueued + 1
<1>1. new \in Actions /\ new \in Int /\ \A b \in 1..enqueued : b < new
  BY MaxActionsAssumption DEF Enqueue, IInv, TypeOK, Actions
<1>2. queue \in [Ids -> Seq(Actions)] /\ Ordered(queue[id])
  BY DEF IInv, TypeOK, QueueInv
<1>3. \A b \in Elems(queue[id]) : b < new
  BY <1>1 DEF IInv, QueueInv
<1>4. Elems(Append(queue[id], new)) = Elems(queue[id]) \cup {new}
  <2> HIDE DEF new
  <2> QED BY <1>1, <1>2, <1>3, AppendNewest
<1>5. queue' = [queue EXCEPT ![id] = Append(queue[id], new)]
  BY DEF Enqueue
<1>6. Waiting' = [Waiting EXCEPT ![id] = @ \cup {new}]
  <2> HIDE DEF new
  <2> QED BY <1>2, <1>4, <1>5 DEF Waiting
<1>7. id \notin entries => Waiting[id] = {}
  BY <1>2, EmptyWaits, WaitingOf DEF IInv, QueueInv
<1>8. prio' = prio \/ (Waiting[id] = {} /\ prio' = [prio EXCEPT ![id] = p])
  <2>1. CASE id \in entries
    <3>1. UpdateItem(id, prio[id]) /\ prio \in [Ids -> Priorities]
      BY <2>1 DEF Enqueue, IInv, TypeOK, HeapInv
    <3> QED BY <3>1 DEF UpdateItem
  <2>2. CASE id \notin entries
    BY <1>7, <2>2 DEF Enqueue, Push
  <2> QED BY <2>1, <2>2
<1> QED BY <1>1, <1>6, <1>8 DEF Promises!Ask, Enqueue

\* Rejecting the actions of an entry cancels what waits under its id.
LEMMA ClearQueueCancels ==
  ASSUME IInv, NEW id \in Ids, ClearQueue(id) PROVE Promises!Cancel(id)
<1>1. queue \in [Ids -> Seq(Actions)] /\ queue' = [queue EXCEPT ![id] = <<>>]
  BY DEF IInv, TypeOK, ClearQueue, Emptied
<1>2. Elems(<<>>) = {}
  BY DEF Elems
<1>3. Waiting' = [Waiting EXCEPT ![id] = {}]
  BY <1>1, <1>2 DEF Waiting
<1> QED BY <1>3, WaitingOf DEF Promises!Cancel, ClearQueue, heapVars

LEMMA UpdatePriorityRanks ==
  ASSUME NEW id \in Ids, NEW p \in Priorities, UpdatePriority(id, p)
  PROVE  Promises!Rank(id, p)
BY DEF UpdatePriority, UpdateItem, Promises!Rank, Waiting

LEMMA StepImplements == IInv /\ [Next]_vars => [Promises!Next]_(Promises!vars)
<1> SUFFICES ASSUME IInv, [Next]_vars PROVE Promises!Next \/ UNCHANGED Promises!vars
  OBVIOUS
<1>1. CASE Run
  <2>1. CASE running
    BY <1>1, <2>1 DEF Run, AlreadyRunning, Promises!vars, Waiting
  <2>2. CASE ~running
    <3>1. inflight = {} /\ DispatchNext({}) /\ UNCHANGED <<prio, enqueued>>
      BY <1>1, <2>2 DEF Run, AlreadyRunning, IInv, LoopInv
    <3>2. outcome' = [b \in Actions |-> IF b \in inflight THEN "resolved" ELSE outcome[b]]
      BY <1>1, <3>1 DEF Run, IInv, TypeOK
    <3> QED BY <3>1, <3>2, DispatchServes DEF Promises!Next
  <2> QED BY <2>1, <2>2
<1>2. CASE \E a \in Actions : Complete(a)
  <2>1. PICK a \in Actions : Complete(a)
    BY <1>2
  <2>2. inflight = {a} /\ inflight \ {a} = {}
    BY <2>1 DEF Complete, Answered, IInv, LoopInv, OneInFlight, TypeOK
  <2>3. DispatchNext({}) /\ UNCHANGED <<prio, enqueued>>
    BY <2>1, <2>2 DEF Complete
  <2>4. PICK o \in {"resolved", "rejected"} : outcome' = [outcome EXCEPT ![a] = o]
    BY <2>1 DEF Complete, Answered
  <2>5. outcome' = [b \in Actions |-> IF b \in inflight THEN o ELSE outcome[b]]
    BY <2>2, <2>4 DEF IInv, TypeOK
  <2> QED BY <2>3, <2>5, DispatchServes DEF Promises!Next
<1>3. CASE \E id \in Ids : ClearQueue(id)
  BY <1>3, ClearQueueCancels DEF Promises!Next
<1>4. CASE \E id \in Ids, p \in Priorities : Enqueue(id, p)
  BY <1>4, EnqueueAsks DEF Promises!Next
<1>5. CASE \E id \in Ids, p \in Priorities : UpdatePriority(id, p)
  BY <1>5, UpdatePriorityRanks DEF Promises!Next
<1>6. CASE UNCHANGED vars
  BY <1>6 DEF vars, heapVars, Promises!vars, Waiting
<1> QED BY <1>1, <1>2, <1>3, <1>4, <1>5, <1>6 DEF Next

\* The heap, its emptied and revived entries, the timers and the loop are
\* together nothing but PromiseQueue: each action is served or cancelled once,
\* one at a time, best first.
THEOREM Implementation == Spec => ImplementsPromises
<1>1. Init => Promises!Init
  BY DEF Init, HeapInit, Promises!Init, Waiting, Elems
<1> QED
  BY <1>1, StepImplements, Invariance, PTL
     DEF Spec, ImplementsPromises, Promises!Spec
=============================================================================
