-------------------------------- MODULE Heap --------------------------------
(***************************************************************************)
(* web-local/src/common/priority-action-queue/Heap.ts: the binary heap     *)
(* under PriorityActionQueue, as an array and a map from each item to its  *)
(* index.  The items are the queue's entries, one for each id.  The        *)
(* compare function is heapCompareFunc: the smaller number is the higher   *)
(* priority, and it may change while the item is in the heap.  Indexes     *)
(* count from 1 here and from 0 in the code.                               *)
(*                                                                         *)
(* Module ActionQueue extends this one and uses its heap; HeapSpec is the  *)
(* heap by itself, with delete(), which the queue does not call.           *)
(***************************************************************************)
EXTENDS Integers, Sequences

CONSTANTS Ids,         \* the ids of the queue entries
          Priorities   \* the numbers used as priorities

ASSUME PrioritiesAssumption == Priorities \subseteq Int

VARIABLES array,  \* the items, best first at index 1
          idxOf,  \* valueToIdxMap: a function on the items it has an entry for
          prio    \* metadata.priority of every item

heapVars == <<array, idxOf, prio>>

\* compareFunction(a, b) > 0 when p is the priority of the items
Above_mutReversed(p, a, b) == p[a] - p[b] > 0
Above(p, a, b) == p[b] - p[a] > 0

\* (idx - 1) >> 1
Parent(i) == i \div 2

Contents(a) == {a[i] : i \in 1..Len(a)}

-----------------------------------------------------------------------------
(* The moves, on the heap as one value.  A while loop is its body iterated *)
(* as often as there are items; when the code breaks, the body changes     *)
(* nothing more.                                                           *)

Swap(h, i, k) ==
  LET a == [h.array EXCEPT ![i] = h.array[k], ![k] = h.array[i]]
  IN  [array |-> a, idxOf |-> [h.idxOf EXCEPT ![a[i]] = i, ![a[k]] = k]]

UpOnce(p, m) ==
  IF m.at > 1 /\ Above(p, m.heap.array[m.at], m.heap.array[Parent(m.at)])
  THEN [heap |-> Swap(m.heap, m.at, Parent(m.at)), at |-> Parent(m.at)]
  ELSE m

Ups(p, h, i) ==
  LET m[n \in Nat] == IF n = 0 THEN [heap |-> h, at |-> i] ELSE UpOnce(p, m[n - 1])
  IN  m

\* The heap, and where the item has come to: it has moved if it is not at i.
MoveUp(p, h, i) == Ups(p, h, i)[Len(h.array)]

\* The better child of i, the left one on a tie.
BestChild_mutLeft(p, a, i) == 2 * i
BestChild(p, a, i) ==
  IF 2 * i + 1 <= Len(a) /\ Above(p, a[2 * i + 1], a[2 * i]) THEN 2 * i + 1 ELSE 2 * i

DownOnce(p, m) ==
  LET c == BestChild(p, m.heap.array, m.at)
  IN  IF 2 * m.at <= Len(m.heap.array) /\ Above(p, m.heap.array[c], m.heap.array[m.at])
      THEN [heap |-> Swap(m.heap, m.at, c), at |-> c]
      ELSE m

Downs(p, h, i) ==
  LET m[n \in Nat] == IF n = 0 THEN [heap |-> h, at |-> i] ELSE DownOnce(p, m[n - 1])
  IN  m

MoveDown(p, h, i) == Downs(p, h, i)[Len(h.array)].heap

-----------------------------------------------------------------------------
(* The operations                                                          *)

Pushed(p, h, v) ==
  LET n == Len(h.array) + 1
      m == [w \in DOMAIN h.idxOf \cup {v} |-> IF w = v THEN n ELSE h.idxOf[w]]
  IN  MoveUp(p, [array |-> Append(h.array, v), idxOf |-> m], n).heap

Forget(m, v) == [w \in DOMAIN m \ {v} |-> m[w]]

\* The item at index i leaves: the last item of the array takes its place.
Vacate_mutStaleMap(h, i) ==
  [array |-> SubSeq([h.array EXCEPT ![i] = h.array[Len(h.array)]], 1, Len(h.array) - 1),
   idxOf |-> Forget(h.idxOf, h.array[i])]
Vacate(h, i) ==
  LET n    == Len(h.array)
      last == h.array[n]
      m    == Forget(h.idxOf, h.array[i])
  IN  [array |-> SubSeq([h.array EXCEPT ![i] = last], 1, n - 1),
       idxOf |-> IF i = n THEN m ELSE [m EXCEPT ![last] = i]]

\* pop() takes index 0 out, delete() the index of its item.  The replacement is
\* moved down, never up: after delete(), where it may come from another branch,
\* the heap need not be in order.
TakenOut(p, h, i) == MoveDown(p, Vacate(h, i), i)

\* updateItem moves the item up, and down if it did not move up.
Updated(p, h, v) ==
  LET i  == h.idxOf[v]
      up == MoveUp(p, h, i)
  IN  IF up.at = i THEN MoveDown(p, h, i) ELSE up.heap

heap == [array |-> array, idxOf |-> idxOf]

Becomes(h) == array' = h.array /\ idxOf' = h.idxOf

HeapInit == /\ array = <<>>
            /\ idxOf = [v \in {} |-> 0]
            /\ prio \in [Ids -> Priorities]

\* Only pushed when PriorityActionQueue has no entry of that id.
Push(v, p) ==
  /\ v \notin Contents(array)
  /\ prio' = [prio EXCEPT ![v] = p]
  /\ Becomes(Pushed(prio', heap, v))

Pop == array # <<>> /\ Becomes(TakenOut(prio, heap, 1)) /\ UNCHANGED prio

Delete(v) ==
  /\ v \in DOMAIN idxOf
  /\ Becomes(TakenOut(prio, heap, idxOf[v])) /\ UNCHANGED prio

\* The caller has just changed the priority of the item (or not).
UpdateItem(v, p) ==
  /\ v \in DOMAIN idxOf
  /\ prio' = [prio EXCEPT ![v] = p]
  /\ Becomes(Updated(prio', heap, v))

\* What PriorityActionQueue calls, and delete().
QueueNext == Pop \/ \E v \in Ids, p \in Priorities : Push(v, p) \/ UpdateItem(v, p)
HeapNext == QueueNext \/ \E v \in Ids : Delete(v)

HeapSpec == HeapInit /\ [][HeapNext]_heapVars

-----------------------------------------------------------------------------
\* The map and the array agree: an item has an entry exactly when it is in the
\* array, and the entry is its index (updateItem and delete rely on it).
Exact(h) ==
  /\ DOMAIN h.idxOf = Contents(h.array)
  /\ \A i \in 1..Len(h.array) : h.idxOf[h.array[i]] = i
IndexExact == Exact(heap)

\* No item is above its parent.
InOrder(p, a) == \A i \in 2..Len(a) : ~Above(p, a[i], a[Parent(i)])

\* "Return value > 0 to have a above b in the heap": while nobody calls
\* delete(), every operation leaves the heap in order, and pop takes an item
\* that no other item is above, and nothing else.
PopsBest ==
  [][InOrder(prio, array) =>
       /\ QueueNext => InOrder(prio', array')
       /\ Pop => /\ Contents(array') = Contents(array) \ {array[1]}
                 /\ \A i \in 1..Len(array) : ~Above(prio, array[i], array[1])]_heapVars

\* The inductive invariant of the heap.
HeapInv ==
  /\ array \in Seq(Ids)
  /\ idxOf \in [Contents(array) -> Nat]
  /\ prio \in [Ids -> Priorities]
  /\ IndexExact
=============================================================================
