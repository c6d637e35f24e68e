---------------------------- MODULE PromiseQueue ----------------------------
(***************************************************************************)
(* What the queue of database actions promises its callers, without its    *)
(* heap, entries, timers and loop: each action that is asked for is one of *)
(* its id, which is served or cancelled once; one action is served at a    *)
(* time, the oldest of an id that no other waiting id outranks.            *)
(***************************************************************************)
EXTENDS Integers

CONSTANTS Ids, Priorities, Actions

VARIABLES asked,   \* the last action asked for
          waiting, \* the actions of each id that wait
          level,   \* the priority of each id
          current, \* the action that is served
          outcome

vars == <<asked, waiting, level, current, outcome>>

Init ==
  /\ asked = 0
  /\ waiting = [id \in Ids |-> {}]
  /\ level \in [Ids -> Priorities]
  /\ current = {}
  /\ outcome = [a \in Actions |-> "none"]

\* Whether an id that has nothing waiting takes the new priority depends on
\* whether its entry has been dropped: the callers cannot tell.
Ask(id, p) ==
  /\ asked' = asked + 1 /\ asked' \in Actions
  /\ waiting' = [waiting EXCEPT ![id] = @ \cup {asked'}]
  /\ level' = level \/ (waiting[id] = {} /\ level' = [level EXCEPT ![id] = p])
  /\ UNCHANGED <<current, outcome>>

\* What was served is answered, and the next one is served.
Serve(id, a) ==
  /\ a \in waiting[id] /\ \A b \in waiting[id] : a <= b
  /\ \A other \in Ids : waiting[other] # {} => level[id] <= level[other]
  /\ current' = {a}
  /\ waiting' = [waiting EXCEPT ![id] = @ \ {a}]

Rest ==
  /\ \A id \in Ids : waiting[id] = {}
  /\ current' = {} /\ UNCHANGED waiting

Turn ==
  /\ \E o \in {"resolved", "rejected"} :
       outcome' = [a \in Actions |-> IF a \in current THEN o ELSE outcome[a]]
  /\ Rest \/ \E id \in Ids, a \in Actions : Serve(id, a)
  /\ UNCHANGED <<asked, level>>

Cancel(id) ==
  /\ outcome' = [a \in Actions |-> IF a \in waiting[id] THEN "cancelled" ELSE outcome[a]]
  /\ waiting' = [waiting EXCEPT ![id] = {}]
  /\ UNCHANGED <<asked, level, current>>

Rank(id, p) ==
  /\ level' = [level EXCEPT ![id] = p]
  /\ UNCHANGED <<asked, waiting, current, outcome>>

Next ==
  \/ Turn
  \/ \E id \in Ids : Cancel(id) \/ \E p \in Priorities : Ask(id, p) \/ Rank(id, p)

Spec == Init /\ [][Next]_vars
=============================================================================
