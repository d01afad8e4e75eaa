------------------------------ MODULE SchedRing ------------------------------
(* The circular doubly linked list of src/src/scheduler.h.                    *)
(*                                                                            *)
(* A list is a record L = [next |-> f, prev |-> g] of two functions over the  *)
(* thread descriptors, the fields sched_next and sched_prev of thread_hot_t.  *)
(* The code keeps no header: the running thread, current, is the entry point, *)
(* and the ready threads are the others met on the way round.  The operators  *)
(* below perform the assignments of the C functions in their order, so they   *)
(* also say what happens when a function is called outside its contract (a    *)
(* thread enqueued twice, or substituted while it is already linked).         *)
EXTENDS Integers, FiniteSets, FiniteSetsExt

(* sched_enqueue: link t just before cur, the last place of the round.        *)
MutEnqueue(L, cur, t) ==  \* mutant: cur keeps its old predecessor
  [next |-> [L.next EXCEPT ![t] = cur, ![L.prev[cur]] = t],
   prev |-> [L.prev EXCEPT ![t] = L.prev[cur]]]
Enqueue(L, cur, t) ==
  LET prev == L.prev[cur] IN
  [next |-> [L.next EXCEPT ![t] = cur, ![prev] = t],
   prev |-> [L.prev EXCEPT ![t] = prev, ![cur] = t]]

(* is_sched_empty: cur is alone in the list.                                  *)
Alone(L, cur) == L.next[cur] = cur

(* sched_remove: unlink t; its own links keep their old values.               *)
Remove(L, t) ==
  [next |-> [L.next EXCEPT ![L.prev[t]] = L.next[t]],
   prev |-> [L.prev EXCEPT ![L.next[t]] = L.prev[t]]]

(* sched_replace: new takes the place of old.                                 *)
Replace(L, old, new) ==
  LET n     == L.next[old]
      next1 == [L.next EXCEPT ![new] = n]
      prev1 == [L.prev EXCEPT ![new] = L.prev[old]]
      prev2 == [prev1 EXCEPT ![n] = new]
  IN  IF next1[old] = old
      THEN [next |-> [next1 EXCEPT ![new] = new],
            prev |-> [prev1 EXCEPT ![new] = new]]
      ELSE [next |-> [next1 EXCEPT ![prev2[new]] = new],
            prev |-> prev2]

(* The elements f leads to from x: Iterate(f, x)[k] is f applied k times.     *)
Iterate(f, x) ==
  LET walk[k \in 0 .. Cardinality(DOMAIN f)] ==
        IF k = 0 THEN x ELSE f[walk[k - 1]]
  IN  walk

(* sched_pick_highest: on the round of the threads that follow cur, the first *)
(* one that none of the others exceeds in priority.                           *)
PickHighest(L, cur, priority) ==
  LET succ  == Iterate(L.next, cur)
      round == 1 .. Min({k \in DOMAIN succ \ {0} : succ[k] = cur}) - 1
      top   == {k \in round : \A j \in round : priority[succ[j]] <= priority[succ[k]]}
  IN  succ[Min(top)]

(* What the other modules say of a list.  Linked: inside S, next and prev are *)
(* inverse of each other.  Cycle: moreover S is a single cycle, for no smaller *)
(* part of it is closed under next.                                           *)
Linked(L, S) ==
  \A t \in S : /\ L.next[t] \in S /\ L.prev[L.next[t]] = t
              /\ L.prev[t] \in S /\ L.next[L.prev[t]] = t

Cycle(L, S) ==
  /\ Linked(L, S)
  /\ \A T \in SUBSET S : T # {} /\ (\A t \in T : L.next[t] \in T) => T = S
=============================================================================
