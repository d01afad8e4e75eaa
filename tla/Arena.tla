-------------------------------- MODULE Arena --------------------------------
(* A slab with a LIFO free list, as thread.c keeps one of thread descriptors  *)
(* (hot_slab, thread_slab_next, thread_free_head) and one of stacks           *)
(* (stack_arena, stack_arena_next, stack_free_head).                          *)
(*                                                                            *)
(* a = [free |-> s, next |-> n]: the free list, its head first, and the       *)
(* number of items ever cut from the slab; the items are 1, 2, ...            *)
EXTENDS Integers, Sequences

ArenaInit == [free |-> <<>>, next |-> 0]

(* The allocator has nothing to give: it returns NULL.                        *)
MutExhausted(a, cap) == a.free = <<>> /\ a.next > cap  \* mutant: one item too many
Exhausted(a, cap) == a.free = <<>> /\ a.next >= cap

(* The item the allocator returns, and what it leaves.                        *)
Alloc(a) == IF a.free # <<>> THEN Head(a.free) ELSE a.next + 1

AfterAlloc(a) == IF a.free # <<>> THEN [a EXCEPT !.free = Tail(@)]
                                  ELSE [a EXCEPT !.next = @ + 1]

(* The release functions push the item back.                                  *)
Release(a, x) == [a EXCEPT !.free = <<x>> \o @]

(* What the other modules say of an arena: nothing is in the free list twice  *)
(* or before it is cut, and the other items have been handed out.             *)
ArenaOK(a, cap) ==
  /\ a \in [free : Seq(1 .. cap), next : 0 .. cap]
  /\ \A i \in DOMAIN a.free : a.free[i] <= a.next
  /\ \A i, j \in DOMAIN a.free : a.free[i] = a.free[j] => i = j

HandedOut(a) == {x \in 1 .. a.next : \A i \in DOMAIN a.free : a.free[i] # x}
=============================================================================
