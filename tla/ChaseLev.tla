------------------------------- MODULE ChaseLev -------------------------------
(* The Chase-Lev deque of a worker: cl_push_bottom, cl_pop_bottom and         *)
(* cl_steal of src/src/scheduler_mn.c, one action per access to what owner    *)
(* and thieves share.                                                         *)
(*                                                                            *)
(* Memory is that of x86-64, where the assembly of the library runs: a load   *)
(* sees the latest store, except that the stores of the owner (the only one   *)
(* that stores; thieves only exchange) wait in its store buffer.  A store     *)
(* with seq_cst and a compare-exchange empty the buffer first; the relaxed    *)
(* and the release stores do not.                                             *)
EXTENDS Integers, Sequences, SequencesExt

CONSTANTS
  Thread,      \* the threads that are pushed, as pointers: positive integers
  Thief,       \* the other workers
  Cap,         \* CL_CAP
  IndexBound   \* bound: bottom goes no further

ASSUME DequeAssumption ==
  /\ Thread \subseteq Nat \ {0}
  /\ Thief \subseteq Nat \ {0}
  /\ Cap \in Nat \ {0}
  /\ IndexBound \in Nat

NULL   == 0
Owner  == 0
Worker == {Owner} \cup Thief
BOTTOM == Cap   \* the address of bottom, those of the items are 0 .. Cap - 1

VARIABLES
  top,
  mem,      \* bottom and items
  buffer,   \* the stores of the owner that the others do not see yet
  at,       \* the next access of each worker
  b, t,     \* its local variables b and t, 0 outside the call
  item,     \* and item
  answer,   \* what the last pop or steal returned, and to whom
  aborted

vars == <<top, mem, buffer, at, b, t, item, answer, aborted>>

Init ==
  /\ top = 0
  /\ mem = [a \in 0 .. Cap |-> 0]
  /\ buffer = <<>>
  /\ at = [w \in Worker |-> "idle"]
  /\ b = [w \in Worker |-> 0]
  /\ t = [w \in Worker |-> 0]
  /\ item = [w \in Worker |-> NULL]
  /\ answer = [worker |-> Owner, thread |-> NULL]
  /\ aborted = FALSE

(* What the owner reads: the last of its own stores first.                    *)
Own == [a \in 0 .. Cap |->
          LET stores == {i \in DOMAIN buffer : buffer[i].addr = a}
          IN  IF stores = {} THEN mem[a] ELSE buffer[Max(stores)].value]

Store(addr, value) == [addr |-> addr, value |-> value]

(* The processor carries out the oldest store of the buffer.                  *)
Drain ==
  /\ buffer # <<>>
  /\ mem' = [mem EXCEPT ![Head(buffer).addr] = Head(buffer).value]
  /\ buffer' = Tail(buffer)
  /\ UNCHANGED <<top, at, b, t, item, answer, aborted>>

At(w, place) == ~aborted /\ at[w] = place
Return(w, x) ==
  /\ at' = [at EXCEPT ![w] = "idle"]
  /\ answer' = [worker |-> w, thread |-> x]
  /\ b' = [b EXCEPT ![w] = 0] /\ t' = [t EXCEPT ![w] = 0] /\ item' = [item EXCEPT ![w] = NULL]

(* The threads of the deque, the oldest first, as its owner sees them: during *)
(* a pop the item at b is still there until the pop has decided.              *)
LogicalBottom == IF at[Owner] = "idle" THEN Own[BOTTOM] ELSE b[Owner] + 1
Queue == [i \in 1 .. LogicalBottom - top |-> Own[(top + i - 1) % Cap]]

-------------------------------------------------------------------------------
(* cl_push_bottom of a thread that is in no queue.  Its loads are of bottom,  *)
(* which nobody else stores, and of top; its two stores go to the buffer.     *)
Full == Own[BOTTOM] - top >= Cap

Push(x) ==
  /\ At(Owner, "idle")
  /\ x \notin ToSet(Queue)
  /\ Own[BOTTOM] < IndexBound
  /\ ~Full
  /\ buffer' = buffer \o <<Store(Own[BOTTOM] % Cap, x), Store(BOTTOM, Own[BOTTOM] + 1)>>
  /\ UNCHANGED <<top, mem, at, b, t, item, answer, aborted>>

PushAborts ==
  /\ At(Owner, "idle")
  /\ Full
  /\ aborted' = TRUE
  /\ UNCHANGED <<top, mem, buffer, at, b, t, item, answer>>

-------------------------------------------------------------------------------
(* cl_pop_bottom: the store of bottom, in order with the load of top; ...     *)
MutClaim(v) == buffer' = Append(buffer, Store(BOTTOM, v)) /\ UNCHANGED mem  \* mutant: release
Claim(v) == buffer = <<>> /\ mem' = [mem EXCEPT ![BOTTOM] = v] /\ UNCHANGED buffer

PopClaim ==
  /\ At(Owner, "idle")
  /\ b' = [b EXCEPT ![Owner] = Own[BOTTOM] - 1]
  /\ Claim(Own[BOTTOM] - 1)
  /\ at' = [at EXCEPT ![Owner] = "load top"]
  /\ UNCHANGED <<top, t, item, answer, aborted>>

(* ... the load of top: nothing left, ...                                     *)
PopEmpty ==
  /\ At(Owner, "load top")
  /\ b[Owner] < top
  /\ buffer' = Append(buffer, Store(BOTTOM, top))
  /\ Return(Owner, NULL)
  /\ UNCHANGED <<top, mem, aborted>>

(* ... an item that no thief can reach, ...                                   *)
Uncontended(i) == i > top

PopMany ==
  /\ At(Owner, "load top")
  /\ Uncontended(b[Owner])
  /\ Return(Owner, Own[b[Owner] % Cap])
  /\ UNCHANGED <<top, mem, buffer, aborted>>

(* ... or the last item: ...                                                  *)
PopLast ==
  /\ At(Owner, "load top")
  /\ b[Owner] = top
  /\ t' = [t EXCEPT ![Owner] = top]
  /\ item' = [item EXCEPT ![Owner] = Own[b[Owner] % Cap]]
  /\ at' = [at EXCEPT ![Owner] = "exchange"]
  /\ UNCHANGED <<top, mem, buffer, b, answer, aborted>>

(* ... the owner takes it unless a thief has.  bottom is b + 1 either way.    *)
Restored == b[Owner] + 1

PopExchange ==
  /\ At(Owner, "exchange")
  /\ buffer = <<>>
  /\ buffer' = <<Store(BOTTOM, Restored)>>
  /\ IF top = t[Owner]
     THEN top' = top + 1 /\ Return(Owner, item[Owner])
     ELSE top' = top /\ Return(Owner, NULL)
  /\ UNCHANGED <<mem, aborted>>

-------------------------------------------------------------------------------
(* cl_steal: loads of top, of bottom and of the item, then an exchange.       *)
StealTop(w) ==
  /\ At(w, "idle")
  /\ t' = [t EXCEPT ![w] = top]
  /\ at' = [at EXCEPT ![w] = "load bottom"]
  /\ UNCHANGED <<top, mem, buffer, b, item, answer, aborted>>

StealBottom(w) ==
  /\ At(w, "load bottom")
  /\ IF mem[BOTTOM] - t[w] <= 0
     THEN Return(w, NULL)
     ELSE at' = [at EXCEPT ![w] = "load item"] /\ UNCHANGED <<answer, b, t, item>>
  /\ UNCHANGED <<top, mem, buffer, aborted>>

StealItem(w) ==
  /\ At(w, "load item")
  /\ item' = [item EXCEPT ![w] = mem[t[w] % Cap]]
  /\ at' = [at EXCEPT ![w] = "exchange"]
  /\ UNCHANGED <<top, mem, buffer, b, t, answer, aborted>>

StealExchange(w) ==
  /\ At(w, "exchange")
  /\ IF top = t[w]
     THEN top' = top + 1 /\ Return(w, item[w])
     ELSE top' = top /\ Return(w, NULL)
  /\ UNCHANGED <<mem, buffer, aborted>>

-------------------------------------------------------------------------------
Next ==
  \/ Drain
  \/ \E x \in Thread : Push(x)
  \/ PushAborts
  \/ PopClaim \/ PopEmpty \/ PopMany \/ PopLast \/ PopExchange
  \/ \E w \in Thief : StealTop(w) \/ StealBottom(w) \/ StealItem(w) \/ StealExchange(w)

Spec == Init /\ [][Next \/ (aborted /\ UNCHANGED vars)]_vars

-------------------------------------------------------------------------------
(* The deque is a deque: the threads come out as they went in, each of them   *)
(* once, to the owner or to one thief, whatever the interleaving and however  *)
(* late the owner's stores are seen; and a pop finds nothing, or a push no    *)
(* room, only when that is so.                                                *)
Deque == INSTANCE AbstractDeque WITH queue <- Queue
DequeSpec == Deque!Spec
=============================================================================
