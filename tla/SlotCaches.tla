----------------------------- MODULE SlotCaches ------------------------------
(* The allocators of the M:N library (src/src/thread_mn.c): a pool shared     *)
(* under alloc_lock and a cache per worker.  Stacks and descriptors have the  *)
(* same code but for the order in which the pool is used: the free list and   *)
(* the part of the arena never handed out are one set here.                   *)
(*                                                                            *)
(* A cache belongs to the pthread of its worker and the calls mask SIGALRM,   *)
(* so a call is one step: its only access to shared state is one critical     *)
(* section of alloc_lock.                                                     *)
EXTENDS Integers, FiniteSets

CONSTANTS Slot, Worker,
          CacheMax,   \* T_CACHE_MAX, S_CACHE_MAX
          Refill      \* T_CACHE_REFILL, S_CACHE_REFILL

ASSUME CacheAssumption ==
  /\ IsFiniteSet(Slot) /\ IsFiniteSet(Worker)
  /\ CacheMax \in Nat
  /\ Refill \in 1 .. CacheMax

VARIABLES pool,    \* the free list and the rest of the arena
          cache,   \* the cache of each worker
          owned    \* what the callers hold

vars == <<pool, cache, owned>>

Init == pool = Slot /\ cache = [w \in Worker |-> {}] /\ owned = {}

(* A batch moved under alloc_lock: Refill slots, or all that are left.        *)
Batch(b, S) ==
  /\ b \subseteq S
  /\ Cardinality(b) = Refill \/ (b = S /\ Cardinality(S) < Refill)

AllocCached(w, s) ==
  /\ s \in cache[w]
  /\ cache' = [cache EXCEPT ![w] = @ \ {s}]
  /\ owned' = owned \cup {s}
  /\ UNCHANGED pool

(* An empty cache is refilled; one slot of the batch is for the caller.       *)
MutRest(b, s) == b  \* mutant: the caller's slot stays in the cache
Rest(b, s) == b \ {s}

AllocRefill(w, s) ==
  /\ cache[w] = {}
  /\ \E b \in SUBSET pool :
       /\ Batch(b, pool)
       /\ s \in b
       /\ pool' = pool \ b
       /\ cache' = [cache EXCEPT ![w] = Rest(b, s)]
  /\ owned' = owned \cup {s}

(* Neither has a slot: thread_create returns -1, lazy_stack_alloc aborts.     *)
Refused(w) == cache[w] = {} /\ pool = {}

MutRoom(w) == Cardinality(cache[w]) <= CacheMax  \* mutant: one too many
Room(w) == Cardinality(cache[w]) < CacheMax

ReleaseCached(w, s) ==
  /\ s \in owned
  /\ Room(w)
  /\ cache' = [cache EXCEPT ![w] = @ \cup {s}]
  /\ owned' = owned \ {s}
  /\ UNCHANGED pool

(* A full cache is flushed in part, and the slot goes to the pool too.        *)
MutReturned(b, s) == b  \* mutant: the slot itself is forgotten
Returned(b, s) == b \cup {s}

ReleaseFlushes(w, s) ==
  /\ s \in owned
  /\ ~Room(w)
  /\ \E b \in SUBSET cache[w] :
       /\ Batch(b, cache[w])
       /\ cache' = [cache EXCEPT ![w] = @ \ b]
       /\ pool' = pool \cup Returned(b, s)
  /\ owned' = owned \ {s}

Next ==
  \E w \in Worker, s \in Slot :
    \/ AllocCached(w, s) \/ AllocRefill(w, s)
    \/ ReleaseCached(w, s) \/ ReleaseFlushes(w, s)

Spec == Init /\ [][Next]_vars

-------------------------------------------------------------------------------
TypeOK ==
  /\ pool \subseteq Slot
  /\ cache \in [Worker -> {c \in SUBSET Slot : Cardinality(c) <= CacheMax}]
  /\ owned \subseteq Slot

(* A slot is in the pool, in one cache, or owned by the callers: no two       *)
(* threads get the same stack, whichever workers allocate and release it, and *)
(* none is lost.                                                              *)
InCache == UNION {cache[w] : w \in Worker}
SlotPartition ==
  /\ pool \cup InCache \cup owned = Slot
  /\ pool \cap (InCache \cup owned) = {}
  /\ InCache \cap owned = {}
  /\ \A v, w \in Worker : v # w => cache[v] \cap cache[w] = {}

(* The caches keep at most CacheMax each, so a worker is refused only when    *)
(* the free slots would fit into the caches of the others.                    *)
Slack == (Cardinality(Worker) - 1) * CacheMax
RefusedOnlyWhenScarce == \A w \in Worker : Refused(w) => Cardinality(Slot \ owned) <= Slack

(* The caches implement a plain pool: what a worker is given was nobody's.    *)
Pool == INSTANCE SlotPool
Given(w, s) == AllocCached(w, s) \/ AllocRefill(w, s)
PoolSpec ==
  /\ Pool!Spec
  /\ [][\A w \in Worker, s \in Slot : Given(w, s) => Pool!Alloc(s)]_vars
=============================================================================
