--------------------------- MODULE SlotCachesProofs --------------------------
(* SlotCaches for any number of slots and workers and any size of the caches. *)
EXTENDS SlotCaches, FiniteSetTheorems, FunctionTheorems, TLAPS

IInv == TypeOK /\ SlotPartition

LEMMA FiniteSlots == ASSUME NEW S \in SUBSET Slot PROVE IsFiniteSet(S) /\ Cardinality(S) \in Nat
BY CacheAssumption, FS_Subset, FS_CardinalityType

(* A batch is no larger than Refill.                                          *)
LEMMA BatchSize ==
  ASSUME NEW S \in SUBSET Slot, NEW b, Batch(b, S) PROVE Cardinality(b) <= Refill
<1>1. Cardinality(S) \in Nat /\ Refill \in Nat
  BY FiniteSlots, CacheAssumption
<1> QED
  BY <1>1 DEF Batch

LEMMA InitInv == Init => IInv
<1> SUFFICES ASSUME Init PROVE IInv
  OBVIOUS
<1>1. Cardinality({}) = 0 /\ CacheMax \in Nat
  BY FS_EmptySet, CacheAssumption
<1>2. TypeOK
  BY <1>1 DEF Init, TypeOK
<1>3. InCache = {}
  BY DEF Init, InCache
<1> QED
  BY <1>2, <1>3 DEF Init, IInv, SlotPartition

(* The caches after a step that changes that of w only.                       *)
LEMMA OneCache ==
  ASSUME NEW w \in Worker, NEW c \in SUBSET Slot, TypeOK, cache' = [cache EXCEPT ![w] = c]
  PROVE  /\ cache'[w] = c
         /\ \A v \in Worker \ {w} : cache'[v] = cache[v]
         /\ InCache' = c \cup UNION {cache[v] : v \in Worker \ {w}}
         /\ InCache = cache[w] \cup UNION {cache[v] : v \in Worker \ {w}}
<1>1. cache'[w] = c /\ \A v \in Worker \ {w} : cache'[v] = cache[v]
  BY DEF TypeOK
<1>2. InCache' = UNION {cache'[v] : v \in Worker}
  BY DEF InCache
<1> QED
  BY <1>1, <1>2 DEF InCache

(* A step that moves slots between the pool, one cache and the callers.       *)
LEMMA Moved ==
  ASSUME NEW w \in Worker, NEW c \in SUBSET Slot, IInv, cache' = [cache EXCEPT ![w] = c],
         pool' \cup c \cup owned' = pool \cup cache[w] \cup owned,
         pool' \cap c = {}, pool' \cap owned' = {}, c \cap owned' = {}
  PROVE  SlotPartition'
<1> DEFINE Others == UNION {cache[v] : v \in Worker \ {w}}
<1>1. /\ cache'[w] = c /\ \A v \in Worker \ {w} : cache'[v] = cache[v]
      /\ InCache' = c \cup Others /\ InCache = cache[w] \cup Others
  BY OneCache DEF IInv
<1>2. /\ pool \cup InCache \cup owned = Slot
      /\ pool \cap (InCache \cup owned) = {} /\ InCache \cap owned = {}
      /\ \A u, v \in Worker : u # v => cache[u] \cap cache[v] = {}
  BY DEF IInv, SlotPartition
<1>3. Others \cap (pool \cup cache[w] \cup owned) = {}
  BY <1>1, <1>2
<1>4. \A v \in Worker \ {w} : cache[v] \subseteq Others
  OBVIOUS
<1> HIDE DEF Others
<1>5. Others \cap (pool' \cup c \cup owned') = {}
  BY <1>3
<1>6. pool' \cup InCache' \cup owned' = Slot
  BY <1>1, <1>2
<1>7. pool' \cap (InCache' \cup owned') = {} /\ InCache' \cap owned' = {}
  BY <1>1, <1>5
<1>8. ASSUME NEW u \in Worker, NEW v \in Worker, u # v PROVE cache'[u] \cap cache'[v] = {}
  BY <1>1, <1>2, <1>4, <1>5, <1>8
<1> QED
  BY <1>6, <1>7, <1>8 DEF SlotPartition

(* The three places of the slots that a step of w may move.                   *)
LEMMA Disjoint ==
  ASSUME IInv, NEW w \in Worker
  PROVE  /\ pool \cap cache[w] = {} /\ pool \cap owned = {} /\ cache[w] \cap owned = {}
         /\ cache[w] \in SUBSET Slot
BY DEF IInv, TypeOK, SlotPartition, InCache

LEMMA AllocCachedStep ==
  ASSUME IInv, NEW w \in Worker, NEW s \in Slot, AllocCached(w, s) PROVE IInv'
<1> DEFINE c == cache[w] \ {s}
<1>1. c \in SUBSET Slot /\ cache' = [cache EXCEPT ![w] = c] /\ Cardinality(c) <= CacheMax
  <2>1. cache[w] \in SUBSET Slot /\ Cardinality(cache[w]) <= CacheMax
    BY DEF IInv, TypeOK
  <2>2. Cardinality(c) <= Cardinality(cache[w])
    BY <2>1, FiniteSlots, FS_Subset
  <2>3. Cardinality(c) \in Nat /\ Cardinality(cache[w]) \in Nat /\ CacheMax \in Nat
    BY <2>1, FiniteSlots, CacheAssumption
  <2> QED
    BY <2>1, <2>2, <2>3 DEF AllocCached
<1>2. TypeOK'
  BY <1>1 DEF IInv, TypeOK, AllocCached
<1>3. SlotPartition'
  <2>1. /\ pool' \cup c \cup owned' = pool \cup cache[w] \cup owned
        /\ pool' \cap c = {} /\ pool' \cap owned' = {} /\ c \cap owned' = {}
    BY <1>1, Disjoint DEF AllocCached
  <2> QED
    BY <1>1, <2>1, Moved
<1> QED
  BY <1>2, <1>3 DEF IInv

LEMMA AllocRefillStep ==
  ASSUME IInv, NEW w \in Worker, NEW s \in Slot, AllocRefill(w, s) PROVE IInv'
<1>1. PICK b \in SUBSET pool : /\ Batch(b, pool) /\ s \in b /\ pool' = pool \ b
                               /\ cache' = [cache EXCEPT ![w] = b \ {s}]
  BY DEF AllocRefill, Rest
<1> DEFINE c == b \ {s}
<1>2. b \in SUBSET Slot /\ c \in SUBSET Slot
  BY DEF IInv, TypeOK
<1>3. Cardinality(c) <= CacheMax
  <2>1. Cardinality(c) <= Cardinality(b) /\ Cardinality(c) \in Nat /\ Cardinality(b) \in Nat
    BY <1>2, FiniteSlots, FS_Subset
  <2>2. Cardinality(b) <= Refill
    BY <1>1, BatchSize DEF IInv, TypeOK
  <2> QED
    BY <2>1, <2>2, CacheAssumption
<1>4. TypeOK'
  BY <1>1, <1>2, <1>3 DEF IInv, TypeOK, AllocRefill
<1>5. SlotPartition'
  <2>1. /\ pool' \cup c \cup owned' = pool \cup cache[w] \cup owned
        /\ pool' \cap c = {} /\ pool' \cap owned' = {} /\ c \cap owned' = {}
    BY <1>1, <1>2, Disjoint DEF AllocRefill
  <2> QED
    BY <1>1, <1>2, <2>1, Moved
<1> QED
  BY <1>4, <1>5 DEF IInv

LEMMA ReleaseCachedStep ==
  ASSUME IInv, NEW w \in Worker, NEW s \in Slot, ReleaseCached(w, s) PROVE IInv'
<1> DEFINE c == cache[w] \cup {s}
<1>1. c \in SUBSET Slot /\ cache' = [cache EXCEPT ![w] = c] /\ Cardinality(c) <= CacheMax
  <2>1. cache[w] \in SUBSET Slot /\ Cardinality(cache[w]) < CacheMax
    BY DEF IInv, TypeOK, ReleaseCached, Room
  <2>2. Cardinality(c) <= Cardinality(cache[w]) + 1 /\ Cardinality(cache[w]) \in Nat
    <3>1. IsFiniteSet(cache[w]) /\ Cardinality(cache[w]) \in Nat
      BY <2>1, FiniteSlots
    <3>2. Cardinality(c) = IF s \in cache[w] THEN Cardinality(cache[w])
                           ELSE Cardinality(cache[w]) + 1
      BY <3>1, FS_AddElement
    <3> QED
      BY <3>1, <3>2
  <2>3. Cardinality(c) \in Nat /\ CacheMax \in Nat
    BY <2>1, FiniteSlots, CacheAssumption
  <2> QED
    BY <2>1, <2>2, <2>3 DEF ReleaseCached
<1>2. TypeOK'
  BY <1>1 DEF IInv, TypeOK, ReleaseCached
<1>3. SlotPartition'
  <2>1. /\ pool' \cup c \cup owned' = pool \cup cache[w] \cup owned
        /\ pool' \cap c = {} /\ pool' \cap owned' = {} /\ c \cap owned' = {}
    BY <1>1, Disjoint DEF ReleaseCached
  <2> QED
    BY <1>1, <2>1, Moved
<1> QED
  BY <1>2, <1>3 DEF IInv

LEMMA ReleaseFlushesStep ==
  ASSUME IInv, NEW w \in Worker, NEW s \in Slot, ReleaseFlushes(w, s) PROVE IInv'
<1>1. PICK b \in SUBSET cache[w] : /\ cache' = [cache EXCEPT ![w] = cache[w] \ b]
                                   /\ pool' = pool \cup b \cup {s}
  BY DEF ReleaseFlushes, Returned
<1> DEFINE c == cache[w] \ b
<1>2. c \in SUBSET Slot /\ b \in SUBSET Slot /\ Cardinality(c) <= CacheMax
  <2>1. cache[w] \in SUBSET Slot /\ Cardinality(cache[w]) <= CacheMax
    BY DEF IInv, TypeOK
  <2>2. Cardinality(c) <= Cardinality(cache[w])
    BY <2>1, FiniteSlots, FS_Subset
  <2>3. Cardinality(c) \in Nat /\ Cardinality(cache[w]) \in Nat /\ CacheMax \in Nat
    BY <2>1, FiniteSlots, CacheAssumption
  <2> QED
    BY <2>1, <2>2, <2>3
<1>3. TypeOK'
  BY <1>1, <1>2 DEF IInv, TypeOK, ReleaseFlushes
<1>4. SlotPartition'
  <2>1. /\ pool' \cup c \cup owned' = pool \cup cache[w] \cup owned
        /\ pool' \cap c = {} /\ pool' \cap owned' = {} /\ c \cap owned' = {}
    BY <1>1, <1>2, Disjoint DEF ReleaseFlushes
  <2> QED
    BY <1>1, <1>2, <2>1, Moved
<1> QED
  BY <1>3, <1>4 DEF IInv

LEMMA StepInv == IInv /\ [Next]_vars => IInv'
<1> SUFFICES ASSUME IInv, [Next]_vars PROVE IInv'
  OBVIOUS
<1>1. CASE UNCHANGED vars
  BY <1>1 DEF vars, IInv, TypeOK, SlotPartition, InCache
<1>2. ASSUME NEW w \in Worker, NEW s \in Slot,
             \/ AllocCached(w, s) \/ AllocRefill(w, s)
             \/ ReleaseCached(w, s) \/ ReleaseFlushes(w, s)
      PROVE  IInv'
  BY <1>2, AllocCachedStep, AllocRefillStep, ReleaseCachedStep, ReleaseFlushesStep
<1> QED
  BY <1>1, <1>2 DEF Next

(* Every slot is at one place and no cache exceeds its limit.                 *)
THEOREM Invariance == Spec => []IInv
BY InitInv, StepInv, PTL DEF Spec

(* stack_alloc, stack_release: no two threads own the same slot, none is lost.*)
THEOREM PartitionCorrect == Spec => []SlotPartition
<1>1. IInv => SlotPartition
  BY DEF IInv
<1> QED
  BY <1>1, Invariance, PTL

-------------------------------------------------------------------------------
(* The caches other than that of w can be numbered within their total size.   *)
LEMMA OthersFit ==
  ASSUME TypeOK, NEW w \in Worker, NEW S, S = UNION {cache[v] : v \in Worker \ {w}}
  PROVE  Cardinality(S) <= Slack
<1> DEFINE Others == Worker \ {w}
           Place  == Others \X (1 .. CacheMax)
           Has(x) == CHOOSE v \in Others : x \in cache[v]
           Rank(v) == CHOOSE f \in Injection(cache[v], 1 .. CacheMax) : TRUE
           number == [x \in S |-> <<Has(x), Rank(Has(x))[x]>>]
<1>1. \A x \in S : Has(x) \in Others /\ x \in cache[Has(x)]
  OBVIOUS
<1>2. ASSUME NEW v \in Others PROVE Rank(v) \in Injection(cache[v], 1 .. CacheMax)
  <2>1. cache[v] \in SUBSET Slot /\ Cardinality(cache[v]) <= CacheMax
    BY DEF TypeOK
  <2>2. PICK n \in Nat : n = Cardinality(cache[v]) /\ n <= CacheMax
    BY <2>1, FiniteSlots
  <2>3. ExistsBijection(1 .. n, cache[v])
    BY <2>1, <2>2, FiniteSlots, FS_CardinalityType
  <2>4. PICK g \in Bijection(cache[v], 1 .. n) : TRUE
    BY <2>3, Fun_ExistsBijSymmetric DEF ExistsBijection
  <2>5. g \in [cache[v] -> 1 .. n] /\ \A x, y \in cache[v] : g[x] = g[y] => x = y
    BY <2>4, Fun_BijectionProperties
  <2>6. g \in [cache[v] -> 1 .. CacheMax]
    BY <2>2, <2>5, CacheAssumption
  <2>7. g \in Injection(cache[v], 1 .. CacheMax)
    BY <2>5, <2>6, Fun_IsInj
  <2> QED
    BY <2>7
<1>3. ASSUME NEW v \in Others
      PROVE  /\ Rank(v) \in [cache[v] -> 1 .. CacheMax]
             /\ \A x, y \in cache[v] : Rank(v)[x] = Rank(v)[y] => x = y
  BY <1>2, Fun_InjectionProperties
<1> HIDE DEF Has, Rank
<1>4. number \in [S -> Place]
  BY <1>1, <1>3
<1>5. \A x, y \in S : number[x] = number[y] => x = y
  BY <1>1, <1>3
<1>6. number \in Injection(S, Place)
  BY <1>4, <1>5, Fun_IsInj
<1>7. /\ IsFiniteSet(Others) /\ Cardinality(Others) = Cardinality(Worker) - 1
      /\ IsFiniteSet(1 .. CacheMax) /\ Cardinality(1 .. CacheMax) = CacheMax
  <2>1. IsFiniteSet(Others) /\ Cardinality(Others) = Cardinality(Worker) - 1
    BY CacheAssumption, FS_RemoveElement
  <2>2. CacheMax \in Nat /\ 0 \in Int /\ 1 \in Int
    BY CacheAssumption
  <2>3. IsFiniteSet(1 .. CacheMax) /\ Cardinality(1 .. CacheMax) = CacheMax
    BY <2>2, FS_Interval
  <2> QED
    BY <2>1, <2>3
<1>8. IsFiniteSet(Place) /\ Cardinality(Place) = Slack
  <2>1. IsFiniteSet(Place) /\ Cardinality(Place) = Cardinality(Others) * Cardinality(1 .. CacheMax)
    BY <1>7, FS_Product
  <2> QED
    BY <1>7, <2>1 DEF Slack
<1> QED
  BY <1>6, <1>8, FS_Injection

(* lazy_stack_alloc aborts, and thread_create returns -1, only when the free  *)
(* slots would all fit into the caches of the other workers.                  *)
THEOREM RefusalCorrect == Spec => []RefusedOnlyWhenScarce
<1>1. ASSUME IInv PROVE RefusedOnlyWhenScarce
  <2> SUFFICES ASSUME NEW w \in Worker, Refused(w) PROVE Cardinality(Slot \ owned) <= Slack
    BY DEF RefusedOnlyWhenScarce
  <2>1. Slot \ owned = UNION {cache[v] : v \in Worker \ {w}}
    BY <1>1 DEF IInv, SlotPartition, InCache, Refused
  <2> QED
    BY <1>1, <2>1, OthersFit DEF IInv
<1> QED
  BY <1>1, Invariance, PTL

(* The caches implement a plain pool: what a worker is given was nobody's.    *)
THEOREM Refinement == Spec => PoolSpec
<1>1. Init => Pool!Init
  BY DEF Init, Pool!Init
<1>2. ASSUME IInv, NEW w \in Worker, NEW s \in Slot, Given(w, s) PROVE Pool!Alloc(s)
  <2>1. s \in Slot \ owned
    BY <1>2 DEF IInv, SlotPartition, InCache, Given, AllocCached, AllocRefill
  <2> QED
    BY <1>2, <2>1 DEF Given, AllocCached, AllocRefill, Pool!Alloc
<1>3. ASSUME IInv, [Next]_vars PROVE [Pool!Next]_owned
  <2>1. CASE UNCHANGED vars
    BY <2>1 DEF vars
  <2>2. ASSUME NEW w \in Worker, NEW s \in Slot, ReleaseCached(w, s) \/ ReleaseFlushes(w, s)
        PROVE  Pool!Free(s)
    BY <2>2 DEF ReleaseCached, ReleaseFlushes, Pool!Free
  <2> QED
    BY <1>2, <1>3, <2>1, <2>2 DEF Next, Given, Pool!Next
<1>4. IInv => \A w \in Worker, s \in Slot : Given(w, s) => Pool!Alloc(s)
  BY <1>2
<1>5. Spec => Pool!Spec
  BY <1>1, <1>3, Invariance, PTL DEF Spec, Pool!Spec
<1>6. Spec => [][\A w \in Worker, s \in Slot : Given(w, s) => Pool!Alloc(s)]_vars
  BY <1>4, Invariance, PTL
<1> QED
  BY <1>5, <1>6 DEF PoolSpec
===============================================================================
