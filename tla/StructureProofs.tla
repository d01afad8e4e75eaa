--------------------------- MODULE StructureProofs ---------------------------
(* What the operators of SchedRing do to a list that is one cycle, those of   *)
(* Arena to an arena of at most cap items, and those of UnionFind to a        *)
(* forest.                                                                    *)
EXTENDS SchedRing, Arena, UnionFind, SequenceTheorems, FiniteSetTheorems, WellFoundedInduction, TLAPS

(* The links of a list, over descriptors D; 0 is NULL.                        *)
Links(D) == [next : [D -> D \cup {0}], prev : [D -> D \cup {0}]]

(* The successor and the predecessor of a member are members.                 *)
LEMMA CycleClosed ==
  ASSUME NEW D, NEW L \in Links(D), NEW S \in SUBSET D, NEW t \in S, Cycle(L, S)
  PROVE  L.next[t] \in S /\ L.prev[t] \in S
BY DEF Cycle, Linked

(* The head of a list is alone in it exactly when it is the only member, and  *)
(* its two neighbours are others when it is not.                              *)
LEMMA AloneCycle ==
  ASSUME NEW D, NEW L \in Links(D), NEW S \in SUBSET D, NEW t \in S, Cycle(L, S)
  PROVE  /\ Alone(L, t) => S = {t}
         /\ ~Alone(L, t) => L.next[t] \in S \ {t} /\ L.prev[t] \in S \ {t}
<1>1. Alone(L, t) => S = {t}
  <2> SUFFICES ASSUME Alone(L, t) PROVE S = {t}
    OBVIOUS
  <2>1. {t} \in SUBSET S /\ {t} # {} /\ \A x \in {t} : L.next[x] \in {t}
    BY DEF Alone
  <2>2. \A T \in SUBSET S : T # {} /\ (\A x \in T : L.next[x] \in T) => T = S
    BY DEF Cycle
  <2> QED
    BY <2>1, <2>2
<1>2. ~Alone(L, t) => L.next[t] # t /\ L.prev[t] # t
  BY DEF Alone, Cycle, Linked
<1> QED
  BY <1>1, <1>2, CycleClosed

(* sched_enqueue of a thread that is not in the list adds it.                 *)
LEMMA EnqueueCycle ==
  ASSUME NEW D, NEW L \in Links(D), NEW S \in SUBSET D,
         NEW cur \in S, NEW t \in D \ S, Cycle(L, S)
  PROVE  /\ Enqueue(L, cur, t) \in Links(D)
         /\ Cycle(Enqueue(L, cur, t), S \cup {t})
<1> DEFINE p == L.prev[cur]
           M == Enqueue(L, cur, t)
<1>1. p \in S /\ L.next[p] = cur
  BY DEF Cycle, Linked
<1>2. M = [next |-> [L.next EXCEPT ![t] = cur, ![p] = t],
           prev |-> [L.prev EXCEPT ![t] = p, ![cur] = t]]
  BY DEF Enqueue
<1>3. /\ \A x \in D : M.next[x] = IF x = p THEN t ELSE IF x = t THEN cur ELSE L.next[x]
      /\ \A x \in D : M.prev[x] = IF x = cur THEN t ELSE IF x = t THEN p ELSE L.prev[x]
  BY <1>1, <1>2 DEF Links
<1>4. M \in Links(D)
  BY <1>1, <1>2 DEF Links
<1>5. Linked(M, S \cup {t})
  BY <1>1, <1>3 DEF Cycle, Linked
<1>6. ASSUME NEW T \in SUBSET (S \cup {t}), T # {}, \A x \in T : M.next[x] \in T
      PROVE  T = S \cup {t}
  <2>1. T \ {t} # {}
    BY <1>1, <1>3, <1>6
  <2>2. \A x \in T \ {t} : L.next[x] \in T \ {t}
    BY <1>1, <1>3, <1>6 DEF Cycle, Linked
  <2>3. T \ {t} = S
    BY <2>1, <2>2 DEF Cycle
  <2>4. t \in T
    BY <1>1, <1>3, <1>6, <2>3
  <2> QED
    BY <2>3, <2>4
<1> QED
  BY <1>4, <1>5, <1>6 DEF Cycle

(* sched_remove of a member that is not alone takes it out.                   *)
LEMMA RemoveCycle ==
  ASSUME NEW D, NEW L \in Links(D), NEW S \in SUBSET D,
         NEW t \in S, Cycle(L, S), ~Alone(L, t)
  PROVE  /\ Remove(L, t) \in Links(D)
         /\ Cycle(Remove(L, t), S \ {t})
<1> DEFINE p == L.prev[t]
           n == L.next[t]
           M == Remove(L, t)
<1>1. p \in S \ {t} /\ n \in S \ {t} /\ L.next[p] = t /\ L.prev[n] = t
  <2>1. L.next[p] = t /\ L.prev[n] = t
    BY DEF Cycle, Linked
  <2> QED
    BY <2>1, AloneCycle
<1>2. M = [next |-> [L.next EXCEPT ![p] = n], prev |-> [L.prev EXCEPT ![n] = p]]
  BY DEF Remove
<1>3. /\ \A x \in D : M.next[x] = IF x = p THEN n ELSE L.next[x]
      /\ \A x \in D : M.prev[x] = IF x = n THEN p ELSE L.prev[x]
  BY <1>1, <1>2 DEF Links
<1>4. M \in Links(D)
  BY <1>1, <1>2 DEF Links
<1>5. Linked(M, S \ {t})
  BY <1>1, <1>3 DEF Cycle, Linked
<1>6. ASSUME NEW T \in SUBSET (S \ {t}), T # {}, \A x \in T : M.next[x] \in T
      PROVE  T = S \ {t}
  <2>1. CASE p \in T
    <3>1. \A x \in T \cup {t} : L.next[x] \in T \cup {t}
      BY <1>1, <1>3, <1>6, <2>1
    <3>2. \A U \in SUBSET S : U # {} /\ (\A x \in U : L.next[x] \in U) => U = S
      BY DEF Cycle
    <3>3. T \cup {t} \in SUBSET S /\ T \cup {t} # {}
      OBVIOUS
    <3>4. T \cup {t} = S
      BY <3>1, <3>2, <3>3
    <3> QED
      BY <3>4
  <2>2. CASE p \notin T
    <3>1. \A x \in T : L.next[x] \in T
      BY <1>3, <1>6, <2>2
    <3>2. T = S
      BY <1>6, <3>1 DEF Cycle
    <3> QED
      BY <1>6, <3>2
  <2> QED
    BY <2>1, <2>2
<1> QED
  BY <1>4, <1>5, <1>6 DEF Cycle

(* sched_replace of a member by a thread that is not one substitutes it.      *)
LEMMA ReplaceCycle ==
  ASSUME NEW D, NEW L \in Links(D), NEW S \in SUBSET D,
         NEW old \in S, NEW new \in D \ S, Cycle(L, S)
  PROVE  /\ Replace(L, old, new) \in Links(D)
         /\ Cycle(Replace(L, old, new), (S \ {old}) \cup {new})
<1> DEFINE p == L.prev[old]
           n == L.next[old]
           M == Replace(L, old, new)
           R == (S \ {old}) \cup {new}
<1>1. p \in S /\ n \in S /\ L.next[p] = old /\ L.prev[n] = old
  BY DEF Cycle, Linked
<1>2. CASE Alone(L, old)
  <2>1. M = [next |-> [L.next EXCEPT ![new] = new], prev |-> [L.prev EXCEPT ![new] = new]]
    BY <1>2 DEF Replace, Alone, Links
  <2>2. R = {new}
    BY <1>2, AloneCycle
  <2>3. M \in Links(D) /\ M.next[new] = new /\ M.prev[new] = new
    BY <2>1 DEF Links
  <2> QED
    BY <2>2, <2>3 DEF Cycle, Linked
<1>3. CASE ~Alone(L, old)
  <2>1. p \in S \ {old} /\ n \in S \ {old}
    BY <1>3, AloneCycle
  <2>2. M = [next |-> [L.next EXCEPT ![new] = n, ![p] = new],
             prev |-> [L.prev EXCEPT ![new] = p, ![n] = new]]
    BY <1>1, <1>3, <2>1 DEF Replace, Alone, Links
  <2>3. /\ \A x \in D : M.next[x] = IF x = p THEN new ELSE IF x = new THEN n ELSE L.next[x]
        /\ \A x \in D : M.prev[x] = IF x = n THEN new ELSE IF x = new THEN p ELSE L.prev[x]
    BY <1>1, <2>2 DEF Links
  <2>4. M \in Links(D)
    BY <1>1, <2>2 DEF Links
  <2>5. Linked(M, R)
    BY <1>1, <2>1, <2>3 DEF Cycle, Linked
  <2>6. ASSUME NEW T \in SUBSET R, T # {}, \A x \in T : M.next[x] \in T
        PROVE  T = R
    <3> DEFINE U == IF new \in T THEN (T \ {new}) \cup {old} ELSE T
    <3>1. \A x \in U : L.next[x] \in U
      BY <1>1, <2>1, <2>3, <2>6 DEF Cycle, Linked
    <3>2. U = S
      BY <2>6, <3>1 DEF Cycle
    <3> QED
      BY <2>6, <3>2
  <2> QED
    BY <2>4, <2>5, <2>6 DEF Cycle
<1> QED
  BY <1>2, <1>3

-------------------------------------------------------------------------------
(* A nonempty set of numbers has a least element: the least of the intervals  *)
(* from zero, which are finite sets.                                          *)
LEMMA Least ==
  ASSUME NEW T \in SUBSET Nat, T # {}
  PROVE  \E m \in T : \A k \in T : m <= k
<1> DEFINE U == {0 .. k : k \in T}
           R == StrictSubsetOrdering(Nat)
<1>1. U # {} /\ U \subseteq FiniteSubsetsOf(Nat)
  <2>1. ASSUME NEW k \in T PROVE 0 .. k \in FiniteSubsetsOf(Nat)
    <3>1. k \in Nat /\ 0 .. k \subseteq Nat
      OBVIOUS
    <3>2. IsFiniteSet(0 .. k)
      BY <3>1, FS_Interval
    <3> QED
      BY <3>1, <3>2 DEF FiniteSubsetsOf
  <2> QED
    BY <2>1
<1>2. IsWellFoundedOn(R, FiniteSubsetsOf(Nat))
  BY FS_StrictSubsetOrderingWellFounded
<1> HIDE DEF R
<1>3. PICK x \in U : \A y \in U : ~(<<y, x>> \in R)
  <2> HIDE DEF U
  <2> QED
    BY <1>1, <1>2, WFMin
<1>4. PICK m \in T : x = 0 .. m
  BY <1>3
<1>5. ASSUME NEW k \in T PROVE m <= k
  <2>1. k \in Nat /\ m \in Nat
    OBVIOUS
  <2>2. SUFFICES ASSUME k < m PROVE FALSE
    BY <2>1
  <2>3. 0 .. k \subseteq 0 .. m /\ m \in 0 .. m /\ m \notin 0 .. k
    BY <2>1, <2>2
  <2>4. 0 .. k \in SUBSET Nat /\ 0 .. m \in SUBSET Nat /\ 0 .. k # 0 .. m
    BY <2>1, <2>3
  <2>5. <<0 .. k, 0 .. m>> \in R
    BY <2>3, <2>4 DEF R, StrictSubsetOrdering
  <2> QED
    BY <1>3, <1>4, <2>5
<1> QED
  BY <1>5

(* A recursion along an interval defines a function.                          *)
Walked(f, x, n, w) == [k \in 0 .. n |-> IF k = 0 THEN x ELSE f[w[k - 1]]]

LEMMA Recursion ==
  ASSUME NEW f, NEW x, NEW n \in Nat
  PROVE  \E w : w = Walked(f, x, n, w)
<1> DEFINE Walk(m, w) == [k \in 0 .. m |-> IF k = 0 THEN x ELSE f[w[k - 1]]]
           Bad == {m \in Nat : \A w : w # Walk(m, w)}
<1>1. Bad = {}
  <2>1. SUFFICES ASSUME Bad # {} PROVE FALSE
    OBVIOUS
  <2>2. PICK m \in Bad : \A k \in Bad : m <= k
    <3>1. Bad \in SUBSET Nat
      OBVIOUS
    <3> HIDE DEF Bad
    <3> QED
      BY <2>1, <3>1, Least
  <2>3. m # 0
    <3> DEFINE w == [k \in 0 .. 0 |-> x]
    <3>1. w = Walk(0, w)
      OBVIOUS
    <3> QED
      BY <3>1
  <2>4. m \in Nat /\ m - 1 \in Nat /\ ~(m <= m - 1)
    BY <2>3
  <2>5. PICK w : w = Walk(m - 1, w)
    BY <2>2, <2>4
  <2> DEFINE v == [k \in 0 .. m |-> IF k = m THEN f[w[m - 1]] ELSE w[k]]
  <2>6. \A k \in 0 .. m - 1 : w[k] = IF k = 0 THEN x ELSE f[w[k - 1]]
    BY <2>5
  <2>7. ASSUME NEW k \in 0 .. m PROVE v[k] = IF k = 0 THEN x ELSE f[v[k - 1]]
    <3>1. CASE k = m
      <4>1. m - 1 \in 0 .. m /\ m - 1 # m
        BY <2>4
      <4>2. v[m] = f[w[m - 1]] /\ v[m - 1] = w[m - 1]
        BY <2>4, <4>1
      <4> QED
        BY <2>3, <3>1, <4>2
    <3>2. CASE k # m
      <4>1. k \in 0 .. m - 1 /\ (k # 0 => k - 1 \in 0 .. m /\ k - 1 # m)
        BY <2>4, <3>2
      <4>2. v[k] = w[k] /\ (k # 0 => v[k - 1] = w[k - 1])
        BY <3>2, <4>1
      <4> QED
        BY <2>6, <4>1, <4>2
    <3> QED
      BY <3>1, <3>2
  <2>8. v = [k \in 0 .. m |-> v[k]]
    OBVIOUS
  <2> HIDE DEF v
  <2>9. v = Walk(m, v)
    BY <2>7, <2>8
  <2> QED
    BY <2>9
<1>2. SUFFICES ASSUME \A w : w # Walk(n, w) PROVE FALSE
  BY DEF Walked
<1>3. n \in Bad
  BY <1>2
<1> QED
  BY <1>1, <1>3

(* Iterate(f, x) starts at x and follows f.                                   *)
LEMMA IterateDef ==
  ASSUME NEW f, NEW x, NEW n \in Nat, n = Cardinality(DOMAIN f)
  PROVE  /\ DOMAIN Iterate(f, x) = 0 .. n
         /\ Iterate(f, x)[0] = x
         /\ \A k \in 1 .. n : Iterate(f, x)[k] = f[Iterate(f, x)[k - 1]]
<1> DEFINE walk == CHOOSE w : w = Walked(f, x, n, w)
<1>1. walk = Walked(f, x, n, walk)
  BY Recursion
<1>2. Iterate(f, x) = walk
  BY DEF Iterate, Walked
<1> HIDE DEF walk
<1> QED
  BY <1>1, <1>2 DEF Walked

(* The minimum of a nonempty set of numbers.                                  *)
LEMMA MinOf ==
  ASSUME NEW T \in SUBSET Nat, T # {}
  PROVE  Min(T) \in T /\ \A k \in T : Min(T) <= k
<1>1. \E m \in T : \A k \in T : m <= k
  BY Least
<1> QED
  BY <1>1 DEF Min

(* One of finitely many numbers is the greatest.                              *)
LEMMA Greatest ==
  ASSUME NEW n \in Nat, n # 0, NEW f, \A k \in 1 .. n : f[k] \in Int
  PROVE  \E k \in 1 .. n : \A j \in 1 .. n : f[j] <= f[k]
<1> DEFINE Has(m) == \E k \in 1 .. m : \A j \in 1 .. m : f[j] <= f[k]
           Bad == {m \in 1 .. n : ~Has(m)}
<1>1. SUFFICES ASSUME Bad # {} PROVE FALSE
  <2>1. n \in 1 .. n
    OBVIOUS
  <2> QED
    BY <2>1
<1>2. PICK m \in Bad : \A k \in Bad : m <= k
  <2>1. Bad \in SUBSET Nat
    OBVIOUS
  <2> HIDE DEF Bad
  <2> QED
    BY <1>1, <2>1, Least
<1>3. m \in 1 .. n /\ ~Has(m)
  OBVIOUS
<1>4. CASE m = 1
  <2>1. 1 .. m = {1} /\ f[1] <= f[1]
    BY <1>3, <1>4
  <2> QED
    BY <1>3, <2>1
<1>5. CASE m # 1
  <2>1. m - 1 \in 1 .. n /\ ~(m <= m - 1) /\ 1 .. m = (1 .. m - 1) \cup {m}
    BY <1>3, <1>5
  <2>2. PICK k \in 1 .. m - 1 : \A j \in 1 .. m - 1 : f[j] <= f[k]
    BY <1>2, <2>1
  <2>3. k \in 1 .. m /\ k \in 1 .. n /\ m \in 1 .. m
    BY <1>3, <2>1
  <2>4. CASE f[m] <= f[k]
    <3>1. \A j \in 1 .. m : f[j] <= f[k]
      BY <2>1, <2>2, <2>4
    <3> QED
      BY <1>3, <2>3, <3>1
  <2>5. CASE ~(f[m] <= f[k])
    <3>1. ASSUME NEW j \in 1 .. m PROVE f[j] <= f[m]
      <4>1. j \in 1 .. n
        BY <1>3
      <4>2. f[j] \in Int /\ f[k] \in Int /\ f[m] \in Int
        BY <1>3, <2>3, <4>1
      <4>3. j = m \/ f[j] <= f[k]
        BY <2>1, <2>2
      <4> QED
        BY <2>5, <4>2, <4>3
    <3> QED
      BY <1>3, <2>3, <3>1
  <2> QED
    BY <2>4, <2>5
<1> QED
  BY <1>4, <1>5

(* sched_pick_highest, called with a list that is one cycle and with somebody *)
(* else than cur in it, returns one of the others, and none of them has a     *)
(* higher priority.                                                           *)
LEMMA PickHighestCycle ==
  ASSUME NEW D, IsFiniteSet(D), NEW L \in Links(D), NEW S \in SUBSET D,
         NEW cur \in S, Cycle(L, S), ~Alone(L, cur),
         NEW priority, \A t \in S : priority[t] \in Int
  PROVE  /\ PickHighest(L, cur, priority) \in S \ {cur}
         /\ \A t \in S \ {cur} : priority[t] <= priority[PickHighest(L, cur, priority)]
<1> DEFINE n == Cardinality(D)
           succ == Iterate(L.next, cur)
           back == {k \in DOMAIN succ \ {0} : succ[k] = cur}
           p == Min(back)
           round == 1 .. p - 1
           top == {k \in round : \A j \in round : priority[succ[j]] <= priority[succ[k]]}
<1>1. PickHighest(L, cur, priority) = succ[Min(top)]
  BY DEF PickHighest
<1>2. n \in Nat
  BY FS_CardinalityType
<1>3. /\ DOMAIN succ = 0 .. n /\ succ[0] = cur
      /\ \A k \in 1 .. n : succ[k] = L.next[succ[k - 1]]
  <2>1. DOMAIN L.next = D
    BY DEF Links
  <2>2. n = Cardinality(DOMAIN L.next)
    BY <2>1
  <2> HIDE DEF n
  <2> QED
    BY <1>2, <2>2, IterateDef
<1>4. \A t \in S : L.next[t] \in S /\ L.prev[t] \in S /\ L.prev[L.next[t]] = t
  BY DEF Cycle, Linked
<1> HIDE DEF n, succ
<1>5. \A k \in 0 .. n : succ[k] \in S
  <2> DEFINE Bad == {k \in 0 .. n : succ[k] \notin S}
  <2>1. SUFFICES ASSUME Bad # {} PROVE FALSE
    OBVIOUS
  <2>2. PICK m \in Bad : \A k \in Bad : m <= k
    <3>1. Bad \in SUBSET Nat
      OBVIOUS
    <3> HIDE DEF Bad
    <3> QED
      BY <2>1, <3>1, Least
  <2>3. m \in 1 .. n /\ m - 1 \in 0 .. n /\ ~(m <= m - 1)
    BY <1>2, <1>3
  <2>4. succ[m - 1] \in S
    BY <2>2, <2>3
  <2> QED
    BY <1>3, <1>4, <2>3, <2>4
<1>6. back # {}
  <2> DEFINE Bad == {i \in 0 .. n : \E j \in 0 .. n : i < j /\ succ[i] = succ[j]}
  <2>1. SUFFICES ASSUME back = {} PROVE FALSE
    OBVIOUS
  <2>2. \A k \in 1 .. n : succ[k] # cur
    BY <1>3, <2>1
  <2>3. Bad = {}
    <3>1. SUFFICES ASSUME Bad # {} PROVE FALSE
      OBVIOUS
    <3>2. PICK i \in Bad : \A k \in Bad : i <= k
      <4>1. Bad \in SUBSET Nat
        OBVIOUS
      <4> HIDE DEF Bad
      <4> QED
        BY <3>1, <4>1, Least
    <3>3. PICK j \in 0 .. n : i < j /\ succ[i] = succ[j]
      OBVIOUS
    <3>4. i \in 0 .. n /\ j \in 1 .. n
      BY <3>3
    <3>5. i # 0
      BY <1>3, <2>2, <3>3, <3>4
    <3>6. /\ i \in 1 .. n /\ i - 1 \in 0 .. n /\ j - 1 \in 0 .. n /\ i - 1 < j - 1
          /\ ~(i <= i - 1)
      BY <1>2, <3>3, <3>4, <3>5
    <3>7. L.next[succ[i - 1]] = L.next[succ[j - 1]] /\ succ[i - 1] \in S /\ succ[j - 1] \in S
      BY <1>3, <1>5, <3>3, <3>4, <3>6
    <3>8. succ[i - 1] = succ[j - 1]
      BY <1>4, <3>7
    <3> QED
      BY <3>2, <3>6, <3>8
  <2>4. PICK x, y \in 0 .. n : x # y /\ succ[x] = succ[y]
    <3> DEFINE g == [k \in 0 .. n |-> succ[k]]
    <3>1. g \in [0 .. n -> D]
      BY <1>5
    <3>2. IsFiniteSet(0 .. n) /\ Cardinality(0 .. n) = IF 0 > n THEN 0 ELSE n - 0 + 1
      BY <1>2, FS_Interval
    <3>3. Cardinality(D) < Cardinality(0 .. n)
      BY <1>2, <3>2 DEF n
    <3> HIDE DEF g
    <3>4. \E x, y \in 0 .. n : x # y /\ g[x] = g[y]
      BY <3>1, <3>2, <3>3, FS_PigeonHole
    <3> QED
      BY <3>4 DEF g
  <2>5. x < y \/ y < x
    BY <1>2, <2>4
  <2> QED
    BY <2>3, <2>4, <2>5
<1>7. p \in 1 .. n /\ succ[p] = cur /\ \A k \in 1 .. n : succ[k] = cur => p <= k
  <2>1. back = {k \in 1 .. n : succ[k] = cur}
    BY <1>2, <1>3
  <2>2. p \in back /\ \A k \in back : p <= k
    <3>1. back \in SUBSET Nat
      BY <2>1
    <3> HIDE DEF back
    <3> QED
      BY <1>6, <3>1, MinOf
  <2> HIDE DEF p
  <2> QED
    BY <2>1, <2>2
<1> HIDE DEF back, p
<1>8. S = {succ[k] : k \in 0 .. p - 1}
  <2> DEFINE T == {succ[k] : k \in 0 .. p - 1}
  <2>1. T \in SUBSET S /\ cur \in T
    <3>1. \A k \in 0 .. p - 1 : k \in 0 .. n
      BY <1>2, <1>7
    <3>2. 0 \in 0 .. p - 1
      BY <1>2, <1>7
    <3> QED
      BY <1>3, <1>5, <3>1, <3>2
  <2>2. ASSUME NEW k \in 0 .. p - 1 PROVE L.next[succ[k]] \in T
    <3>1. k + 1 \in 1 .. n /\ (k + 1) - 1 = k /\ (k + 1 \in 0 .. p - 1 \/ k + 1 = p)
      BY <1>2, <1>7
    <3>2. L.next[succ[k]] = succ[k + 1]
      BY <1>3, <3>1
    <3> QED
      BY <1>7, <2>1, <3>1, <3>2
  <2>3. \A t \in T : L.next[t] \in T
    BY <2>2
  <2>4. T # {}
    BY <2>1
  <2> HIDE DEF T
  <2>5. T = S
    BY <2>1, <2>3, <2>4 DEF Cycle
  <2> QED
    BY <2>5 DEF T
<1>9. S \ {cur} = {succ[k] : k \in round}
  <2>1. ASSUME NEW k \in round PROVE succ[k] \in S \ {cur}
    <3>1. k \in 1 .. n /\ k \in 0 .. n /\ ~(p <= k)
      BY <1>2, <1>7
    <3> QED
      BY <1>5, <1>7, <3>1
  <2>2. ASSUME NEW t \in S \ {cur} PROVE \E k \in round : t = succ[k]
    <3>1. PICK k \in 0 .. p - 1 : t = succ[k]
      BY <1>8
    <3>2. k # 0
      BY <1>3, <3>1
    <3> QED
      BY <1>7, <3>1, <3>2
  <2> QED
    BY <2>1, <2>2
<1>10. p - 1 \in Nat /\ p - 1 # 0
  <2>1. S \ {cur} # {}
    BY AloneCycle
  <2>2. round # {}
    BY <1>9, <2>1
  <2> QED
    BY <1>7, <2>2
<1>11. top # {}
  <2> DEFINE f == [k \in round |-> priority[succ[k]]]
  <2>1. \A k \in 1 .. p - 1 : f[k] \in Int /\ f[k] = priority[succ[k]]
    BY <1>9
  <2> HIDE DEF f
  <2>2. \E k \in 1 .. p - 1 : \A j \in 1 .. p - 1 : f[j] <= f[k]
    BY <1>10, <2>1, Greatest
  <2> QED
    BY <2>1, <2>2
<1>12. Min(top) \in top
  <2>1. top \in SUBSET Nat
    BY <1>10
  <2> HIDE DEF top
  <2> QED
    BY <1>11, <2>1, MinOf
<1> QED
  BY <1>1, <1>9, <1>12

-------------------------------------------------------------------------------
(* A new arena has handed nothing out.                                        *)
LEMMA InitArena ==
  ASSUME NEW cap \in Nat
  PROVE  ArenaOK(ArenaInit, cap) /\ HandedOut(ArenaInit) = {}
<1>1. <<>> \in Seq(1 .. cap) /\ DOMAIN <<>> = {}
  BY EmptySeq
<1> QED
  BY <1>1 DEF ArenaInit, ArenaOK, HandedOut

(* An arena that is not exhausted hands out an item it had not handed out.    *)
LEMMA AllocArena ==
  ASSUME NEW cap \in Nat, NEW a, ArenaOK(a, cap), ~Exhausted(a, cap)
  PROVE  /\ Alloc(a) \in 1 .. cap
         /\ Alloc(a) \notin HandedOut(a)
         /\ ArenaOK(AfterAlloc(a), cap)
         /\ HandedOut(AfterAlloc(a)) = HandedOut(a) \cup {Alloc(a)}
<1>1. PICK s \in Seq(1 .. cap), n \in 0 .. cap : a = [free |-> s, next |-> n]
  BY DEF ArenaOK
<1>2. /\ Len(s) \in Nat /\ DOMAIN s = 1 .. Len(s)
      /\ \A i \in 1 .. Len(s) : s[i] \in 1 .. cap /\ s[i] <= n
      /\ \A i, j \in 1 .. Len(s) : s[i] = s[j] => i = j
  BY <1>1 DEF ArenaOK
<1>3. HandedOut(a) = {x \in 1 .. n : \A i \in 1 .. Len(s) : s[i] # x}
  BY <1>1, <1>2 DEF HandedOut
<1>4. CASE s = <<>>
  <2>1. n < cap /\ Alloc(a) = n + 1 /\ AfterAlloc(a) = [free |-> s, next |-> n + 1]
    BY <1>1, <1>4 DEF Exhausted, Alloc, AfterAlloc
  <2>2. Len(s) = 0
    BY <1>4
  <2>3. ArenaOK([free |-> s, next |-> n + 1], cap)
    BY <1>2, <2>1, <2>2 DEF ArenaOK
  <2>4. HandedOut([free |-> s, next |-> n + 1]) = 1 .. n + 1
    BY <1>2, <2>2 DEF HandedOut
  <2> QED
    BY <1>3, <2>1, <2>2, <2>3, <2>4
<1>5. CASE s # <<>>
  <2>1. PICK r \in Seq(1 .. cap) :
          r = Tail(s) /\ Len(r) = Len(s) - 1 /\ \A i \in 1 .. Len(r) : r[i] = s[i + 1]
    BY <1>5, HeadTailProperties
  <2>2. Alloc(a) = s[1] /\ AfterAlloc(a) = [free |-> r, next |-> n]
    <3>1. a.free = s /\ a.next = n /\ Head(s) = s[1]
      BY <1>1, <1>5
    <3>2. Alloc(a) = s[1]
      BY <1>5, <3>1 DEF Alloc
    <3>3. AfterAlloc(a) = [a EXCEPT !.free = r]
      BY <1>5, <2>1, <3>1 DEF AfterAlloc
    <3> QED
      BY <1>1, <3>2, <3>3
  <2>3. Len(s) >= 1 /\ DOMAIN r = 1 .. Len(s) - 1
    BY <1>2, <1>5, <2>1
  <2>4. ArenaOK([free |-> r, next |-> n], cap)
    <3>1. \A i \in DOMAIN r : r[i] <= n
      BY <1>2, <2>1, <2>3
    <3>2. ASSUME NEW i \in DOMAIN r, NEW j \in DOMAIN r, r[i] = r[j] PROVE i = j
      <4>1. s[i + 1] = s[j + 1] /\ i + 1 \in 1 .. Len(s) /\ j + 1 \in 1 .. Len(s)
        BY <1>2, <2>1, <2>3, <3>2
      <4>2. i + 1 = j + 1
        BY <1>2, <4>1
      <4> QED
        BY <2>3, <4>2
    <3> QED
      BY <3>1, <3>2 DEF ArenaOK
  <2>5. ASSUME NEW x \in 1 .. n
        PROVE  (\E i \in 1 .. Len(r) : r[i] = x) <=> x # s[1] /\ \E i \in 1 .. Len(s) : s[i] = x
    <3>1. ASSUME NEW i \in 1 .. Len(r), r[i] = x PROVE x # s[1] /\ s[i + 1] = x
      BY <1>2, <2>1, <2>3, <3>1
    <3>2. ASSUME NEW j \in 1 .. Len(s), s[j] = x, x # s[1] PROVE r[j - 1] = x /\ j - 1 \in 1 .. Len(r)
      BY <1>2, <2>1, <2>3, <3>2
    <3>3. \A i \in 1 .. Len(r) : i + 1 \in 1 .. Len(s)
      BY <1>2, <2>1, <2>3
    <3> QED
      BY <3>1, <3>2, <3>3
  <2>6. HandedOut([free |-> r, next |-> n]) = {x \in 1 .. n : \A i \in 1 .. Len(r) : r[i] # x}
    BY <2>1, <2>3 DEF HandedOut
  <2>7. s[1] \in 1 .. cap /\ s[1] \in 1 .. n
    BY <1>2, <2>3
  <2>8. HandedOut([free |-> r, next |-> n]) = HandedOut(a) \cup {s[1]}
    <3>1. ASSUME NEW x
          PROVE  x \in HandedOut([free |-> r, next |-> n]) <=> x \in HandedOut(a) \/ x = s[1]
      BY <1>3, <2>5, <2>6, <2>7
    <3> QED
      BY <3>1
  <2>9. s[1] \notin HandedOut(a)
    BY <1>2, <1>3, <2>3
  <2> QED
    BY <2>2, <2>4, <2>7, <2>8, <2>9
<1> QED
  BY <1>4, <1>5

(* An item that has been handed out can be released.                          *)
LEMMA ReleaseArena ==
  ASSUME NEW cap \in Nat, NEW a, ArenaOK(a, cap), NEW x \in HandedOut(a)
  PROVE  ArenaOK(Release(a, x), cap) /\ HandedOut(Release(a, x)) = HandedOut(a) \ {x}
<1>1. PICK s \in Seq(1 .. cap), n \in 0 .. cap : a = [free |-> s, next |-> n]
  BY DEF ArenaOK
<1>2. /\ Len(s) \in Nat /\ DOMAIN s = 1 .. Len(s)
      /\ \A i \in 1 .. Len(s) : s[i] \in 1 .. cap /\ s[i] <= n
      /\ \A i, j \in 1 .. Len(s) : s[i] = s[j] => i = j
  BY <1>1 DEF ArenaOK
<1>3. HandedOut(a) = {y \in 1 .. n : \A i \in 1 .. Len(s) : s[i] # y}
  BY <1>1, <1>2 DEF HandedOut
<1>4. x \in 1 .. n /\ x \in 1 .. cap
  BY <1>3
<1>5. PICK r \in Seq(1 .. cap) :
        /\ r = <<x>> \o s /\ Len(r) = Len(s) + 1
        /\ r[1] = x /\ \A i \in 2 .. Len(r) : r[i] = s[i - 1]
  <2>1. <<x>> \in Seq(1 .. cap) /\ Len(<<x>>) = 1
    BY <1>4
  <2>2. <<x>> \o s \in Seq(1 .. cap) /\ Len(<<x>> \o s) = Len(s) + 1
    BY <1>2, <2>1
  <2>3. (<<x>> \o s)[1] = x
    BY <1>2, <2>1
  <2>4. \A i \in 2 .. Len(s) + 1 : (<<x>> \o s)[i] = s[i - 1]
    BY <1>2, <2>1
  <2> QED
    BY <2>2, <2>3, <2>4
<1>6. DOMAIN r = 1 .. Len(r)
  BY <1>5
<1>7. Release(a, x) = [free |-> r, next |-> n]
  <2>1. Release(a, x) = [a EXCEPT !.free = r]
    BY <1>1, <1>5 DEF Release
  <2> QED
    BY <1>1, <2>1
<1>8. ArenaOK([free |-> r, next |-> n], cap)
  <2>1. \A i \in 1 .. Len(r) : r[i] <= n
    BY <1>2, <1>4, <1>5
  <2>2. ASSUME NEW i \in 1 .. Len(r), NEW j \in 1 .. Len(r), r[i] = r[j] PROVE i = j
    <3>1. \A k \in 2 .. Len(r) : k - 1 \in 1 .. Len(s) /\ r[k] = s[k - 1] /\ r[k] # x
      BY <1>2, <1>3, <1>5
    <3>2. CASE i = 1 \/ j = 1
      BY <1>5, <2>2, <3>1, <3>2
    <3>3. CASE i # 1 /\ j # 1
      <4>1. s[i - 1] = s[j - 1] /\ i - 1 \in 1 .. Len(s) /\ j - 1 \in 1 .. Len(s)
        BY <2>2, <3>1, <3>3
      <4>2. i - 1 = j - 1
        BY <1>2, <4>1
      <4> QED
        BY <4>2
    <3> QED
      BY <3>2, <3>3
  <2> QED
    BY <1>5, <1>6, <2>1, <2>2 DEF ArenaOK
<1>9. HandedOut([free |-> r, next |-> n]) = {y \in 1 .. n : \A i \in 1 .. Len(r) : r[i] # y}
  BY <1>6 DEF HandedOut
<1>10. ASSUME NEW y \in 1 .. n
       PROVE  (\E i \in 1 .. Len(r) : r[i] = y) <=> y = x \/ \E i \in 1 .. Len(s) : s[i] = y
  <2>1. ASSUME NEW i \in 1 .. Len(s), s[i] = y PROVE i + 1 \in 1 .. Len(r) /\ r[i + 1] = y
    BY <1>2, <1>5, <2>1
  <2>2. ASSUME NEW i \in 1 .. Len(r), r[i] = y PROVE y = x \/ (i - 1 \in 1 .. Len(s) /\ s[i - 1] = y)
    BY <1>2, <1>5, <2>2
  <2>3. 1 \in 1 .. Len(r)
    BY <1>2, <1>5
  <2> QED
    BY <1>5, <2>1, <2>2, <2>3
<1>11. ASSUME NEW y
       PROVE  y \in HandedOut([free |-> r, next |-> n]) <=> y \in HandedOut(a) /\ y # x
  BY <1>3, <1>9, <1>10
<1>12. HandedOut([free |-> r, next |-> n]) = HandedOut(a) \ {x}
  BY <1>11
<1> QED
  BY <1>7, <1>8, <1>12

-------------------------------------------------------------------------------
(* What holds at the start and is kept by every step of a walk holds at its   *)
(* end.                                                                       *)
LEMMA Steps ==
  ASSUME NEW n \in Nat, NEW S, NEW i \in 0 .. n, i \in S,
         \A k \in i + 1 .. n : k - 1 \in S => k \in S
  PROVE  \A k \in i .. n : k \in S
<1> DEFINE T == {k \in i .. n : k \notin S}
<1>1. SUFFICES ASSUME T # {} PROVE FALSE
  OBVIOUS
<1>2. T \in SUBSET Nat
  OBVIOUS
<1>3. PICK m \in T : \A k \in T : m <= k
  <2> HIDE DEF T
  <2> QED
    BY <1>1, <1>2, Least
<1>4. m \in i + 1 .. n /\ m - 1 \in i .. n /\ ~(m <= m - 1)
  <2>1. m # i
    BY <1>3
  <2> QED
    BY <2>1
<1> QED
  BY <1>3, <1>4

(* A walk in a set of n elements cannot descend n times.                      *)
LEMMA Descent ==
  ASSUME NEW D, IsFiniteSet(D), NEW n \in Nat, n = Cardinality(D), NEW d \in [D -> Nat],
         NEW w, \A k \in 0 .. n : w[k] \in D
  PROVE  \E k \in 1 .. n : ~(d[w[k]] < d[w[k - 1]])
<1> SUFFICES ASSUME \A k \in 1 .. n : d[w[k]] < d[w[k - 1]] PROVE FALSE
  OBVIOUS
<1> DEFINE g == [k \in 0 .. n |-> w[k]]
<1>1. ASSUME NEW i \in 0 .. n PROVE \A j \in i + 1 .. n : d[w[j]] < d[w[i]]
  <2>1. CASE i = n
    <3>1. i + 1 .. n = {}
      BY <2>1
    <3> QED
      BY <3>1
  <2>2. CASE i # n
    <3> DEFINE S == {j \in 0 .. n : d[w[j]] < d[w[i]]}
    <3>1. i + 1 \in 0 .. n /\ i + 1 \in 1 .. n /\ (i + 1) - 1 = i
      BY <2>2
    <3>2. i + 1 \in S
      BY <3>1
    <3>3. ASSUME NEW k \in (i + 1) + 1 .. n, k - 1 \in S PROVE k \in S
      <4>1. k \in 1 .. n /\ k \in 0 .. n /\ k - 1 \in 0 .. n
        OBVIOUS
      <4>2. d[w[k]] \in Nat /\ d[w[k - 1]] \in Nat /\ d[w[i]] \in Nat
        BY <4>1
      <4> QED
        BY <3>3, <4>1, <4>2
    <3> HIDE DEF S
    <3>4. \A k \in i + 1 .. n : k \in S
      BY <3>1, <3>2, <3>3, Steps
    <3> QED
      BY <3>4 DEF S
  <2> QED
    BY <2>1, <2>2
<1>2. ASSUME NEW i \in 0 .. n, NEW j \in 0 .. n, i # j PROVE g[i] # g[j]
  <2>1. d[w[i]] \in Nat /\ d[w[j]] \in Nat
    OBVIOUS
  <2>2. i < j \/ j < i
    BY <1>2
  <2>3. CASE i < j
    <3>1. j \in i + 1 .. n
      BY <2>3
    <3> QED
      BY <1>1, <2>1, <3>1
  <2>4. CASE j < i
    <3>1. i \in j + 1 .. n
      BY <2>4
    <3> QED
      BY <1>1, <2>1, <3>1
  <2> QED
    BY <2>2, <2>3, <2>4
<1>3. IsFiniteSet(0 .. n) /\ Cardinality(0 .. n) = n + 1
  <2>1. Cardinality(0 .. n) = IF 0 > n THEN 0 ELSE n - 0 + 1
    BY FS_Interval
  <2> QED
    BY <2>1, FS_Interval
<1>4. Cardinality(D) < Cardinality(0 .. n)
  BY <1>3
<1>5. g \in [0 .. n -> D]
  OBVIOUS
<1> HIDE DEF g
<1>6. \E i, j \in 0 .. n : i # j /\ g[i] = g[j]
  BY <1>3, <1>4, <1>5, FS_PigeonHole
<1> QED
  BY <1>2, <1>6

(* A forest over D: on the way to the root a level goes down.                 *)
Descends(D, parent, d) ==
  d \in [D -> Nat] /\ \A t \in D : parent[t] # t => d[parent[t]] < d[t]
Forest(D, parent) == parent \in [D -> D] /\ \E d : Descends(D, parent, d)

(* c[t] is the root of the tree of t.                                         *)
Roots(D, parent, c) ==
  \A t \in D : /\ c[t] \in D /\ parent[c[t]] = c[t] /\ c[parent[t]] = c[t]
               /\ parent[t] = t => c[t] = t

(* A round of the loop of uf_find goes down until it is at a root, and leaves *)
(* every node in its tree.                                                    *)
LEMMA HalvingOK ==
  ASSUME NEW D, NEW parent \in [D -> D], NEW d, Descends(D, parent, d), NEW r \in D,
         NEW g, g = parent[parent[r]], NEW q, q = [parent EXCEPT ![r] = g]
  PROVE  /\ q \in [D -> D] /\ Descends(D, q, d) /\ g \in D
         /\ g = r \/ d[g] < d[r]
         /\ g = r <=> parent[r] = r
         /\ \A t \in D : q[t] = t <=> parent[t] = t
         /\ \A c : Roots(D, parent, c) => Roots(D, q, c) /\ c[g] = c[r]
<1> DEFINE p == parent[r]
<1>1. /\ p \in D /\ g = parent[p] /\ g \in D /\ q \in [D -> D]
      /\ q[r] = g /\ \A t \in D \ {r} : q[t] = parent[t]
  OBVIOUS
<1>2. /\ d \in [D -> Nat]
      /\ p # r => d[p] < d[r]
      /\ g # p => d[g] < d[p]
  BY <1>1 DEF Descends
<1>3. d[p] \in Nat /\ d[r] \in Nat /\ d[g] \in Nat
  BY <1>1, <1>2
<1>4. p # r => d[g] < d[r] /\ g # r
  BY <1>2, <1>3
<1>5. p = r => g = r
  BY <1>1
<1> HIDE DEF p
<1>6. Descends(D, q, d)
  BY <1>1, <1>4, <1>5 DEF Descends
<1>7. g = r <=> p = r
  BY <1>4, <1>5
<1>8. \A t \in D : q[t] = t <=> parent[t] = t
  BY <1>1, <1>7 DEF p
<1>9. ASSUME NEW c, Roots(D, parent, c) PROVE Roots(D, q, c) /\ c[g] = c[r]
  <2>1. c[g] = c[r]
    BY <1>1, <1>9 DEF Roots, p
  <2>2. \A t \in D : c[q[t]] = c[t]
    BY <1>1, <1>9, <2>1 DEF Roots
  <2>3. \A t \in D : c[t] \in D /\ q[c[t]] = c[t] /\ (q[t] = t => c[t] = t)
    BY <1>8, <1>9 DEF Roots
  <2> QED
    BY <2>1, <2>2, <2>3 DEF Roots
<1> QED
  BY <1>1, <1>4, <1>5, <1>6, <1>7, <1>8, <1>9 DEF p

(* uf_find reaches the root within a round per node.                          *)
LEMMA FindOK ==
  ASSUME NEW D, IsFiniteSet(D), NEW parent, Forest(D, parent), NEW x \in D,
         NEW F, F = UfFind(parent, x)
  PROVE  /\ Forest(D, F.parent) /\ F.root \in D /\ F.parent[F.root] = F.root
         /\ \A d : Descends(D, parent, d) => Descends(D, F.parent, d)
         /\ \A t \in D : F.parent[t] = t <=> parent[t] = t
         /\ \A c : Roots(D, parent, c) => Roots(D, F.parent, c) /\ F.root = c[x]
<1> DEFINE n == Cardinality(D)
           State == [root : D, parent : [D -> D]]
           Round == [w \in State |->
                       [root   |-> w.parent[w.parent[w.root]],
                        parent |-> [w.parent EXCEPT ![w.root] = w.parent[w.parent[w.root]]]]]
           start == [root |-> x, parent |-> parent]
           Halved(v) == [root   |-> v.parent[v.parent[v.root]],
                       parent |-> [v.parent EXCEPT ![v.root] = v.parent[v.parent[v.root]]]]
           Looks(w) == w = [k \in 0 .. n |-> IF k = 0 THEN start ELSE Halved(w[k - 1])]
           walk == CHOOSE w : Looks(w)
<1>1. n \in Nat /\ parent \in [D -> D] /\ DOMAIN parent = D /\ start \in State
  BY FS_CardinalityType DEF Forest
<1>2. PICK d : Descends(D, parent, d)
  BY DEF Forest
<1>3. F = walk[n]
  BY <1>1 DEF UfFind
<1>4. \A v \in State : Halved(v) \in State /\ Round[v] = Halved(v)
  OBVIOUS
<1> HIDE DEF Halved, Round
<1>5. \E w : Looks(w)
  <2>1. PICK w : w = Walked(Round, start, n, w)
    BY <1>1, Recursion
  <2>2. w[0] = start /\ \A k \in 1 .. n : w[k] = Round[w[k - 1]]
    BY <1>1, <2>1 DEF Walked
  <2> DEFINE S == {k \in 0 .. n : w[k] \in State}
  <2>3. \A k \in 0 + 1 .. n : k - 1 \in S => k \in S
    BY <1>4, <2>2
  <2>4. 0 \in S /\ 0 \in 0 .. n
    BY <1>1, <2>2
  <2> HIDE DEF S
  <2>5. \A k \in 0 .. n : k \in S
    BY <1>1, <2>3, <2>4, Steps
  <2>6. \A k \in 0 .. n : Round[w[k]] = Halved(w[k])
    BY <1>4, <2>5 DEF S
  <2>7. ASSUME NEW k \in 0 .. n, k # 0 PROVE Round[w[k - 1]] = Halved(w[k - 1])
    <3>1. k - 1 \in 0 .. n
      BY <1>1, <2>7
    <3> QED
      BY <2>6, <3>1
  <2> HIDE DEF start, State
  <2>8. Looks(w)
    BY <2>1, <2>7 DEF Walked
  <2> QED
    BY <2>8
<1>6. walk[0] = start /\ \A k \in 1 .. n : walk[k] = Halved(walk[k - 1])
  <2>1. Looks(walk)
    BY <1>5
  <2> HIDE DEF walk, start
  <2> QED
    BY <1>1, <2>1
<1> DEFINE Good(v) == /\ v \in State
                      /\ \A e : Descends(D, parent, e) => Descends(D, v.parent, e)
                      /\ \A t \in D : v.parent[t] = t <=> parent[t] = t
                      /\ \A c : Roots(D, parent, c) => Roots(D, v.parent, c) /\ c[v.root] = c[x]
           AtRoot(v) == v.parent[v.root] = v.root
<1>7. Good(start)
  BY <1>1
<1>8. ASSUME NEW v, Good(v)
      PROVE  /\ Good(Halved(v))
             /\ AtRoot(v) => AtRoot(Halved(v))
             /\ AtRoot(v) \/ d[Halved(v).root] < d[v.root]
  <2> DEFINE g == v.parent[v.parent[v.root]]
             q == [v.parent EXCEPT ![v.root] = g]
  <2>1. v.parent \in [D -> D] /\ v.root \in D /\ Descends(D, v.parent, d)
    BY <1>2, <1>8
  <2>2. Halved(v) = [root |-> g, parent |-> q]
    BY DEF Halved
  <2>3. /\ q \in [D -> D] /\ g \in D
        /\ g = v.root \/ d[g] < d[v.root]
        /\ g = v.root <=> v.parent[v.root] = v.root
        /\ \A t \in D : q[t] = t <=> v.parent[t] = t
        /\ \A c : Roots(D, v.parent, c) => Roots(D, q, c) /\ c[g] = c[v.root]
    BY <2>1, HalvingOK
  <2>4. \A e : Descends(D, v.parent, e) => Descends(D, q, e)
    BY <2>1, HalvingOK
  <2> HIDE DEF g, q, start
  <2>5. Good(Halved(v))
    BY <1>8, <2>2, <2>3, <2>4
  <2>6. AtRoot(v) => AtRoot(Halved(v))
    BY <2>1, <2>2, <2>3
  <2> QED
    BY <2>2, <2>3, <2>5, <2>6
<1> HIDE DEF start, walk
<1>9. \A k \in 0 .. n : Good(walk[k])
  <2> DEFINE S == {k \in 0 .. n : Good(walk[k])}
  <2>1. \A k \in 0 + 1 .. n : k - 1 \in S => k \in S
    <3> SUFFICES ASSUME NEW k \in 0 + 1 .. n, k - 1 \in S PROVE k \in S
      OBVIOUS
    <3>1. k \in 1 .. n /\ k \in 0 .. n
      BY <1>1
    <3>2. Good(walk[k - 1])
      OBVIOUS
    <3> HIDE DEF Good
    <3>3. Good(walk[k])
      BY <1>6, <1>8, <3>1, <3>2
    <3> QED
      BY <3>1, <3>3
  <2>2. 0 \in S /\ 0 \in 0 .. n
    <3> HIDE DEF Good
    <3> QED
      BY <1>1, <1>6, <1>7
  <2> HIDE DEF S
  <2>3. \A k \in 0 .. n : k \in S
    BY <1>1, <2>1, <2>2, Steps
  <2> HIDE DEF Good
  <2> QED
    BY <2>3 DEF S
<1>10. AtRoot(walk[n])
  <2> DEFINE w == [k \in 0 .. n |-> walk[k].root]
  <2>1. \A k \in 0 .. n : w[k] \in D
    BY <1>9
  <2>2. d \in [D -> Nat]
    BY <1>2 DEF Descends
  <2> HIDE DEF w, Good
  <2>3. PICK k \in 1 .. n : ~(d[w[k]] < d[w[k - 1]])
    BY <1>1, <2>1, <2>2, Descent
  <2>4. k - 1 \in 0 .. n /\ k \in 0 .. n /\ n \in k - 1 .. n
    BY <1>1
  <2>5. w[k] = walk[k].root /\ w[k - 1] = walk[k - 1].root /\ walk[k] = Halved(walk[k - 1])
    BY <1>6, <2>4 DEF w
  <2> HIDE DEF AtRoot
  <2>6. AtRoot(walk[k - 1])
    BY <1>8, <1>9, <2>3, <2>4, <2>5
  <2> DEFINE S == {j \in 0 .. n : AtRoot(walk[j])}
  <2>7. ASSUME NEW j \in (k - 1) + 1 .. n, j - 1 \in S PROVE j \in S
    <3>1. j \in 1 .. n /\ j - 1 \in 0 .. n /\ j \in 0 .. n
      BY <1>1
    <3>2. AtRoot(walk[j])
      BY <1>6, <1>8, <1>9, <2>7, <3>1
    <3> QED
      BY <3>1, <3>2
  <2>8. k - 1 \in S
    BY <2>4, <2>6
  <2> HIDE DEF S
  <2>9. n \in S
    BY <1>1, <2>4, <2>7, <2>8, Steps
  <2> QED
    BY <2>9 DEF S
<1>11. n \in 0 .. n
  BY <1>1
<1>12. /\ F \in State /\ AtRoot(F)
       /\ \A e : Descends(D, parent, e) => Descends(D, F.parent, e)
       /\ \A t \in D : F.parent[t] = t <=> parent[t] = t
       /\ \A c : Roots(D, parent, c) => Roots(D, F.parent, c) /\ c[F.root] = c[x]
  BY <1>3, <1>9, <1>10, <1>11
<1>13. Forest(D, F.parent)
  BY <1>2, <1>12 DEF Forest
<1>14. ASSUME NEW c, Roots(D, parent, c) PROVE F.root = c[x]
  <2>1. Roots(D, F.parent, c) /\ c[F.root] = c[x] /\ F.root \in D /\ F.parent[F.root] = F.root
    BY <1>12, <1>14
  <2> QED
    BY <2>1 DEF Roots
<1> QED
  BY <1>12, <1>13, <1>14

(* The nodes below the root b of c have the root a.                           *)
Moved(D, c, b, a) == [t \in D |-> IF c[t] = b THEN a ELSE c[t]]

(* The trees with roots r and s of c are one in m, the others as they were.   *)
Merges(D, c, m, r, s) ==
  \A t, u \in D : m[t] = m[u] <=> c[t] = c[u] \/ {c[t], c[u]} = {r, s}

(* A root becomes the child of another: the two trees are one.                *)
LEMMA LinkOK ==
  ASSUME NEW D, NEW q, Forest(D, q), NEW a \in D, NEW b \in D, a # b, q[a] = a, q[b] = b,
         NEW p, p = [q EXCEPT ![b] = a]
  PROVE  /\ Forest(D, p)
         /\ \A c : Roots(D, q, c) => Roots(D, p, Moved(D, c, b, a))
<1>1. PICK d : d \in [D -> Nat] /\ \A t \in D : q[t] # t => d[q[t]] < d[t]
  BY DEF Forest, Descends
<1>2. /\ q \in [D -> D] /\ p \in [D -> D]
      /\ p[b] = a /\ \A t \in D \ {b} : p[t] = q[t]
  BY DEF Forest
<1> DEFINE e == [t \in D |-> IF t = a THEN 0 ELSE d[t] + 1]
<1>3. e \in [D -> Nat]
  BY <1>1
<1>4. ASSUME NEW t \in D, p[t] # t PROVE e[p[t]] < e[t]
  <2>1. t # a
    BY <1>2, <1>4
  <2>2. e[t] = d[t] + 1 /\ d[t] \in Nat
    BY <1>1, <2>1
  <2>3. CASE p[t] = a
    BY <2>2, <2>3
  <2>4. CASE p[t] # a
    <3>1. t # b /\ p[t] = q[t] /\ q[t] \in D
      BY <1>2, <2>4
    <3>2. d[q[t]] < d[t] /\ d[q[t]] \in Nat
      BY <1>1, <1>4, <3>1
    <3>3. e[p[t]] = d[q[t]] + 1
      BY <2>4, <3>1
    <3> QED
      BY <2>2, <3>2, <3>3
  <2> QED
    BY <2>3, <2>4
<1> HIDE DEF e
<1>5. Forest(D, p)
  BY <1>2, <1>3, <1>4 DEF Forest, Descends
<1>6. ASSUME NEW c, Roots(D, q, c) PROVE Roots(D, p, Moved(D, c, b, a))
  <2> DEFINE m == Moved(D, c, b, a)
  <2>1. c[a] = a /\ c[b] = b
    BY <1>6 DEF Roots
  <2>2. \A t \in D : m[t] = IF c[t] = b THEN a ELSE c[t]
    BY DEF Moved
  <2> HIDE DEF m
  <2>3. ASSUME NEW t \in D
        PROVE  m[t] \in D /\ p[m[t]] = m[t] /\ m[p[t]] = m[t] /\ (p[t] = t => m[t] = t)
    <3>1. c[t] \in D /\ q[c[t]] = c[t] /\ c[q[t]] = c[t] /\ (q[t] = t => c[t] = t) /\ q[t] \in D
      BY <1>2, <1>6 DEF Roots
    <3>2. m[t] \in D /\ p[m[t]] = m[t]
      BY <1>2, <2>2, <3>1
    <3>3. m[p[t]] = m[t]
      BY <1>2, <2>1, <2>2, <3>1
    <3>4. p[t] = t => m[t] = t
      BY <1>2, <2>2, <3>1
    <3> QED
      BY <3>2, <3>3, <3>4
  <2>4. Roots(D, p, m)
    BY <2>3 DEF Roots
  <2> QED
    BY <2>4 DEF m
<1> QED
  BY <1>5, <1>6

(* Then the two trees are one.                                                *)
LEMMA MovedMerges ==
  ASSUME NEW D, NEW c, NEW a, NEW b
  PROVE  Merges(D, c, Moved(D, c, b, a), a, b) /\ Merges(D, c, Moved(D, c, b, a), b, a)
BY DEF Merges, Moved

(* uf_union refuses two nodes of the same tree, and joins two trees under the *)
(* root whose rank is not lower.                                              *)
Grown(rank, a, b) == IF rank[a] = rank[b] THEN [rank EXCEPT ![a] = @ + 1] ELSE rank

Unites(D, uf, after, c, a, b) ==
  /\ a \in D /\ b \in D /\ a # b
  /\ Roots(D, after.parent, Moved(D, c, b, a))
  /\ after.rank = Grown(uf.rank, a, b)
  /\ uf.rank \in [D -> Nat] => uf.rank[b] <= uf.rank[a]

LEMMA UnionOK ==
  ASSUME NEW D, IsFiniteSet(D), NEW uf, uf = [parent |-> uf.parent, rank |-> uf.rank],
         Forest(D, uf.parent), NEW x \in D, NEW y \in D, NEW U, U = UfUnion(uf, x, y)
  PROVE  /\ U.uf = [parent |-> U.uf.parent, rank |-> U.uf.rank] /\ Forest(D, U.uf.parent)
         /\ \A c : Roots(D, uf.parent, c) =>
              /\ U.ok <=> c[x] # c[y]
              /\ ~U.ok => Roots(D, U.uf.parent, c) /\ U.uf.rank = uf.rank
              /\ U.ok => \/ Unites(D, uf, U.uf, c, c[x], c[y])
                         \/ Unites(D, uf, U.uf, c, c[y], c[x])
<1> DEFINE fx == UfFind(uf.parent, x)
           fy == UfFind(fx.parent, y)
           swap == uf.rank[fx.root] < uf.rank[fy.root]
           a == IF swap THEN fy.root ELSE fx.root
           b == IF swap THEN fx.root ELSE fy.root
<1>1. /\ Forest(D, fx.parent) /\ fx.root \in D /\ fx.parent[fx.root] = fx.root
      /\ \A c : Roots(D, uf.parent, c) => Roots(D, fx.parent, c) /\ fx.root = c[x]
  BY FindOK
<1> HIDE DEF fx
<1>2. /\ Forest(D, fy.parent) /\ fy.root \in D /\ fy.parent[fy.root] = fy.root
      /\ \A t \in D : fy.parent[t] = t <=> fx.parent[t] = t
      /\ \A c : Roots(D, fx.parent, c) => Roots(D, fy.parent, c) /\ fy.root = c[y]
  BY <1>1, FindOK
<1> HIDE DEF fy
<1>3. \A c : Roots(D, uf.parent, c) =>
        Roots(D, fy.parent, c) /\ fx.root = c[x] /\ fy.root = c[y]
  BY <1>1, <1>2
<1>4. U = IF fx.root = fy.root
          THEN [ok |-> FALSE, uf |-> [uf EXCEPT !.parent = fy.parent]]
          ELSE [ok |-> TRUE, uf |-> [parent |-> [fy.parent EXCEPT ![b] = a],
                                     rank   |-> Grown(uf.rank, a, b)]]
  BY DEF UfUnion, fx, fy, Grown
<1>5. fy.parent[fx.root] = fx.root
  BY <1>1, <1>2
<1>6. uf.rank \in [D -> Nat] => uf.rank[b] <= uf.rank[a]
  <2> SUFFICES ASSUME uf.rank \in [D -> Nat] PROVE uf.rank[b] <= uf.rank[a]
    OBVIOUS
  <2>1. uf.rank[fx.root] \in Nat /\ uf.rank[fy.root] \in Nat
    BY <1>1, <1>2
  <2> QED
    BY <2>1
<1> HIDE DEF swap
<1>7. CASE fx.root = fy.root
  <2>1. U.ok = FALSE /\ U.uf = [parent |-> fy.parent, rank |-> uf.rank]
    BY <1>4, <1>7
  <2>2. /\ U.uf = [parent |-> U.uf.parent, rank |-> U.uf.rank]
        /\ U.uf.parent = fy.parent /\ U.uf.rank = uf.rank
    BY <2>1
  <2> QED
    BY <1>2, <1>3, <1>7, <2>1, <2>2
<1>8. CASE fx.root # fy.root
  <2> DEFINE p == [fy.parent EXCEPT ![b] = a]
  <2>1. U.ok = TRUE /\ U.uf = [parent |-> p, rank |-> Grown(uf.rank, a, b)]
    BY <1>4, <1>8
  <2>2. /\ U.uf = [parent |-> U.uf.parent, rank |-> U.uf.rank]
        /\ U.uf.parent = p /\ U.uf.rank = Grown(uf.rank, a, b)
    BY <2>1
  <2>3. /\ a \in D /\ b \in D /\ a # b /\ fy.parent[a] = a /\ fy.parent[b] = b
        /\ (a = fx.root /\ b = fy.root) \/ (a = fy.root /\ b = fx.root)
    BY <1>1, <1>2, <1>5, <1>8
  <2> HIDE DEF a, b
  <2>4. /\ Forest(D, p)
        /\ \A c : Roots(D, fy.parent, c) => Roots(D, p, Moved(D, c, b, a))
    BY <1>2, <2>3, LinkOK
  <2> HIDE DEF p
  <2>5. ASSUME NEW c, Roots(D, uf.parent, c)
        PROVE  /\ U.ok <=> c[x] # c[y]
               /\ \/ Unites(D, uf, U.uf, c, c[x], c[y])
                  \/ Unites(D, uf, U.uf, c, c[y], c[x])
    <3>1. Roots(D, fy.parent, c) /\ fx.root = c[x] /\ fy.root = c[y]
      BY <1>3, <2>5
    <3>2. Unites(D, uf, U.uf, c, a, b)
      BY <1>6, <2>2, <2>3, <2>4, <3>1 DEF Unites
    <3> QED
      BY <1>8, <2>1, <2>3, <3>1, <3>2
  <2> QED
    BY <2>1, <2>2, <2>4, <2>5
<1> QED
  BY <1>7, <1>8

(* thread_cold_reset cuts a node off, with what is below it.                  *)
LEMMA ResetOK ==
  ASSUME NEW D, NEW uf, Forest(D, uf.parent), NEW x \in D
  PROVE  Forest(D, UfReset(uf, x).parent)
<1> DEFINE p == [uf.parent EXCEPT ![x] = x]
<1>1. PICK d : Descends(D, uf.parent, d)
  BY DEF Forest
<1>2. p \in [D -> D] /\ p[x] = x /\ \A t \in D \ {x} : p[t] = uf.parent[t]
  BY DEF Forest
<1>3. Descends(D, p, d)
  BY <1>1, <1>2 DEF Descends
<1>4. UfReset(uf, x).parent = p
  BY DEF UfReset
<1> QED
  BY <1>2, <1>3, <1>4 DEF Forest

(* The way up from a node ends at a root within as many steps as there are    *)
(* nodes.                                                                     *)
LEMMA RootReached ==
  ASSUME NEW D, IsFiniteSet(D), NEW n \in Nat, n = Cardinality(D),
         NEW parent, Forest(D, parent), NEW x \in D
  PROVE  \E k \in 0 .. n : parent[Iterate(parent, x)[k]] = Iterate(parent, x)[k]
<1> DEFINE w == Iterate(parent, x)
<1>1. PICK d : Descends(D, parent, d)
  BY DEF Forest
<1>2. parent \in [D -> D] /\ DOMAIN parent = D
  BY DEF Forest
<1>3. w[0] = x /\ \A k \in 1 .. n : w[k] = parent[w[k - 1]]
  BY <1>2, IterateDef
<1> DEFINE S == {k \in 0 .. n : w[k] \in D}
<1> HIDE DEF w
<1>4. 0 \in S /\ 0 \in 0 .. n
  BY <1>3
<1>5. \A k \in 0 + 1 .. n : k - 1 \in S => k \in S
  BY <1>2, <1>3
<1> HIDE DEF S
<1>6. \A k \in 0 .. n : w[k] \in D
  BY <1>4, <1>5, Steps DEF S
<1>7. PICK k \in 1 .. n : ~(d[w[k]] < d[w[k - 1]])
  BY <1>1, <1>6, Descent DEF Descends
<1>8. k - 1 \in 0 .. n /\ w[k] = parent[w[k - 1]]
  BY <1>3
<1>9. parent[w[k - 1]] = w[k - 1]
  BY <1>1, <1>6, <1>7, <1>8 DEF Descends
<1> QED
  BY <1>8, <1>9 DEF w

(* The powers of two double.                                                  *)
LEMMA Powers ==
  /\ PowerOfTwo(0) = 1
  /\ \A n \in Nat : PowerOfTwo(n) \in Nat /\ PowerOfTwo(n + 1) = 2 * PowerOfTwo(n)
<1> DEFINE Doubles(n, w) == w = [k \in 0 .. n |-> IF k = 0 THEN 1 ELSE 2 * w[k - 1]]
           walk(n) == CHOOSE w : Doubles(n, w)
<1>1. \A n : PowerOfTwo(n) = walk(n)[n]
  BY DEF PowerOfTwo
<1>2. ASSUME NEW n \in Nat PROVE Doubles(n, walk(n))
  <2> DEFINE f == [v \in Nat |-> 2 * v]
  <2>0. \A v \in Nat : f[v] = 2 * v /\ f[v] \in Nat
    OBVIOUS
  <2> HIDE DEF f
  <2>1. PICK w : w = Walked(f, 1, n, w)
    BY Recursion
  <2>2. w[0] = 1 /\ \A k \in 1 .. n : w[k] = f[w[k - 1]]
    BY <2>1 DEF Walked
  <2> DEFINE S == {k \in 0 .. n : w[k] \in Nat}
  <2>3. \A k \in 0 + 1 .. n : k - 1 \in S => k \in S
    BY <2>0, <2>2
  <2>4. 0 \in S /\ 0 \in 0 .. n
    BY <2>2
  <2> HIDE DEF S
  <2>5. \A k \in 0 .. n : k \in S
    BY <2>3, <2>4, Steps
  <2>6. ASSUME NEW k \in 0 .. n, k # 0 PROVE f[w[k - 1]] = 2 * w[k - 1]
    <3>1. k - 1 \in 0 .. n
      BY <2>6
    <3>2. w[k - 1] \in Nat
      BY <2>5, <3>1 DEF S
    <3> QED
      BY <2>0, <3>2
  <2>7. Doubles(n, w)
    BY <2>1, <2>6 DEF Walked
  <2> HIDE DEF Doubles
  <2> QED
    BY <2>7
<1> HIDE DEF walk
<1>3. \A n \in Nat : walk(n)[0] = 1 /\ \A k \in 1 .. n : walk(n)[k] = 2 * walk(n)[k - 1]
  <2> SUFFICES ASSUME NEW n \in Nat
               PROVE  walk(n)[0] = 1 /\ \A k \in 1 .. n : walk(n)[k] = 2 * walk(n)[k - 1]
    OBVIOUS
  <2> DEFINE w == walk(n)
  <2>1. Doubles(n, w)
    BY <1>2
  <2> HIDE DEF w
  <2>2. w[0] = 1 /\ \A k \in 1 .. n : w[k] = 2 * w[k - 1]
    BY <2>1
  <2> QED
    BY <2>2 DEF w
<1> HIDE DEF Doubles
<1>4. ASSUME NEW n \in Nat PROVE \A k \in 0 .. n : walk(n)[k] \in Nat
  <2> DEFINE S == {k \in 0 .. n : walk(n)[k] \in Nat}
  <2>1. \A k \in 0 + 1 .. n : k - 1 \in S => k \in S
    BY <1>3
  <2>2. 0 \in S /\ 0 \in 0 .. n
    BY <1>3
  <2> HIDE DEF S
  <2>3. \A k \in 0 .. n : k \in S
    BY <2>1, <2>2, Steps
  <2> QED
    BY <2>3 DEF S
<1>5. ASSUME NEW n \in Nat PROVE walk(n + 1)[n] = walk(n)[n]
  <2> DEFINE v == walk(n + 1)
             w == walk(n)
             S == {k \in 0 .. n : v[k] = w[k]}
  <2>1. /\ v[0] = 1 /\ \A k \in 1 .. n + 1 : v[k] = 2 * v[k - 1]
        /\ w[0] = 1 /\ \A k \in 1 .. n : w[k] = 2 * w[k - 1]
    BY <1>3
  <2> HIDE DEF v, w
  <2>2. \A k \in 0 + 1 .. n : k - 1 \in S => k \in S
    BY <2>1
  <2>3. 0 \in S /\ 0 \in 0 .. n
    BY <2>1
  <2> HIDE DEF S
  <2>4. \A k \in 0 .. n : k \in S
    BY <2>2, <2>3, Steps
  <2> QED
    BY <2>4 DEF S, v, w
<1>6. ASSUME NEW n \in Nat
      PROVE  PowerOfTwo(n) \in Nat /\ PowerOfTwo(n + 1) = 2 * PowerOfTwo(n)
  <2>1. walk(n + 1)[n + 1] = 2 * walk(n + 1)[n]
    <3>1. n + 1 \in Nat /\ n + 1 \in 1 .. n + 1 /\ (n + 1) - 1 = n
      OBVIOUS
    <3> QED
      BY <1>3, <3>1
  <2>2. n \in 0 .. n /\ n + 1 \in Nat
    OBVIOUS
  <2>3. walk(n)[n] \in Nat
    BY <1>4, <2>2
  <2>4. PowerOfTwo(n) = walk(n)[n] /\ PowerOfTwo(n + 1) = walk(n + 1)[n + 1]
    BY <1>1
  <2> QED
    BY <1>5, <2>1, <2>3, <2>4
<1> QED
  BY <1>1, <1>3, <1>6

(* The root of every tree has a rank that its nodes pay for.                  *)
Weighs(D, rank, c) ==
  /\ rank \in [D -> Nat]
  /\ \A r \in D : c[r] = r => PowerOfTwo(rank[r]) <= Cardinality({t \in D : c[t] = r})

LEMMA UnitesWeighs ==
  ASSUME NEW D, IsFiniteSet(D), NEW uf, NEW after, NEW c, NEW a, NEW b,
         Unites(D, uf, after, c, a, b), Weighs(D, uf.rank, c), c[a] = a, c[b] = b,
         NEW m, m = Moved(D, c, b, a)
  PROVE  Weighs(D, after.rank, m)
<1> DEFINE T(r) == {t \in D : c[t] = r}
           M(r) == {t \in D : m[t] = r}
           rank == uf.rank
           new == after.rank
<1>1. /\ a \in D /\ b \in D /\ a # b /\ new = Grown(rank, a, b)
      /\ rank \in [D -> Nat] /\ rank[b] <= rank[a]
      /\ \A r \in D : c[r] = r => PowerOfTwo(rank[r]) <= Cardinality(T(r))
      /\ \A t \in D : m[t] = IF c[t] = b THEN a ELSE c[t]
  BY DEF Unites, Weighs, Moved
<1> HIDE DEF rank, new
<1>2. /\ new \in [D -> Nat]
      /\ new[a] = IF rank[a] = rank[b] THEN rank[a] + 1 ELSE rank[a]
      /\ \A r \in D \ {a} : new[r] = rank[r]
  BY <1>1 DEF Grown
<1>3. \A r : IsFiniteSet(T(r)) /\ Cardinality(T(r)) \in Nat
  BY FS_Subset, FS_CardinalityType
<1>4. Cardinality(M(a)) = Cardinality(T(a)) + Cardinality(T(b))
  <2>1. M(a) = T(a) \cup T(b) /\ T(a) \cap T(b) = {}
    BY <1>1
  <2>2. Cardinality({}) = 0
    BY FS_EmptySet
  <2>3. Cardinality(T(a) \cup T(b)) = Cardinality(T(a)) + Cardinality(T(b)) - Cardinality(T(a) \cap T(b))
    <3>1. IsFiniteSet(T(a)) /\ IsFiniteSet(T(b))
      BY <1>3
    <3> HIDE DEF T
    <3> QED
      BY <3>1, FS_Union
  <2>4. Cardinality(T(a)) \in Nat /\ Cardinality(T(b)) \in Nat
    BY <1>3
  <2>5. Cardinality(M(a)) = Cardinality(T(a)) + Cardinality(T(b)) - 0
    BY <2>1, <2>2, <2>3
  <2> HIDE DEF T, M
  <2> QED
    BY <2>4, <2>5
<1>5. PowerOfTwo(new[a]) <= Cardinality(M(a))
  <2>1. /\ PowerOfTwo(rank[a]) <= Cardinality(T(a)) /\ PowerOfTwo(rank[b]) <= Cardinality(T(b))
        /\ Cardinality(T(a)) \in Nat /\ Cardinality(T(b)) \in Nat
    BY <1>1, <1>3
  <2>2. rank[a] \in Nat
    BY <1>1
  <2>3. PowerOfTwo(rank[a]) \in Nat /\ PowerOfTwo(rank[a] + 1) = 2 * PowerOfTwo(rank[a])
    BY <2>2, Powers
  <2> HIDE DEF T, M
  <2>4. CASE rank[a] = rank[b]
    <3>1. PowerOfTwo(new[a]) = 2 * PowerOfTwo(rank[a]) /\ PowerOfTwo(rank[b]) = PowerOfTwo(rank[a])
      BY <1>2, <2>3, <2>4
    <3> QED
      BY <1>4, <2>1, <2>3, <3>1
  <2>5. CASE rank[a] # rank[b]
    <3>1. PowerOfTwo(new[a]) = PowerOfTwo(rank[a])
      BY <1>2, <2>5
    <3> QED
      BY <1>4, <2>1, <2>3, <3>1
  <2> QED
    BY <2>4, <2>5
<1>6. ASSUME NEW r \in D, m[r] = r PROVE PowerOfTwo(new[r]) <= Cardinality(M(r))
  <2>1. CASE r = a
    BY <1>5, <2>1
  <2>2. CASE r # a
    <3>1. c[r] = r /\ r # b
      BY <1>1, <1>6, <2>2
    <3>2. M(r) = T(r)
      BY <1>1, <2>2, <3>1
    <3>3. PowerOfTwo(rank[r]) <= Cardinality(T(r)) /\ new[r] = rank[r]
      BY <1>1, <1>2, <2>2, <3>1
    <3> QED
      BY <3>2, <3>3
  <2> QED
    BY <2>1, <2>2
<1> QED
  BY <1>2, <1>6 DEF Weighs, new
===============================================================================
