------------------------- MODULE MergedThreadsProofs -------------------------
(* The reference counts and the table of MergedThreads are exact, for any     *)
(* number of threads, pairs and slots.                                        *)
EXTENDS MergedThreads, FiniteSetTheorems, WellFoundedInduction, TLAPS

(* The slots of a table that hold a pair, and what they hold.                 *)
Stored(T) == {s \in Slot : T.ctrl[s] >= 0}
Entries(T) == {<<T.key[s], T.val[s]>> : s \in Stored(T)}

(* No probe for the pair of a slot ends at an empty slot before it.           *)
Reached(T, s) ==
  \E i \in Group :
    /\ Probe(T.key[s], i) = s[1]
    /\ \A j \in 0 .. i - 1 : MatchEmpty(T, Probe(T.key[s], j)) = {}

TableType ==
  [ctrl : [Slot -> Int], key : [Slot -> Key \cup {-1}], val : [Slot -> Thread \cup {NULL}]]

(* A table where each pair is once and can be found.                          *)
Sound(T) ==
  /\ T \in TableType
  /\ \A s \in Stored(T) :
       T.key[s] \in Key /\ T.val[s] \in Thread /\ T.ctrl[s] = TagOf(T.key[s]) /\ Reached(T, s)
  /\ \A s, u \in Stored(T) : T.key[s] = T.key[u] => s = u

(* A table that has the pairs of the threads with a func, which differ.       *)
Recorded(T, f) ==
  /\ Sound(T)
  /\ f \in [Thread -> Key \cup {NoKey}]
  /\ f[Main] = NoKey
  /\ Entries(T) = {<<f[u], u>> : u \in {v \in Thread : f[v] # NoKey}}
  /\ \A u, v \in Thread : f[u] = f[v] /\ f[u] # NoKey => u = v

-------------------------------------------------------------------------------
(* A nonempty set of numbers has a least element: the least of the intervals  *)
(* from zero, which are finite sets.                                          *)
LEMMA Least ==
  ASSUME NEW T \in SUBSET Nat, T # {}
  PROVE  \E m \in T : \A k \in T : m <= k
<1> DEFINE U == {0 .. k : k \in T}
           R == StrictSubsetOrdering(Nat)
<1>1. U # {} /\ U \subseteq FiniteSubsetsOf(Nat)
  <2>1. ASSUME NEW k \in T PROVE 0 .. k \in FiniteSubsetsOf(Nat)
    <3>1. k \in Nat /\ 0 .. k \subseteq Nat
      OBVIOUS
    <3>2. IsFiniteSet(0 .. k)
      BY <3>1, FS_Interval
    <3> QED
      BY <3>1, <3>2 DEF FiniteSubsetsOf
  <2> QED
    BY <2>1
<1>2. IsWellFoundedOn(R, FiniteSubsetsOf(Nat))
  BY FS_StrictSubsetOrderingWellFounded
<1> HIDE DEF R
<1>3. PICK x \in U : \A y \in U : ~(<<y, x>> \in R)
  <2> HIDE DEF U
  <2> QED
    BY <1>1, <1>2, WFMin
<1>4. PICK m \in T : x = 0 .. m
  BY <1>3
<1>5. ASSUME NEW k \in T PROVE m <= k
  <2>1. k \in Nat /\ m \in Nat
    OBVIOUS
  <2>2. SUFFICES ASSUME k < m PROVE FALSE
    BY <2>1
  <2>3. 0 .. k \subseteq 0 .. m /\ m \in 0 .. m /\ m \notin 0 .. k
    BY <2>1, <2>2
  <2>4. 0 .. k \in SUBSET Nat /\ 0 .. m \in SUBSET Nat /\ 0 .. k # 0 .. m
    BY <2>1, <2>3
  <2>5. <<0 .. k, 0 .. m>> \in R
    BY <2>3, <2>4 DEF R, StrictSubsetOrdering
  <2> QED
    BY <1>3, <1>4, <2>5
<1> QED
  BY <1>5

(* The minimum of a nonempty set of numbers.                                  *)
LEMMA MinOf ==
  ASSUME NEW T \in SUBSET Nat, T # {}
  PROVE  Min(T) \in T /\ \A k \in T : Min(T) <= k
<1>1. \E m \in T : \A k \in T : m <= k
  BY Least
<1> QED
  BY <1>1 DEF Min

(* Slots and groups.                                                          *)
LEMMA ModBounds ==
  ASSUME NEW a \in Int, NEW n \in Nat \ {0}
  PROVE  a % n \in 0 .. n - 1
OBVIOUS

LEMMA HashFacts ==
  ASSUME NEW k \in Key
  PROVE  /\ TagOf(k) \in Nat
         /\ \A i \in Nat : Probe(k, i) \in Group
<1>1. Hash(k) \in Nat
  BY TableAssumption, ModBounds DEF Hash
<1>2. TagOf(k) \in Nat
  BY <1>1, TableAssumption, ModBounds DEF TagOf
<1>3. Home(k) \in Int
  <2>1. Hash(k) \div TagRange \in Int
    BY <1>1, TableAssumption
  <2> QED
    BY <2>1, TableAssumption, ModBounds DEF Home
<1>4. ASSUME NEW i \in Nat PROVE Probe(k, i) \in Group
  <2>1. (i * (i + 1)) \in Int
    OBVIOUS
  <2>2. (i * (i + 1)) \div 2 \in Int
    BY <2>1
  <2>3. Home(k) + (i * (i + 1)) \div 2 \in Int
    BY <1>3, <2>2
  <2> QED
    BY <2>3, TableAssumption, ModBounds DEF Probe, Group
<1> QED
  BY <1>2, <1>4

LEMMA FirstIn ==
  ASSUME NEW g \in Group, NEW S \in SUBSET InGroup(g), S # {}
  PROVE  First(S) \in S
<1> DEFINE I == {s[2] : s \in S}
<1>1. I \in SUBSET Nat /\ I # {}
  BY TableAssumption DEF InGroup
<1>2. \E m \in I : \A k \in I : m <= k
  <2> HIDE DEF I
  <2> QED
    BY <1>1, Least
<1>3. \E s \in S : \A u \in S : s[2] <= u[2]
  BY <1>2
<1> QED
  BY <1>3 DEF First

LEMMA Matches ==
  ASSUME NEW T \in TableType, NEW k \in Key, NEW i \in Group
  PROVE  /\ \A s : s \in Match(T, k, Probe(k, i)) <=>
                     s \in Slot /\ s[1] = Probe(k, i) /\ T.ctrl[s] = TagOf(k) /\ T.key[s] = k
         /\ \A s : s \in MatchEmpty(T, Probe(k, i)) <=>
                     s \in Slot /\ s[1] = Probe(k, i) /\ T.ctrl[s] = EMPTY
         /\ \A s : s \in MatchFree(T, Probe(k, i)) <=>
                     s \in Slot /\ s[1] = Probe(k, i) /\ T.ctrl[s] < 0
<1>1. i \in Nat /\ Probe(k, i) \in Group
  BY HashFacts, TableAssumption DEF Group
<1>2. \A s : s \in InGroup(Probe(k, i)) <=> s \in Slot /\ s[1] = Probe(k, i)
  BY <1>1 DEF InGroup, Slot
<1> QED
  BY <1>2 DEF Match, MatchEmpty, MatchFree

(* A probe for a pair that is stored ends at it, and one for a pair that is   *)
(* not, if it ends, finds nothing.                                            *)
LEMMA FoundOf ==
  ASSUME NEW T, Sound(T), NEW k \in Key
  PROVE  /\ \A s \in Stored(T) : T.key[s] = k => Stops(T, k) # {} /\ Found(T, k) = {s}
         /\ Stops(T, k) # {} /\ (\A s \in Stored(T) : T.key[s] # k) => Found(T, k) = {}
<1> DEFINE m == Min(Stops(T, k))
<1>1. Stops(T, k) \in SUBSET Nat /\ Stops(T, k) \subseteq Group
  BY TableAssumption DEF Stops, Group
<1>2. T \in TableType /\ TagOf(k) \in Nat
  BY HashFacts DEF Sound
<1>3. Stops(T, k) # {} =>
        /\ m \in Stops(T, k) /\ \A i \in Stops(T, k) : m <= i
        /\ \A s \in Found(T, k) : s \in Stored(T) /\ T.key[s] = k
  <2> SUFFICES ASSUME Stops(T, k) # {}
               PROVE  /\ m \in Stops(T, k) /\ \A i \in Stops(T, k) : m <= i
                      /\ \A s \in Found(T, k) : s \in Stored(T) /\ T.key[s] = k
    OBVIOUS
  <2>1. m \in Stops(T, k) /\ \A i \in Stops(T, k) : m <= i
    BY <1>1, MinOf
  <2>2. m \in Group
    BY <1>1, <2>1
  <2>3. Found(T, k) = Match(T, k, Probe(k, m))
    BY DEF Found
  <2> HIDE DEF m
  <2>4. \A s \in Found(T, k) : s \in Slot /\ T.ctrl[s] = TagOf(k) /\ T.key[s] = k
    BY <1>2, <2>2, <2>3, Matches
  <2>5. \A s \in Found(T, k) : s \in Stored(T) /\ T.key[s] = k
    BY <1>2, <2>4 DEF Stored
  <2> QED
    BY <2>1, <2>5
<1>4. ASSUME NEW s \in Stored(T), T.key[s] = k
      PROVE  Stops(T, k) # {} /\ Found(T, k) = {s}
  <2>1. s \in Slot /\ T.ctrl[s] = TagOf(k) /\ Reached(T, s)
    BY <1>4 DEF Sound, Stored
  <2>2. PICK i \in Group :
          Probe(k, i) = s[1] /\ \A j \in 0 .. i - 1 : MatchEmpty(T, Probe(k, j)) = {}
    BY <1>4, <2>1 DEF Reached
  <2>3. s \in Match(T, k, Probe(k, i))
    BY <1>2, <1>4, <2>1, <2>2, Matches
  <2>4. i \in Stops(T, k)
    BY <2>3 DEF Stops
  <2>5. m \in Stops(T, k) /\ m <= i
    BY <1>3, <2>4
  <2>6. m \in Group /\ m \in Nat /\ i \in Nat
    BY <1>1, <2>2, <2>5 DEF Group
  <2>7. m = i \/ m \in 0 .. i - 1
    BY <2>5, <2>6
  <2>8. Found(T, k) = Match(T, k, Probe(k, m))
    BY DEF Found
  <2>9. Match(T, k, Probe(k, m)) # {}
    <3>1. CASE m = i
      BY <2>3, <3>1
    <3>2. CASE m \in 0 .. i - 1
      <4>1. MatchEmpty(T, Probe(k, m)) = {}
        BY <2>2, <3>2
      <4> QED
        BY <2>5, <4>1 DEF Stops
    <3> QED
      BY <2>7, <3>1, <3>2
  <2>10. \A u \in Found(T, k) : u = s
    BY <1>3, <1>4, <2>4 DEF Sound
  <2> QED
    BY <2>4, <2>8, <2>9, <2>10
<1>5. Stops(T, k) # {} /\ (\A s \in Stored(T) : T.key[s] # k) => Found(T, k) = {}
  BY <1>3
<1> QED
  BY <1>4, <1>5

(* dedup_lookup, on a table that has the pairs of the threads with a func.    *)
LEMMA LookupOf ==
  ASSUME NEW T, NEW f, Recorded(T, f), NEW k \in Key
  PROVE  /\ Stops(T, k) = {} => \A u \in Thread : f[u] # k
         /\ Stops(T, k) # {} =>
              \/ Lookup(T, k) = NULL /\ \A u \in Thread : f[u] # k
              \/ Lookup(T, k) \in Thread \ {Main} /\ f[Lookup(T, k)] = k
<1>1. Sound(T) /\ Entries(T) = {<<f[u], u>> : u \in {v \in Thread : f[v] # NoKey}}
  BY DEF Recorded
<1>2. k # NoKey
  BY TableAssumption DEF NoKey
<1>3. ASSUME NEW u \in Thread, f[u] = k
      PROVE  Stops(T, k) # {} /\ Lookup(T, k) = u
  <2>1. <<k, u>> \in Entries(T)
    BY <1>1, <1>2, <1>3
  <2>2. PICK s \in Stored(T) : T.key[s] = k /\ T.val[s] = u
    BY <2>1 DEF Entries
  <2>3. Stops(T, k) # {} /\ Found(T, k) = {s}
    BY <1>1, <2>2, FoundOf
  <2>4. s \in Slot /\ s[1] \in Group /\ {s} \in SUBSET InGroup(s[1])
    BY DEF Stored, Slot, InGroup
  <2>5. First({s}) = s
    BY <2>4, FirstIn
  <2> QED
    BY <2>2, <2>3, <2>5 DEF Lookup
<1>4. ASSUME Stops(T, k) # {}, \A u \in Thread : f[u] # k
      PROVE  Lookup(T, k) = NULL
  <2>1. ASSUME NEW s \in Stored(T), T.key[s] = k
        PROVE  FALSE
    <3>1. <<k, T.val[s]>> \in Entries(T)
      BY <2>1 DEF Entries
    <3>2. PICK u \in Thread : <<k, T.val[s]>> = <<f[u], u>>
      BY <1>1, <3>1
    <3> QED
      BY <1>4, <3>2
  <2>2. Found(T, k) = {}
    BY <1>1, <1>4, <2>1, FoundOf
  <2> QED
    BY <2>2 DEF Lookup
<1>5. \A u \in Thread : f[u] = k => u # Main
  BY <1>2 DEF Recorded
<1> QED
  BY <1>3, <1>4, <1>5

(* dedup_insert of a pair that is not stored, where it ends.                  *)
LEMMA InsertedSound ==
  ASSUME NEW T, Sound(T), NEW k \in Key, NEW t \in Thread,
         \A s \in Stored(T) : T.key[s] # k, Accepts(T, k) # {}
  PROVE  /\ Sound(Inserted(T, k, t))
         /\ Entries(Inserted(T, k, t)) = Entries(T) \cup {<<k, t>>}
<1> DEFINE m == Min(Accepts(T, k))
           F == MatchFree(T, Probe(k, m))
           s == First(F)
           U == Inserted(T, k, t)
<1>1. T \in TableType /\ TagOf(k) \in Int /\ TagOf(k) >= 0
  <2>1. TagOf(k) \in Nat
    BY HashFacts
  <2> QED
    BY <2>1 DEF Sound
<1>2. m \in Group /\ F # {} /\ \A j \in Group : MatchFree(T, Probe(k, j)) # {} => m <= j
  <2>1. Accepts(T, k) \in SUBSET Nat
    BY TableAssumption DEF Accepts, Group
  <2>2. m \in Accepts(T, k) /\ \A j \in Accepts(T, k) : m <= j
    BY <2>1, MinOf
  <2> QED
    BY <2>2 DEF Accepts
<1> HIDE DEF m
<1>3. m \in Nat /\ Probe(k, m) \in Group
  BY <1>2, HashFacts DEF Group
<1>4. s \in F /\ s \in Slot /\ s[1] = Probe(k, m) /\ T.ctrl[s] < 0
  <2>1. F \in SUBSET InGroup(Probe(k, m))
    BY DEF MatchFree
  <2>2. s \in F
    BY <1>2, <1>3, <2>1, FirstIn
  <2> QED
    BY <1>1, <1>2, <2>2, Matches
<1>5. /\ U.ctrl = [T.ctrl EXCEPT ![s] = TagOf(k)]
      /\ U.key = [T.key EXCEPT ![s] = k]
      /\ U.val = [T.val EXCEPT ![s] = t]
      /\ U = [ctrl |-> U.ctrl, key |-> U.key, val |-> U.val]
  BY DEF Inserted, m
<1> HIDE DEF s, U, F
<1>6. /\ \A u \in Slot : U.ctrl[u] = IF u = s THEN TagOf(k) ELSE T.ctrl[u]
      /\ \A u \in Slot : U.key[u] = IF u = s THEN k ELSE T.key[u]
      /\ \A u \in Slot : U.val[u] = IF u = s THEN t ELSE T.val[u]
  BY <1>1, <1>5 DEF TableType
<1>7. U \in TableType
  <2>1. U.ctrl \in [Slot -> Int]
    BY <1>1, <1>5 DEF TableType
  <2>2. U.key \in [Slot -> Key \cup {-1}]
    BY <1>1, <1>5 DEF TableType
  <2>3. U.val \in [Slot -> Thread \cup {NULL}]
    BY <1>1, <1>5 DEF TableType
  <2> QED
    BY <1>5, <2>1, <2>2, <2>3 DEF TableType
<1>8. Stored(U) = Stored(T) \cup {s} /\ s \notin Stored(T)
  <2>1. \A u \in Slot : T.ctrl[u] \in Int
    BY <1>1 DEF TableType
  <2>2. \A u \in Slot : U.ctrl[u] >= 0 <=> u = s \/ T.ctrl[u] >= 0
    BY <1>1, <1>6, <2>1
  <2> QED
    BY <1>4, <2>1, <2>2 DEF Stored
<1>9. \A u \in Stored(T) : U.key[u] = T.key[u] /\ U.val[u] = T.val[u] /\ U.ctrl[u] = T.ctrl[u]
  BY <1>6, <1>8 DEF Stored
<1>10. \A g : MatchEmpty(U, g) \subseteq MatchEmpty(T, g)
  <2> SUFFICES ASSUME NEW g, NEW u \in MatchEmpty(U, g) PROVE u \in MatchEmpty(T, g)
    OBVIOUS
  <2>1. u \in InGroup(g) /\ U.ctrl[u] = EMPTY
    BY DEF MatchEmpty
  <2>2. EMPTY < 0
    BY DEF EMPTY
  <2>3. u # s
    BY <1>1, <1>4, <1>6, <2>1, <2>2
  <2>4. CASE u \in Slot
    BY <1>6, <2>1, <2>3, <2>4 DEF MatchEmpty
  <2>5. CASE u \notin Slot
    <3>1. U.ctrl[u] = T.ctrl[u]
      BY <1>1, <1>5, <2>3 DEF TableType
    <3> QED
      BY <2>1, <3>1 DEF MatchEmpty
  <2> QED
    BY <2>4, <2>5
<1>11. \A u \in Stored(U) :
         U.key[u] \in Key /\ U.val[u] \in Thread /\ U.ctrl[u] = TagOf(U.key[u]) /\ Reached(U, u)
  <2>1. ASSUME NEW u \in Stored(T)
        PROVE  U.key[u] \in Key /\ U.val[u] \in Thread /\ U.ctrl[u] = TagOf(U.key[u])
               /\ Reached(U, u)
    <3>1. T.key[u] \in Key /\ T.val[u] \in Thread /\ T.ctrl[u] = TagOf(T.key[u]) /\ Reached(T, u)
      BY DEF Sound
    <3>2. PICK i \in Group :
            /\ Probe(T.key[u], i) = u[1]
            /\ \A j \in 0 .. i - 1 : MatchEmpty(T, Probe(T.key[u], j)) = {}
      BY <3>1 DEF Reached
    <3>3. \A j \in 0 .. i - 1 : MatchEmpty(U, Probe(T.key[u], j)) = {}
      BY <1>10, <3>2
    <3>4. Reached(U, u)
      BY <1>9, <3>2, <3>3 DEF Reached
    <3> QED
      BY <1>9, <3>1, <3>4
  <2>2. U.key[s] = k /\ U.val[s] = t /\ U.ctrl[s] = TagOf(U.key[s])
    BY <1>4, <1>6
  <2>3. \A j \in 0 .. m - 1 : MatchEmpty(U, Probe(k, j)) = {}
    <3> SUFFICES ASSUME NEW j \in 0 .. m - 1, NEW u \in MatchEmpty(U, Probe(k, j))
                 PROVE  FALSE
      OBVIOUS
    <3>1. j \in Group /\ ~(m <= j)
        BY <1>2, <1>3, TableAssumption DEF Group
    <3>2. u \in MatchEmpty(T, Probe(k, j))
      BY <1>10
    <3>3. u \in MatchFree(T, Probe(k, j))
      BY <3>2 DEF MatchEmpty, MatchFree, EMPTY
    <3> QED
      BY <1>2, <3>1, <3>3
  <2>4. Reached(U, s)
    BY <1>2, <1>4, <2>2, <2>3 DEF Reached
  <2> QED
    BY <1>8, <2>1, <2>2, <2>4
<1>12. U.key[s] = k /\ U.val[s] = t
  BY <1>4, <1>6
<1>13. \A u, v \in Stored(U) : U.key[u] = U.key[v] => u = v
  <2>1. \A u, v \in Stored(T) : T.key[u] = T.key[v] => u = v
    BY DEF Sound
  <2> QED
    BY <1>8, <1>9, <1>12, <2>1
<1>14. Entries(U) = Entries(T) \cup {<<k, t>>}
  BY <1>8, <1>9, <1>12 DEF Entries
<1>15. Sound(U)
  BY <1>7, <1>11, <1>13 DEF Sound
<1> QED
  BY <1>14, <1>15 DEF U

(* dedup_remove of a pair that is stored.                                     *)
LEMMA RemovedSound ==
  ASSUME NEW T, Sound(T), NEW s \in Stored(T)
  PROVE  /\ Sound(Removed(T, T.key[s]))
         /\ Entries(Removed(T, T.key[s])) = Entries(T) \ {<<T.key[s], T.val[s]>>}
<1> DEFINE k == T.key[s]
           U == Removed(T, k)
<1>1. T \in TableType /\ k \in Key /\ s \in Slot
  BY DEF Sound, Stored
<1>2. s[1] \in Group /\ {s} \in SUBSET InGroup(s[1])
  BY <1>1 DEF Slot, InGroup
<1>3. First(Found(T, k)) = s /\ Found(T, k) # {}
  <2>1. Found(T, k) = {s}
    BY <1>1, FoundOf
  <2> QED
    BY <1>2, <2>1, FirstIn
<1>4. U = [T EXCEPT !.ctrl[s] = Erased(T, s), !.key[s] = -1, !.val[s] = NULL]
  BY <1>3 DEF Removed
<1>5. /\ U.ctrl = [T.ctrl EXCEPT ![s] = Erased(T, s)]
      /\ U.key = [T.key EXCEPT ![s] = -1]
      /\ U.val = [T.val EXCEPT ![s] = NULL]
      /\ U = [ctrl |-> U.ctrl, key |-> U.key, val |-> U.val]
  BY <1>1, <1>4 DEF TableType
<1> HIDE DEF U
<1>6. Erased(T, s) \in Int /\ Erased(T, s) < 0
  BY DEF Erased, EMPTY, DELETED
<1>7. /\ \A u \in Slot : U.ctrl[u] = IF u = s THEN Erased(T, s) ELSE T.ctrl[u]
      /\ \A u \in Slot : U.key[u] = IF u = s THEN -1 ELSE T.key[u]
      /\ \A u \in Slot : U.val[u] = IF u = s THEN NULL ELSE T.val[u]
  BY <1>1, <1>5 DEF TableType
<1>8. U \in TableType
  <2>1. U.ctrl \in [Slot -> Int]
    BY <1>1, <1>5, <1>6 DEF TableType
  <2>2. U.key \in [Slot -> Key \cup {-1}]
    BY <1>1, <1>5 DEF TableType
  <2>3. U.val \in [Slot -> Thread \cup {NULL}]
    BY <1>1, <1>5 DEF TableType
  <2> QED
    BY <1>5, <2>1, <2>2, <2>3 DEF TableType
<1>9. Stored(U) = Stored(T) \ {s}
  BY <1>1, <1>6, <1>7 DEF Stored
<1>10. \A u \in Stored(U) : U.key[u] = T.key[u] /\ U.val[u] = T.val[u] /\ U.ctrl[u] = T.ctrl[u]
  BY <1>7, <1>9 DEF Stored
<1>11. \A g : MatchEmpty(T, g) = {} => MatchEmpty(U, g) = {}
  <2> SUFFICES ASSUME NEW g, MatchEmpty(T, g) = {}, NEW u \in MatchEmpty(U, g)
               PROVE  FALSE
    OBVIOUS
  <2>1. u \in InGroup(g) /\ U.ctrl[u] = EMPTY /\ T.ctrl[u] # EMPTY
    BY DEF MatchEmpty
  <2>2. u = s
    BY <1>1, <1>5, <2>1 DEF TableType
  <2>3. s[1] = g
    BY <1>1, <2>1, <2>2 DEF InGroup, Slot
  <2>4. Erased(T, s) = DELETED
    BY <2>3 DEF Erased
  <2> QED
    BY <1>1, <1>7, <2>1, <2>2, <2>4 DEF EMPTY, DELETED
<1>12. ASSUME NEW u \in Stored(U)
       PROVE  U.key[u] \in Key /\ U.val[u] \in Thread /\ U.ctrl[u] = TagOf(U.key[u])
              /\ Reached(U, u)
  <2>1. T.key[u] \in Key /\ T.val[u] \in Thread /\ T.ctrl[u] = TagOf(T.key[u]) /\ Reached(T, u)
    BY <1>9 DEF Sound
  <2>2. PICK i \in Group :
          /\ Probe(T.key[u], i) = u[1]
          /\ \A j \in 0 .. i - 1 : MatchEmpty(T, Probe(T.key[u], j)) = {}
    BY <2>1 DEF Reached
  <2>3. \A j \in 0 .. i - 1 : MatchEmpty(U, Probe(T.key[u], j)) = {}
    BY <1>11, <2>2
  <2>4. Reached(U, u)
    BY <1>10, <2>2, <2>3 DEF Reached
  <2> QED
    BY <1>10, <2>1, <2>4
<1>13. \A u, v \in Stored(T) : T.key[u] = T.key[v] => u = v
  BY DEF Sound
<1>14. \A u, v \in Stored(U) : U.key[u] = U.key[v] => u = v
  BY <1>9, <1>10, <1>13
<1>15. Entries(U) = Entries(T) \ {<<k, T.val[s]>>}
  <2>1. Entries(U) = {<<T.key[u], T.val[u]>> : u \in Stored(T) \ {s}}
    BY <1>9, <1>10 DEF Entries
  <2>2. \A u \in Stored(T) : u # s => T.key[u] # k
    BY <1>13
  <2> QED
    BY <2>1, <2>2 DEF Entries
<1>16. Sound(U)
  BY <1>8, <1>12, <1>14 DEF Sound
<1> QED
  BY <1>15, <1>16 DEF U

(* A thread gets a func, and its pair a slot.                                 *)
LEMMA RecordedMore ==
  ASSUME NEW T, NEW f, Recorded(T, f), NEW k \in Key, NEW t \in Thread \ {Main},
         f[t] = NoKey, \A u \in Thread : f[u] # k, Accepts(T, k) # {}
  PROVE  Recorded(Inserted(T, k, t), [f EXCEPT ![t] = k])
<1> DEFINE g == [f EXCEPT ![t] = k]
           U == Inserted(T, k, t)
<1>1. /\ Sound(T) /\ f \in [Thread -> Key \cup {NoKey}] /\ f[Main] = NoKey
      /\ Entries(T) = {<<f[u], u>> : u \in {v \in Thread : f[v] # NoKey}}
      /\ \A u, v \in Thread : f[u] = f[v] /\ f[u] # NoKey => u = v
  BY DEF Recorded
<1>2. \A s \in Stored(T) : T.key[s] # k
  <2> SUFFICES ASSUME NEW s \in Stored(T), T.key[s] = k PROVE FALSE
    OBVIOUS
  <2>1. <<k, T.val[s]>> \in Entries(T)
    BY DEF Entries
  <2>2. PICK u \in Thread : <<k, T.val[s]>> = <<f[u], u>>
    BY <1>1, <2>1
  <2> QED
    BY <2>2
<1>3. Sound(U) /\ Entries(U) = Entries(T) \cup {<<k, t>>}
  BY <1>1, <1>2, InsertedSound
<1>4. k # NoKey
  BY TableAssumption DEF NoKey
<1>5. /\ g \in [Thread -> Key \cup {NoKey}]
      /\ \A u \in Thread : g[u] = IF u = t THEN k ELSE f[u]
  BY <1>1
<1> HIDE DEF g, U
<1>6. {<<g[u], u>> : u \in {v \in Thread : g[v] # NoKey}}
        = {<<f[u], u>> : u \in {v \in Thread : f[v] # NoKey}} \cup {<<k, t>>}
  <2>1. {v \in Thread : g[v] # NoKey} = {v \in Thread : f[v] # NoKey} \cup {t}
    BY <1>4, <1>5
  <2>2. \A u \in {v \in Thread : f[v] # NoKey} : g[u] = f[u]
    BY <1>5
  <2>3. g[t] = k
    BY <1>5
  <2> QED
    BY <2>1, <2>2, <2>3
<1>7. \A u, v \in Thread : g[u] = g[v] /\ g[u] # NoKey => u = v
  BY <1>1, <1>5
<1>8. g[Main] = NoKey /\ Entries(U) = {<<g[u], u>> : u \in {v \in Thread : g[v] # NoKey}}
  BY <1>1, <1>3, <1>5, <1>6, MergedAssumption DEF Main
<1>9. Recorded(U, g)
  BY <1>3, <1>5, <1>7, <1>8 DEF Recorded
<1> QED
  BY <1>9 DEF g, U

(* A thread loses its func, and its pair the slot.                            *)
LEMMA RecordedLess ==
  ASSUME NEW T, NEW f, Recorded(T, f), NEW t \in Thread, f[t] # NoKey
  PROVE  Recorded(Removed(T, f[t]), [f EXCEPT ![t] = NoKey])
<1> DEFINE g == [f EXCEPT ![t] = NoKey]
           U == Removed(T, f[t])
<1>1. /\ Sound(T) /\ f \in [Thread -> Key \cup {NoKey}] /\ f[Main] = NoKey
      /\ Entries(T) = {<<f[u], u>> : u \in {v \in Thread : f[v] # NoKey}}
      /\ \A u, v \in Thread : f[u] = f[v] /\ f[u] # NoKey => u = v
  BY DEF Recorded
<1>2. PICK s \in Stored(T) : T.key[s] = f[t] /\ T.val[s] = t
  <2>1. <<f[t], t>> \in Entries(T)
    BY <1>1
  <2> QED
    BY <2>1 DEF Entries
<1>3. Sound(U) /\ Entries(U) = Entries(T) \ {<<f[t], t>>}
  BY <1>1, <1>2, RemovedSound
<1>4. /\ g \in [Thread -> Key \cup {NoKey}]
      /\ \A u \in Thread : g[u] = IF u = t THEN NoKey ELSE f[u]
  BY <1>1
<1> HIDE DEF g, U
<1>5. {<<g[u], u>> : u \in {v \in Thread : g[v] # NoKey}}
        = {<<f[u], u>> : u \in {v \in Thread : f[v] # NoKey}} \ {<<f[t], t>>}
  <2>1. {v \in Thread : g[v] # NoKey} = {v \in Thread : f[v] # NoKey} \ {t}
    BY <1>4
  <2>2. \A u \in {v \in Thread : f[v] # NoKey} \ {t} : g[u] = f[u]
    BY <1>4
  <2> QED
    BY <2>1, <2>2
<1>6. \A u, v \in Thread : g[u] = g[v] /\ g[u] # NoKey => u = v
  BY <1>1, <1>4
<1>7. g[Main] = NoKey /\ Entries(U) = {<<g[u], u>> : u \in {v \in Thread : g[v] # NoKey}}
  BY <1>1, <1>3, <1>4, <1>5, MergedAssumption DEF Main
<1>8. Recorded(U, g)
  BY <1>3, <1>4, <1>6, <1>7 DEF Recorded
<1> QED
  BY <1>8 DEF g, U

-------------------------------------------------------------------------------
(* A set of subsets of a finite set that has a set whenever it has the set    *)
(* without the element that a fold takes first has them all.                  *)
Choice(s) == CHOOSE x \in s : TRUE

LEMMA ChoiceIn ==
  ASSUME NEW s, s # {}
  PROVE  Choice(s) \in s
BY DEF Choice

LEMMA SubsetInduction ==
  ASSUME NEW D, IsFiniteSet(D), NEW P \in SUBSET (SUBSET D),
         \A s \in SUBSET D : s = {} \/ s \ {Choice(s)} \in P => s \in P
  PROVE  P = SUBSET D
<1> DEFINE Bad == {n \in Nat : \E s \in (SUBSET D) \ P : Cardinality(s) = n}
<1>1. SUFFICES ASSUME NEW s \in (SUBSET D) \ P PROVE FALSE
  OBVIOUS
<1>2. \A u \in SUBSET D : IsFiniteSet(u) /\ Cardinality(u) \in Nat
  BY FS_Subset, FS_CardinalityType
<1>3. Bad # {} /\ Bad \in SUBSET Nat
  BY <1>2
<1>4. PICK n \in Bad : \A k \in Bad : n <= k
  <2> HIDE DEF Bad
  <2> QED
    BY <1>3, Least
<1>5. PICK u \in (SUBSET D) \ P : Cardinality(u) = n
  BY <1>4
<1>6. u # {} /\ u \ {Choice(u)} \notin P
  OBVIOUS
<1>7. Cardinality(u \ {Choice(u)}) = Cardinality(u) - 1
  BY <1>2, <1>6, ChoiceIn, FS_RemoveElement
<1>8. u \ {Choice(u)} \in (SUBSET D) \ P
  BY <1>6
<1>9. n - 1 \in Bad
  BY <1>2, <1>5, <1>7, <1>8
<1>10. n \in Nat /\ ~(n <= n - 1)
  BY <1>3
<1> QED
  BY <1>4, <1>9, <1>10

(* The sums of a function over the subsets of a set.                          *)
Sums(f, D, w) ==
  [s \in SUBSET D |-> IF s = {} THEN 0 ELSE f[Choice(s)] + w[s \ {Choice(s)}]]

LEMMA SumsExist ==
  ASSUME NEW f, NEW D, IsFiniteSet(D)
  PROVE  \E w : w = Sums(f, D, w)
<1> DEFINE Upto(n, w) ==
             [s \in SUBSET D |->
                IF s = {} \/ Cardinality(s) > n THEN 0 ELSE f[Choice(s)] + w[s \ {Choice(s)}]]
           Bad == {n \in Nat : \A w : w # Upto(n, w)}
<1>1. \A u \in SUBSET D : IsFiniteSet(u) /\ Cardinality(u) \in Nat
  BY FS_Subset, FS_CardinalityType
<1>2. Bad = {}
  <2>1. SUFFICES ASSUME Bad # {} PROVE FALSE
    OBVIOUS
  <2>2. PICK n \in Bad : \A k \in Bad : n <= k
    <3>1. Bad \in SUBSET Nat
      OBVIOUS
    <3> HIDE DEF Bad
    <3> QED
      BY <2>1, <3>1, Least
  <2>3. n # 0
    <3> DEFINE w == [s \in SUBSET D |-> 0]
    <3>1. \A s \in SUBSET D : s = {} \/ Cardinality(s) > 0
      BY <1>1, FS_EmptySet
    <3>2. w = Upto(0, w)
      BY <3>1
    <3> QED
      BY <3>2
  <2>4. n \in Nat /\ n - 1 \in Nat /\ ~(n <= n - 1)
    BY <2>3
  <2>5. PICK w : w = Upto(n - 1, w)
    <3>1. n - 1 \notin Bad
      <4> HIDE DEF Bad
      <4> QED
        BY <2>2, <2>4
    <3> HIDE DEF Upto
    <3> QED
      BY <2>4, <3>1
  <2> DEFINE v == [s \in SUBSET D |->
                     IF s = {} \/ Cardinality(s) > n THEN 0 ELSE f[Choice(s)] + w[s \ {Choice(s)}]]
  <2>6. ASSUME NEW s \in SUBSET D, s # {}, ~(Cardinality(s) > n)
        PROVE  v[s \ {Choice(s)}] = w[s \ {Choice(s)}]
    <3> DEFINE u == s \ {Choice(s)}
    <3>1. u \in SUBSET D /\ Cardinality(u) = Cardinality(s) - 1
      BY <1>1, <2>6, ChoiceIn, FS_RemoveElement
    <3>2. ~(Cardinality(u) > n - 1) /\ ~(Cardinality(u) > n)
      BY <1>1, <2>4, <2>6, <3>1
    <3>3. w[u] = IF u = {} \/ Cardinality(u) > n - 1
                 THEN 0 ELSE f[Choice(u)] + w[u \ {Choice(u)}]
      BY <2>5, <3>1
    <3> HIDE DEF u
    <3>4. v[u] = w[u]
      BY <3>1, <3>2, <3>3
    <3> QED
      BY <3>4 DEF u
  <2>7. v = [s \in SUBSET D |-> v[s]]
    OBVIOUS
  <2>8. \A s \in SUBSET D :
          v[s] = IF s = {} \/ Cardinality(s) > n THEN 0 ELSE f[Choice(s)] + v[s \ {Choice(s)}]
    BY <2>6
  <2> HIDE DEF v
  <2>9. v = Upto(n, v)
    BY <2>7, <2>8
  <2> QED
    BY <2>9
<1>3. Cardinality(D) \in Nat
  BY FS_CardinalityType
<1>4. PICK w : w = Upto(Cardinality(D), w)
  <2>1. Cardinality(D) \notin Bad
    BY <1>2
  <2> HIDE DEF Upto
  <2> QED
    BY <1>3, <2>1
<1>5. \A s \in SUBSET D : ~(Cardinality(s) > Cardinality(D))
  BY <1>1, <1>3, FS_Subset
<1>6. w = Sums(f, D, w)
  BY <1>4, <1>5 DEF Sums
<1> QED
  BY <1>6

(* What Sum is: the sums of a function over the subsets of its domain, of     *)
(* which it is the last.                                                      *)
LEMMA SumDef ==
  ASSUME NEW f, IsFiniteSet(DOMAIN f)
  PROVE  \E w : w = Sums(f, DOMAIN f, w) /\ Sum(f) = w[DOMAIN f]
<1> DEFINE w == CHOOSE v : v = Sums(f, DOMAIN f, v)
<1>1. w = Sums(f, DOMAIN f, w)
  BY SumsExist
<1>2. Sum(f) = w[DOMAIN f]
  BY DEF Sum, FoldFunction, FoldFunctionOnSet, MapThenFoldSet, Sums, Choice
<1> QED
  BY <1>1, <1>2

(* A sum of numbers is a number, and bounds each of them.                     *)
LEMMA SumBounds ==
  ASSUME NEW D, IsFiniteSet(D), NEW f \in [D -> Nat]
  PROVE  Sum(f) \in Nat /\ \A x \in D : f[x] <= Sum(f)
<1>1. DOMAIN f = D
  OBVIOUS
<1>2. PICK w : w = Sums(f, D, w) /\ Sum(f) = w[D]
  BY <1>1, SumDef
<1>3. \A s \in SUBSET D : w[s] = IF s = {} THEN 0 ELSE f[Choice(s)] + w[s \ {Choice(s)}]
  BY <1>2 DEF Sums
<1> DEFINE P == {s \in SUBSET D : w[s] \in Nat /\ \A x \in s : f[x] <= w[s]}
<1>4. ASSUME NEW s \in SUBSET D, s = {} \/ s \ {Choice(s)} \in P PROVE s \in P
  <2>1. CASE s = {}
    BY <1>3, <2>1
  <2>2. CASE s # {}
    <3> DEFINE c == Choice(s)
               u == s \ {c}
    <3>1. c \in s /\ w[u] \in Nat /\ \A x \in u : f[x] <= w[u]
      BY <1>4, <2>2, ChoiceIn
    <3>2. f[c] \in Nat /\ w[s] = f[c] + w[u]
      BY <1>3, <2>2, <3>1
    <3> HIDE DEF c
    <3>3. \A x \in s : f[x] \in Nat /\ (x = c \/ x \in u)
      OBVIOUS
    <3>4. \A x \in s : f[x] <= w[s]
      BY <3>1, <3>2, <3>3
    <3> QED
      BY <3>1, <3>2, <3>4
  <2> QED
    BY <2>1, <2>2
<1>5. P = SUBSET D
  <2>1. P \in SUBSET (SUBSET D)
    OBVIOUS
  <2> HIDE DEF P
  <2> QED
    BY <1>4, <2>1, SubsetInduction
<1>6. D \in P
  BY <1>5
<1> QED
  BY <1>2, <1>6

LEMMA SumZero ==
  ASSUME NEW D, IsFiniteSet(D), NEW f, DOMAIN f = D, \A x \in D : f[x] = 0
  PROVE  Sum(f) = 0
<1>1. PICK w : w = Sums(f, D, w) /\ Sum(f) = w[D]
  BY SumDef
<1>2. \A s \in SUBSET D : w[s] = IF s = {} THEN 0 ELSE f[Choice(s)] + w[s \ {Choice(s)}]
  BY <1>1 DEF Sums
<1> DEFINE P == {s \in SUBSET D : w[s] = 0}
<1>3. ASSUME NEW s \in SUBSET D, s = {} \/ s \ {Choice(s)} \in P PROVE s \in P
  <2>1. s # {} => Choice(s) \in D
    BY ChoiceIn
  <2> QED
    BY <1>2, <1>3, <2>1
<1>4. P = SUBSET D
  <2>1. P \in SUBSET (SUBSET D)
    OBVIOUS
  <2> HIDE DEF P
  <2> QED
    BY <1>3, <2>1, SubsetInduction
<1>5. D \in P
  BY <1>4
<1> QED
  BY <1>1, <1>5

(* A sum changes by what one term of it changes.                              *)
SameBut(f, g, D, z) == \A y \in D : y # z => g[y] = f[y]

LEMMA SumChanged ==
  ASSUME NEW D, IsFiniteSet(D), NEW f \in [D -> Nat], NEW g \in [D -> Nat],
         NEW z \in D, SameBut(f, g, D, z)
  PROVE  Sum(g) = Sum(f) + (g[z] - f[z])
<1>1. DOMAIN f = D /\ DOMAIN g = D
  OBVIOUS
<1>2. PICK v : v = Sums(f, D, v) /\ Sum(f) = v[D]
  BY <1>1, SumDef
<1>3. PICK w : w = Sums(g, D, w) /\ Sum(g) = w[D]
  BY <1>1, SumDef
<1>4. /\ \A s \in SUBSET D : v[s] = IF s = {} THEN 0 ELSE f[Choice(s)] + v[s \ {Choice(s)}]
      /\ \A s \in SUBSET D : w[s] = IF s = {} THEN 0 ELSE g[Choice(s)] + w[s \ {Choice(s)}]
  BY <1>2, <1>3 DEF Sums
<1> DEFINE d == g[z] - f[z]
           P == {s \in SUBSET D : v[s] \in Int /\ w[s] = v[s] + (IF z \in s THEN d ELSE 0)}
<1>5. \A x \in D : f[x] \in Int /\ g[x] \in Int
  OBVIOUS
<1>6. ASSUME NEW s \in SUBSET D, s = {} \/ s \ {Choice(s)} \in P PROVE s \in P
  <2>1. CASE s = {}
    <3>1. v[s] = 0 /\ w[s] = 0 /\ z \notin s
      BY <1>4, <2>1
    <3> HIDE DEF d
    <3> QED
      BY <3>1
  <2>2. CASE s # {}
    <3> DEFINE c == Choice(s)
               u == s \ {c}
    <3>1. c \in s /\ v[u] \in Int /\ w[u] = v[u] + (IF z \in u THEN d ELSE 0)
      BY <1>6, <2>2, ChoiceIn
    <3>2. v[s] = f[c] + v[u] /\ w[s] = g[c] + w[u]
      BY <1>4, <2>2
    <3> HIDE DEF c
    <3>3. f[c] \in Int /\ g[c] \in Int /\ f[z] \in Int /\ g[z] \in Int
      BY <1>5, <3>1
    <3>4. CASE c = z
      <4>1. z \in s /\ z \notin u
        BY <3>1, <3>4
      <4> QED
        BY <3>1, <3>2, <3>3, <3>4, <4>1
    <3>5. CASE c # z
      <4>1. g[c] = f[c] /\ (z \in s <=> z \in u)
        BY <3>1, <3>5 DEF SameBut
      <4> QED
        BY <3>1, <3>2, <3>3, <4>1
    <3> QED
      BY <3>4, <3>5
  <2> QED
    BY <2>1, <2>2
<1>7. P = SUBSET D
  <2>1. P \in SUBSET (SUBSET D)
    OBVIOUS
  <2> HIDE DEF P
  <2> QED
    BY <1>6, <2>1, SubsetInduction
<1>8. D \in P
  BY <1>7
<1> QED
  BY <1>2, <1>3, <1>8

(* How often a thread is held, as the client holds threads by h.              *)
HeldBy(h, t) == Sum([j \in Thread |-> h[j][t]])

LEMMA HeldByBounds ==
  ASSUME NEW h \in [Thread -> [Thread -> Nat]], NEW t \in Thread
  PROVE  HeldBy(h, t) \in Nat /\ \A j \in Thread : h[j][t] <= HeldBy(h, t)
<1> DEFINE f == [j \in Thread |-> h[j][t]]
<1>1. f \in [Thread -> Nat] /\ \A j \in Thread : f[j] = h[j][t]
  OBVIOUS
<1> HIDE DEF f
<1>2. Sum(f) \in Nat /\ \A j \in Thread : f[j] <= Sum(f)
  BY <1>1, MergedAssumption, SumBounds
<1> QED
  BY <1>1, <1>2 DEF HeldBy, f

LEMMA HeldByNone ==
  ASSUME NEW h, NEW t \in Thread, \A j \in Thread : h[j][t] = 0
  PROVE  HeldBy(h, t) = 0
<1> DEFINE f == [j \in Thread |-> h[j][t]]
<1>1. DOMAIN f = Thread /\ \A j \in Thread : f[j] = 0
  OBVIOUS
<1> HIDE DEF f
<1>2. Sum(f) = 0
  BY <1>1, MergedAssumption, SumZero
<1> QED
  BY <1>2 DEF HeldBy, f

(* A thread j has t n times instead.                                          *)
Instead(h, e, j, t, n) ==
  \A i, u \in Thread : e[i][u] = IF i = j /\ u = t THEN n ELSE h[i][u]
Shifted(h, e, t, d) ==
  /\ HeldBy(e, t) = HeldBy(h, t) + d
  /\ \A u \in Thread : u # t => HeldBy(e, u) = HeldBy(h, u)

LEMMA HeldByChanged ==
  ASSUME NEW h \in [Thread -> [Thread -> Nat]], NEW e \in [Thread -> [Thread -> Nat]],
         NEW j \in Thread, NEW t \in Thread, NEW n \in Nat,
         NEW d \in Int, d = n - h[j][t], Instead(h, e, j, t, n)
  PROVE  Shifted(h, e, t, d)
<1>1. HeldBy(e, t) = HeldBy(h, t) + d
  <2> DEFINE f == [i \in Thread |-> h[i][t]]
             g == [i \in Thread |-> e[i][t]]
  <2>1. /\ f \in [Thread -> Nat] /\ g \in [Thread -> Nat]
        /\ f[j] = h[j][t] /\ g[j] = n
        /\ SameBut(f, g, Thread, j)
    BY DEF Instead, SameBut
  <2> HIDE DEF f, g
  <2>2. Sum(g) = Sum(f) + (g[j] - f[j])
    BY <2>1, MergedAssumption, SumChanged
  <2> QED
    BY <2>1, <2>2 DEF HeldBy, f, g
<1>2. ASSUME NEW u \in Thread, u # t PROVE HeldBy(e, u) = HeldBy(h, u)
  <2>1. [i \in Thread |-> e[i][u]] = [i \in Thread |-> h[i][u]]
    BY <1>2 DEF Instead
  <2> QED
    BY <2>1 DEF HeldBy
<1> QED
  BY <1>1, <1>2 DEF Shifted

-------------------------------------------------------------------------------
PC == {"free", "fresh", "user", "ready", "inline", "parked", "back", "done"}

TypeOK ==
  /\ phase \in {"running", "exited", "stuck", "probing"}
  /\ current \in Thread
  /\ pc \in [Thread -> PC]
  /\ refcount \in [Thread -> Int]
  /\ waiting \in [Thread -> Thread \cup {NULL}]
  /\ inliner \in [Thread -> Thread \cup {NULL}]
  /\ target \in [Thread -> Thread \cup {NULL}]
  /\ pair \in [Thread -> Key \cup {NoKey}]
  /\ holds \in [Thread -> [Thread -> Nat]]

Has(h, j, t) == h[j][t] > 0

(* The counts are exact, and only descriptors in use are held.                *)
CountsOf(r, h, p) ==
  /\ \A t \in Thread \ {Main} : r[t] = HeldBy(h, t)
  /\ \A j, t \in Thread : Has(h, j, t) => t # Main /\ p[t] # "free"

(* The newest thread is not in the table, ...                                 *)
KnownOf(T, f, l) ==
  /\ Recorded(T, f)
  /\ l # NoLast =>
       /\ l \in [thread : Thread \ {Main}, key : Key]
       /\ f[l.thread] = NoKey
       /\ \A u \in Thread : f[u] # l.key

(* ... and has never run; a free descriptor is not in it either.              *)
Fits(f, l, p) ==
  /\ l # NoLast => p[l.thread] = "fresh"
  /\ \A u \in Thread : p[u] = "free" => f[u] = NoKey
  /\ p[Main] # "free"

(* A thread in a join holds the one it joins, which will hand over to it.     *)
Blocked(j) == pc[j] \in {"inline", "parked", "back"}
Control ==
  /\ \A j \in Thread : Blocked(j) => target[j] \in Thread /\ Has(holds, j, target[j])
  /\ \A j \in Thread : pc[j] = "back" => j = current /\ pc[target[j]] = "done"
  /\ \A t \in Thread :
       inliner[t] # NULL => pc[inliner[t]] = "inline" /\ target[inliner[t]] = t
  /\ \A t \in Thread :
       waiting[t] # NULL /\ pc[t] \notin {"free", "done"} =>
         pc[waiting[t]] = "parked" /\ target[waiting[t]] = t

MergedInv ==
  /\ TypeOK
  /\ CountsOf(refcount, holds, pc)
  /\ KnownOf(table, func, last)
  /\ Fits(func, last, pc)
  /\ phase = "running" => Control

LEMMA Consts ==
  Main \in Thread /\ NULL \notin Thread /\ NoKey \notin Key
BY TableAssumption, MergedAssumption DEF Main, NULL, NoKey

(* A thread j gets t once more, ...                                           *)
Grown(h, e) == \A i, u \in Thread : Has(h, i, u) => Has(e, i, u)

LEMMA HoldsMore ==
  ASSUME NEW h \in [Thread -> [Thread -> Nat]], NEW j \in Thread, NEW t \in Thread, NEW e,
         e = [h EXCEPT ![j][t] = @ + 1]
  PROVE  /\ e \in [Thread -> [Thread -> Nat]]
         /\ \E m \in Nat : m = h[j][t] + 1 /\ Instead(h, e, j, t, m)
<1>1. PICK m \in Nat : m = h[j][t] + 1
  OBVIOUS
<1>2. e = [h EXCEPT ![j][t] = m]
  BY <1>1
<1>3. e \in [Thread -> [Thread -> Nat]] /\ Instead(h, e, j, t, m)
  BY <1>2 DEF Instead
<1> QED
  BY <1>1, <1>3

LEMMA CountsMore ==
  ASSUME NEW r, NEW s, NEW p, NEW q,
         NEW h \in [Thread -> [Thread -> Nat]], NEW e \in [Thread -> [Thread -> Nat]],
         CountsOf(r, h, p), NEW j \in Thread, NEW t \in Thread, t # Main,
         NEW m \in Nat, m = h[j][t] + 1, Instead(h, e, j, t, m),
         SameBut(r, s, Thread, t), s[t] = HeldBy(h, t) + 1,
         q[t] # "free", \A u \in Thread : p[u] # "free" => q[u] # "free"
  PROVE  Grown(h, e) /\ CountsOf(s, e, q)
<1>1. Shifted(h, e, t, 1)
  <2>1. 1 \in Int /\ 1 = m - h[j][t]
    OBVIOUS
  <2> QED
    BY <2>1, HeldByChanged
<1>2. HeldBy(e, t) = s[t] /\ \A u \in Thread : u # t => HeldBy(e, u) = HeldBy(h, u)
  BY <1>1 DEF Shifted
<1>3. \A u \in Thread \ {Main} : s[u] = HeldBy(e, u)
  BY <1>2 DEF CountsOf, SameBut
<1>4. \A i, u \in Thread : Has(e, i, u) => Has(h, i, u) \/ u = t
  BY DEF Has, Instead
<1>5. Grown(h, e)
  BY DEF Has, Instead, Grown
<1>6. \A i, u \in Thread : Has(e, i, u) => u # Main /\ q[u] # "free"
  BY <1>4 DEF CountsOf
<1> QED
  BY <1>3, <1>5, <1>6 DEF CountsOf

(* ... or once less; nobody has it any more if the count was one.             *)
Kept(h, e, j) == \A i, u \in Thread : i # j /\ Has(h, i, u) => Has(e, i, u)
OnlyOne(h, j, t) == \A i \in Thread : i # j => ~Has(h, i, t)
NoLonger(p, q, r, t) == \A u \in Thread : p[u] # "free" => q[u] # "free" \/ (u = t /\ r[t] = 1)

LEMMA HoldsLess ==
  ASSUME NEW h \in [Thread -> [Thread -> Nat]], NEW j \in Thread, NEW t \in Thread, NEW e,
         e = [h EXCEPT ![j][t] = @ - 1], Has(h, j, t)
  PROVE  /\ e \in [Thread -> [Thread -> Nat]]
         /\ \E m \in Nat : m = h[j][t] - 1 /\ Instead(h, e, j, t, m)
<1>1. PICK m \in Nat : m = h[j][t] - 1
  <2>1. h[j][t] \in Nat /\ h[j][t] > 0
    BY DEF Has
  <2> QED
    BY <2>1
<1>2. e = [h EXCEPT ![j][t] = m]
  BY <1>1
<1>3. e \in [Thread -> [Thread -> Nat]] /\ Instead(h, e, j, t, m)
  BY <1>2 DEF Instead
<1> QED
  BY <1>1, <1>3

LEMMA CountsLess ==
  ASSUME NEW r, NEW s, NEW p, NEW q,
         NEW h \in [Thread -> [Thread -> Nat]], NEW e \in [Thread -> [Thread -> Nat]],
         CountsOf(r, h, p), NEW j \in Thread, NEW t \in Thread, Has(h, j, t),
         NEW m \in Nat, m = h[j][t] - 1, Instead(h, e, j, t, m),
         SameBut(r, s, Thread, t), s[t] = r[t] - 1,
         NoLonger(p, q, r, t)
  PROVE  /\ t # Main
         /\ Kept(h, e, j)
         /\ CountsOf(s, e, q)
         /\ r[t] = 1 => OnlyOne(h, j, t)
<1>1. t # Main /\ r[t] = HeldBy(h, t)
  BY DEF CountsOf
<1>2. Shifted(h, e, t, -1)
  <2>1. -1 \in Int /\ -1 = m - h[j][t]
    OBVIOUS
  <2> QED
    BY <2>1, HeldByChanged
<1>3. HeldBy(h, t) \in Nat
  BY HeldByBounds
<1>4. HeldBy(e, t) = s[t] /\ \A u \in Thread : u # t => HeldBy(e, u) = HeldBy(h, u)
  BY <1>1, <1>2, <1>3 DEF Shifted
<1>5. \A u \in Thread \ {Main} : s[u] = HeldBy(e, u)
  BY <1>4 DEF CountsOf, SameBut
<1>6. \A i, u \in Thread : Has(e, i, u) => Has(h, i, u)
  BY DEF Has, Instead
<1>7. Kept(h, e, j)
  BY DEF Has, Instead, Kept
<1>8. r[t] = 1 => \A i \in Thread : ~Has(e, i, t)
  <2> SUFFICES ASSUME r[t] = 1, NEW i \in Thread PROVE ~Has(e, i, t)
    OBVIOUS
  <2>1. HeldBy(e, t) = 0
    BY <1>1, <1>4
  <2>2. e[i][t] \in Nat /\ e[i][t] <= HeldBy(e, t)
    BY HeldByBounds
  <2> QED
    BY <2>1, <2>2 DEF Has
<1>9. \A i, u \in Thread : Has(e, i, u) => u # Main /\ q[u] # "free"
  BY <1>6, <1>8 DEF CountsOf, NoLonger
<1>10. CountsOf(s, e, q)
  BY <1>5, <1>9 DEF CountsOf
<1> QED
  BY <1>1, <1>7, <1>8, <1>10 DEF Kept, OnlyOne

(* The pair of a thread is forgotten, ...                                     *)
LEMMA ForgottenKnown ==
  ASSUME KnownOf(table, func, last), NEW t \in Thread
  PROVE  KnownOf(Forgotten(t), [func EXCEPT ![t] = NoKey], last)
<1> DEFINE g == [func EXCEPT ![t] = NoKey]
<1>1. Recorded(table, func) /\ func \in [Thread -> Key \cup {NoKey}]
  BY DEF KnownOf, Recorded
<1>2. Recorded(Forgotten(t), g)
  <2>1. CASE func[t] = NoKey
    <3>1. g = func
      BY <1>1, <2>1
    <3> QED
      BY <1>1, <2>1, <3>1 DEF Forgotten
  <2>2. CASE func[t] # NoKey
    <3>1. Recorded(Removed(table, func[t]), g)
      BY <1>1, <2>2, RecordedLess
    <3> QED
      BY <2>2, <3>1 DEF Forgotten
  <2> QED
    BY <2>1, <2>2
<1>3. \A u \in Thread : g[u] = func[u] \/ g[u] = NoKey
  BY <1>1
<1> HIDE DEF g
<1>4. last # NoLast =>
       /\ last \in [thread : Thread \ {Main}, key : Key]
       /\ g[last.thread] = NoKey
       /\ \A u \in Thread : g[u] # last.key
  BY <1>3, Consts DEF KnownOf
<1>5. KnownOf(Forgotten(t), g, last)
  BY <1>2, <1>4 DEF KnownOf
<1> QED
  BY <1>5 DEF g

(* ... and the newest thread is flushed.                                      *)
LEMMA FlushedKnown ==
  ASSUME NEW T, NEW f, KnownOf(T, f, last), FlushEnds(T)
  PROVE  /\ KnownOf(FlushedTable(T), FlushedFunc(f), NoLast)
         /\ \A u \in Thread :
              FlushedFunc(f)[u] = IF last # NoLast /\ u = last.thread THEN last.key ELSE f[u]
<1>1. f \in [Thread -> Key \cup {NoKey}]
  BY DEF KnownOf, Recorded
<1>2. CASE last = NoLast
  BY <1>2 DEF FlushedTable, FlushedFunc, KnownOf
<1>3. CASE last # NoLast
  <2>1. /\ last.thread \in Thread \ {Main} /\ last.key \in Key
        /\ f[last.thread] = NoKey /\ \A u \in Thread : f[u] # last.key
        /\ Recorded(T, f) /\ Accepts(T, last.key) # {}
    BY <1>3 DEF KnownOf, FlushEnds
  <2>2. Recorded(Inserted(T, last.key, last.thread), [f EXCEPT ![last.thread] = last.key])
    BY <2>1, RecordedMore
  <2> QED
    BY <1>1, <1>3, <2>2 DEF FlushedTable, FlushedFunc, KnownOf
<1> QED
  BY <1>2, <1>3

(* The thread that thread_create finds.                                       *)
LEMMA ExistingOf ==
  ASSUME MergedInv, NEW k \in Key, LookupEnds(k)
  PROVE  /\ Existing(k) # NULL => Existing(k) \in Thread \ {Main} /\ pc[Existing(k)] # "free"
         /\ Existing(k) = NULL => last.key # k /\ \A u \in Thread : func[u] # k
<1>1. KnownOf(table, func, last) /\ Fits(func, last, pc) /\ Recorded(table, func)
  BY DEF MergedInv, KnownOf
<1>2. CASE last # NoLast /\ last.key = k
  <2>1. Existing(k) = last.thread
    BY <1>2 DEF Existing
  <2> QED
    BY <1>1, <1>2, <2>1, Consts DEF KnownOf, Fits
<1>3. CASE ~(last # NoLast /\ last.key = k)
  <2>1. last.key # k
    BY <1>3, Consts DEF NoLast
  <2>2. Stops(table, k) # {} /\ Existing(k) = Lookup(table, k)
    BY <1>3, <2>1 DEF Existing, LookupEnds
  <2>3. \/ Lookup(table, k) = NULL /\ \A u \in Thread : func[u] # k
        \/ Lookup(table, k) \in Thread \ {Main} /\ func[Lookup(table, k)] = k
    BY <1>1, <2>2, LookupOf
  <2> QED
    BY <1>1, <2>1, <2>2, <2>3, Consts DEF Fits
<1> QED
  BY <1>2, <1>3

-------------------------------------------------------------------------------
(* Each action keeps the invariant.                                           *)
LEMMA CreateMergedKeeps ==
  ASSUME MergedInv, NEW k \in Key, CreateMerged(k)
  PROVE  MergedInv'
<1> DEFINE t == Existing(k)
<1>1. /\ phase = "running" /\ pc[current] = "user" /\ LookupEnds(k) /\ t # NULL
      /\ holds' = [holds EXCEPT ![current][t] = @ + 1]
      /\ refcount' = [refcount EXCEPT ![t] = @ + 1]
      /\ UNCHANGED <<phase, current, pc, func, waiting, inliner, target, last, table, pair>>
  BY DEF CreateMerged, Creating, Calling, Hold, Counted, fields
<1>2. t \in Thread \ {Main} /\ pc[t] # "free"
  BY <1>1, ExistingOf
<1> HIDE DEF t
<1>3. TypeOK /\ CountsOf(refcount, holds, pc) /\ Control
  BY <1>1 DEF MergedInv
<1>4. /\ refcount \in [Thread -> Int] /\ holds \in [Thread -> [Thread -> Nat]]
      /\ current \in Thread
  BY <1>3 DEF TypeOK
<1>5. holds' \in [Thread -> [Thread -> Nat]]
  BY <1>1, <1>2, <1>4, HoldsMore
<1>6. SameBut(refcount, refcount', Thread, t) /\ refcount'[t] = HeldBy(holds, t) + 1
      /\ refcount' \in [Thread -> Int]
  <2>1. refcount[t] = HeldBy(holds, t)
    BY <1>2, <1>3 DEF CountsOf
  <2> QED
    BY <1>1, <1>2, <1>4, <2>1 DEF SameBut
<1>7. Grown(holds, holds') /\ CountsOf(refcount', holds', pc')
  <2>1. PICK m \in Nat :
          m = holds[current][t] + 1 /\ Instead(holds, holds', current, t, m)
    BY <1>1, <1>2, <1>4, HoldsMore
  <2>2. CountsOf(refcount, holds, pc) /\ pc' = pc
    BY <1>1, <1>3
  <2> QED
    BY <1>2, <1>4, <1>5, <1>6, <2>1, <2>2, CountsMore
<1>8. TypeOK'
  BY <1>1, <1>3, <1>5, <1>6 DEF TypeOK
<1>9. Control'
  <2>1. current' = current /\ pc' = pc /\ target' = target /\ waiting' = waiting /\ inliner' = inliner
    BY <1>1
  <2> QED
    BY <1>3, <1>7, <2>1 DEF Control, Blocked, Grown
<1>10. KnownOf(table, func, last)' /\ Fits(func, last, pc)'
  BY <1>1 DEF MergedInv, KnownOf, Fits
<1> QED
  BY <1>7, <1>8, <1>9, <1>10 DEF MergedInv

LEMMA CreateNewKeeps ==
  ASSUME MergedInv, NEW k \in Key, CreateNew(k)
  PROVE  MergedInv'
<1> DEFINE t == Min(Free)
           g == [func EXCEPT ![t] = NoKey]
<1>1. /\ phase = "running" /\ pc[current] = "user" /\ LookupEnds(k) /\ Existing(k) = NULL
      /\ Free # {} /\ FlushEnds(table)
      /\ holds' = [holds EXCEPT ![current][t] = @ + 1]
      /\ pc' = [pc EXCEPT ![t] = "fresh"]
      /\ refcount' = [refcount EXCEPT ![t] = 1]
      /\ func' = FlushedFunc(g)
      /\ waiting' = [waiting EXCEPT ![t] = NULL]
      /\ inliner' = [inliner EXCEPT ![t] = NULL]
      /\ table' = FlushedTable(table)
      /\ last' = [thread |-> t, key |-> k]
      /\ pair' = [pair EXCEPT ![t] = k]
      /\ UNCHANGED <<phase, current, target>>
  BY DEF CreateNew, CreatingNew, Creating, Calling, Hold
<1>2. /\ TypeOK /\ CountsOf(refcount, holds, pc) /\ Control
      /\ KnownOf(table, func, last) /\ Fits(func, last, pc)
  BY <1>1 DEF MergedInv
<1>3. t \in Thread /\ pc[t] = "free"
  <2>1. Free \in SUBSET Nat
    BY TableAssumption DEF Free
  <2>2. t \in Free
    BY <1>1, <2>1, MinOf
  <2> QED
    BY <2>2 DEF Free
<1> HIDE DEF t
<1>4. t # Main /\ func[t] = NoKey /\ func \in [Thread -> Key \cup {NoKey}] /\ g = func
  BY <1>2, <1>3 DEF Fits, KnownOf, Recorded
<1>5. /\ refcount \in [Thread -> Int] /\ holds \in [Thread -> [Thread -> Nat]]
      /\ current \in Thread
  BY <1>2 DEF TypeOK
<1>6. holds' \in [Thread -> [Thread -> Nat]] /\ Grown(holds, holds') /\ CountsOf(refcount', holds', pc')
  <2>1. \A i \in Thread : holds[i][t] = 0
    <3>1. \A i \in Thread : ~Has(holds, i, t)
      BY <1>2, <1>3 DEF CountsOf
    <3> QED
      BY <1>3, <1>5, <3>1 DEF Has
  <2>2. HeldBy(holds, t) = 0
    BY <1>3, <2>1, HeldByNone
  <2>3. SameBut(refcount, refcount', Thread, t) /\ refcount'[t] = HeldBy(holds, t) + 1
    BY <1>1, <1>3, <1>5, <2>2 DEF SameBut
  <2>4. pc'[t] # "free" /\ \A u \in Thread : pc[u] # "free" => pc'[u] # "free"
    BY <1>1, <1>2, <1>3 DEF TypeOK
  <2>5. holds' \in [Thread -> [Thread -> Nat]]
    BY <1>1, <1>3, <1>5, HoldsMore
  <2>6. PICK m \in Nat :
          m = holds[current][t] + 1 /\ Instead(holds, holds', current, t, m)
    BY <1>1, <1>3, <1>5, HoldsMore
  <2>7. CountsOf(refcount, holds, pc) /\ t \in Thread /\ t # Main
    BY <1>2, <1>3, <1>4
  <2> QED
    BY <1>5, <2>3, <2>4, <2>5, <2>6, <2>7, CountsMore
<1>7. TypeOK'
  <2>1. refcount' \in [Thread -> Int]
    BY <1>1, <1>3, <1>5
  <2>2. pc' \in [Thread -> PC]
    BY <1>1, <1>2 DEF TypeOK, PC
  <2> QED
    BY <1>1, <1>2, <1>6, <2>1, <2>2 DEF TypeOK
<1>8. Control'
  <2>1. /\ \A u \in Thread : u # t => pc'[u] = pc[u] /\ waiting'[u] = waiting[u] /\ inliner'[u] = inliner[u]
        /\ pc'[t] = "fresh" /\ waiting'[t] = NULL /\ inliner'[t] = NULL
    BY <1>1, <1>2, <1>3 DEF TypeOK
  <2>2. \A j \in Thread : ~Has(holds, j, t)
    BY <1>2, <1>3 DEF CountsOf
  <2>3. /\ current' = current /\ target' = target /\ pc[t] = "free"
        /\ waiting \in [Thread -> Thread \cup {NULL}] /\ inliner \in [Thread -> Thread \cup {NULL}]
    BY <1>1, <1>2, <1>3 DEF TypeOK
  <2>4. \A j \in Thread : Blocked(j)' => target'[j] \in Thread /\ Has(holds', j, target'[j])
    BY <1>2, <1>6, <2>1, <2>3 DEF Control, Blocked, Grown
  <2>5. \A j \in Thread : pc'[j] = "back" => j = current' /\ pc'[target'[j]] = "done"
    BY <1>2, <2>1, <2>3 DEF Control, Blocked
  <2>6. \A u \in Thread :
          inliner'[u] # NULL => pc'[inliner'[u]] = "inline" /\ target'[inliner'[u]] = u
    BY <1>2, <2>1, <2>3 DEF Control
  <2>7. \A u \in Thread :
          waiting'[u] # NULL /\ pc'[u] \notin {"free", "done"} =>
            pc'[waiting'[u]] = "parked" /\ target'[waiting'[u]] = u
    BY <1>2, <2>1, <2>3 DEF Control
  <2> QED
    BY <2>4, <2>5, <2>6, <2>7 DEF Control
<1>9. KnownOf(table, func, last)' /\ Fits(func, last, pc)'
  <2>1. /\ KnownOf(table', func', NoLast)
        /\ \A u \in Thread :
             func'[u] = IF last # NoLast /\ u = last.thread THEN last.key ELSE func[u]
    <3>1. KnownOf(table, func, last) /\ FlushEnds(table)
      BY <1>1, <1>2
    <3>2. func' = FlushedFunc(func) /\ table' = FlushedTable(table)
      BY <1>1, <1>4
    <3> QED
      BY <3>1, <3>2, FlushedKnown
  <2>2. last # NoLast => last.thread # t
    BY <1>2, <1>3 DEF Fits
  <2>3. last.key # k /\ \A u \in Thread : func[u] # k
    BY <1>1, ExistingOf
  <2>4. func'[t] = NoKey /\ \A u \in Thread : func'[u] # k
    <3>1. func'[t] = NoKey
      BY <1>3, <1>4, <2>1, <2>2
    <3>2. \A u \in Thread : func'[u] # k
      BY <2>1, <2>3
    <3> QED
      BY <3>1, <3>2
  <2>5. last' \in [thread : Thread \ {Main}, key : Key] /\ last'.thread = t /\ last'.key = k
    BY <1>1, <1>3, <1>4
  <2>6. KnownOf(table', func', last')
    BY <2>1, <2>4, <2>5 DEF KnownOf
  <2>7. \A u \in Thread : pc'[u] = IF u = t THEN "fresh" ELSE pc[u]
    BY <1>1, <1>2 DEF TypeOK
  <2>8. \A u \in Thread : pc'[u] = "free" => func'[u] = NoKey
    BY <1>2, <2>1, <2>7 DEF Fits
  <2>9. pc'[Main] # "free"
    BY <1>2, <2>7, Consts DEF Fits
  <2> QED
    BY <1>3, <2>5, <2>6, <2>7, <2>8, <2>9 DEF KnownOf, Fits
<1> QED
  BY <1>6, <1>7, <1>8, <1>9 DEF MergedInv

(* Flush, with changes of pc that free no descriptor.                         *)
LEMMA FlushKeeps ==
  ASSUME MergedInv, Flush, \A u \in Thread : pc'[u] = "free" => pc[u] = "free"
  PROVE  KnownOf(table, func, last)' /\ Fits(func, last, pc)'
<1>1. /\ KnownOf(table, func, last) /\ Fits(func, last, pc)
      /\ FlushEnds(table)
      /\ table' = FlushedTable(table) /\ func' = FlushedFunc(func) /\ last' = NoLast
  BY DEF MergedInv, Flush
<1>2. /\ KnownOf(table', func', last')
      /\ \A u \in Thread :
           func'[u] = IF last # NoLast /\ u = last.thread THEN last.key ELSE func[u]
  BY <1>1, FlushedKnown
<1>3. \A u \in Thread : pc'[u] = "free" => func'[u] = NoKey
  BY <1>1, <1>2 DEF Fits
<1>4. pc'[Main] # "free"
  BY <1>1, Consts DEF Fits
<1> QED
  BY <1>1, <1>2, <1>3, <1>4 DEF KnownOf, Fits

(* The counts do not change if no descriptor becomes free.                    *)
LEMMA CountsSame ==
  ASSUME CountsOf(refcount, holds, pc), refcount' = refcount, holds' = holds,
         \A u \in Thread : pc'[u] = "free" => pc[u] = "free"
  PROVE  CountsOf(refcount, holds, pc)'
BY DEF CountsOf, Has

LEMMA YieldKeeps ==
  ASSUME MergedInv, Yield
  PROVE  MergedInv'
<1> DEFINE OnlyElected == \A u \in Thread :
             \/ pc'[u] = pc[u]
             \/ pc[u] \in {"user", "fresh", "ready"} /\ pc'[u] \in {"user", "ready"}
<1>1. /\ phase = "running" /\ pc[current] = "user" /\ Flush
      /\ UNCHANGED <<phase, refcount, waiting, inliner, target, pair, holds>>
  BY DEF Yield, Yielding, Calling, fields
<1>2. /\ TypeOK /\ CountsOf(refcount, holds, pc) /\ Control /\ current \in Thread
      /\ pc \in [Thread -> PC]
  BY <1>1 DEF MergedInv, TypeOK
<1>3. \/ current' = current /\ pc' = pc
      \/ \E next \in Thread :
           /\ pc[next] \in {"fresh", "ready"}
           /\ current' = next
           /\ pc' = [pc EXCEPT ![current] = "ready", ![next] = "user"]
  <2>1. CASE Ready = {} /\ UNCHANGED <<current, pc>>
    BY <2>1
  <2>2. CASE \E next \in Ready : SwitchTo(next, [pc EXCEPT ![current] = "ready"])
    <3>1. PICK next \in Ready : SwitchTo(next, [pc EXCEPT ![current] = "ready"])
      BY <2>2
    <3>2. next \in Thread /\ pc[next] \in {"fresh", "ready"}
      BY DEF Ready
    <3>3. current' = next /\ pc' = [pc EXCEPT ![current] = "ready", ![next] = "user"]
      BY <3>1 DEF SwitchTo
    <3> QED
      BY <3>2, <3>3
  <2> QED
    BY <2>1, <2>2 DEF Yield
<1>4. TypeOK' /\ OnlyElected
  <2>1. CASE current' = current /\ pc' = pc
    BY <1>1, <1>2, <2>1 DEF TypeOK
  <2>2. ASSUME NEW next \in Thread, pc[next] \in {"fresh", "ready"}, current' = next,
               pc' = [pc EXCEPT ![current] = "ready", ![next] = "user"]
        PROVE  TypeOK' /\ OnlyElected
    <3>1. pc' \in [Thread -> PC]
      BY <1>2, <2>2 DEF PC
    <3>2. \A u \in Thread : pc'[u] = IF u = next THEN "user" ELSE IF u = current THEN "ready" ELSE pc[u]
      BY <1>2, <2>2
    <3> QED
      BY <1>1, <1>2, <2>2, <3>1, <3>2 DEF TypeOK
  <2> QED
    BY <1>3, <2>1, <2>2
<1>5. KnownOf(table, func, last)' /\ Fits(func, last, pc)'
  BY <1>1, <1>4, FlushKeeps
<1>6. CountsOf(refcount, holds, pc)'
  BY <1>1, <1>2, <1>4, CountsSame
<1>7. Control'
  <2>1. \A j \in Thread : pc[j] # "back"
    BY <1>1, <1>2 DEF Control
  <2>2. \A j \in Thread : Blocked(j)' => target'[j] \in Thread /\ Has(holds', j, target'[j])
    BY <1>1, <1>2, <1>4 DEF Control, Blocked
  <2>3. \A j \in Thread : pc'[j] # "back"
    BY <1>4, <2>1
  <2>4. \A u \in Thread :
          inliner'[u] # NULL => pc'[inliner'[u]] = "inline" /\ target'[inliner'[u]] = u
    BY <1>1, <1>2, <1>4 DEF Control, TypeOK
  <2>5. \A u \in Thread :
          waiting'[u] # NULL /\ pc'[u] \notin {"free", "done"} =>
            pc'[waiting'[u]] = "parked" /\ target'[waiting'[u]] = u
    BY <1>1, <1>2, <1>4 DEF Control, TypeOK
  <2> QED
    BY <2>2, <2>3, <2>4, <2>5 DEF Control
<1> QED
  BY <1>4, <1>5, <1>6, <1>7 DEF MergedInv

(* The end of a join on t, when t is done.                                    *)
LEMMA CleanupKeeps ==
  ASSUME MergedInv, phase = "running", NEW t \in Thread, NEW pcs, Cleanup(t, pcs),
         Has(holds, current, t), pc[t] = "done",
         pc[current] \in {"user", "back"}, pcs = [pc EXCEPT ![current] = "user"],
         UNCHANGED <<phase, current, waiting, inliner, last>>,
         target' \in [Thread -> Thread \cup {NULL}],
         \A u \in Thread : u # current => target'[u] = target[u]
  PROVE  MergedInv'
<1>1. /\ TypeOK /\ CountsOf(refcount, holds, pc) /\ Control
      /\ KnownOf(table, func, last) /\ Fits(func, last, pc)
  BY DEF MergedInv
<1>2. /\ refcount \in [Thread -> Int] /\ holds \in [Thread -> [Thread -> Nat]]
      /\ current \in Thread /\ pc \in [Thread -> PC] /\ pair \in [Thread -> Key \cup {NoKey}]
      /\ t # current
  BY <1>1 DEF TypeOK
<1>3. /\ refcount' = [refcount EXCEPT ![t] = @ - 1]
      /\ holds' = [holds EXCEPT ![current][t] = @ - 1]
      /\ \/ /\ refcount[t] = 1
            /\ table' = Forgotten(t) /\ func' = [func EXCEPT ![t] = NoKey]
            /\ pc' = [pcs EXCEPT ![t] = "free"] /\ pair' = [pair EXCEPT ![t] = NoKey]
         \/ pc' = pcs /\ UNCHANGED <<table, func, pair>>
  BY DEF Cleanup
<1>4. /\ \A u \in Thread : u # t /\ u # current => pc'[u] = pc[u]
      /\ pc'[current] = "user"
      /\ pc'[t] = "done" \/ (pc'[t] = "free" /\ refcount[t] = 1)
      /\ pc' \in [Thread -> PC]
  <2>1. pcs \in [Thread -> PC] /\ \A u \in Thread : pcs[u] = IF u = current THEN "user" ELSE pc[u]
    BY <1>2 DEF PC
  <2>2. CASE pc' = pcs
    BY <1>2, <2>1, <2>2
  <2>3. CASE refcount[t] = 1 /\ pc' = [pcs EXCEPT ![t] = "free"]
    <3>1. \A u \in Thread : pc'[u] = IF u = t THEN "free" ELSE pcs[u]
      BY <2>1, <2>3
    <3>2. pc' \in [Thread -> PC]
      BY <2>1, <2>3 DEF PC
    <3> QED
      BY <1>2, <2>1, <2>3, <3>1, <3>2
  <2> QED
    BY <1>3, <2>2, <2>3
<1>5. holds' \in [Thread -> [Thread -> Nat]]
  BY <1>2, <1>3, HoldsLess
<1>6. /\ SameBut(refcount, refcount', Thread, t) /\ refcount'[t] = refcount[t] - 1
      /\ refcount' \in [Thread -> Int]
  BY <1>2, <1>3 DEF SameBut
<1>7. /\ t # Main /\ Kept(holds, holds', current) /\ CountsOf(refcount', holds', pc')
      /\ refcount[t] = 1 => OnlyOne(holds, current, t)
  <2>1. PICK m \in Nat : m = holds[current][t] - 1 /\ Instead(holds, holds', current, t, m)
    BY <1>2, <1>3, HoldsLess
  <2>2. NoLonger(pc, pc', refcount, t)
    BY <1>4 DEF NoLonger
  <2>3. CountsOf(refcount, holds, pc)
    BY <1>1
  <2>4. /\ current \in Thread /\ t \in Thread /\ Has(holds, current, t)
        /\ holds \in [Thread -> [Thread -> Nat]] /\ holds' \in [Thread -> [Thread -> Nat]]
    BY <1>2, <1>5
  <2>5. SameBut(refcount, refcount', Thread, t) /\ refcount'[t] = refcount[t] - 1
    BY <1>6
  <2> QED
    BY <2>1, <2>2, <2>3, <2>4, <2>5, CountsLess
<1>8. TypeOK'
  <2>1. pair' \in [Thread -> Key \cup {NoKey}]
    BY <1>2, <1>3
  <2> QED
    BY <1>1, <1>4, <1>5, <1>6, <2>1 DEF TypeOK
<1>9. KnownOf(table', func', last') /\ \A u \in Thread : func'[u] = func[u] \/ func'[u] = NoKey
  <2>1. func \in [Thread -> Key \cup {NoKey}]
    BY <1>1 DEF KnownOf, Recorded
  <2>2. CASE table' = Forgotten(t) /\ func' = [func EXCEPT ![t] = NoKey]
    <3>1. KnownOf(Forgotten(t), [func EXCEPT ![t] = NoKey], last)
      BY <1>1, ForgottenKnown
    <3> QED
      BY <2>1, <2>2, <3>1
  <2>3. CASE table' = table /\ func' = func
    BY <1>1, <2>3
  <2> QED
    BY <1>3, <2>2, <2>3
<1>10. pc'[t] = "free" => func'[t] = NoKey
  <2>1. func \in [Thread -> Key \cup {NoKey}]
    BY <1>1 DEF KnownOf, Recorded
  <2>2. CASE func' = [func EXCEPT ![t] = NoKey]
    BY <2>1, <2>2
  <2>3. CASE pc' = pcs
    BY <1>2, <2>3
  <2> QED
    BY <1>3, <2>2, <2>3
<1>11. KnownOf(table, func, last)' /\ Fits(func, last, pc)'
  <2>1. last' = last /\ (last # NoLast => last.thread \in Thread)
    BY <1>1 DEF KnownOf
  <2>2. last' # NoLast => pc'[last'.thread] = "fresh"
    BY <1>1, <1>4, <2>1 DEF Fits
  <2>3. \A u \in Thread : pc'[u] = "free" => func'[u] = NoKey
    BY <1>1, <1>4, <1>9, <1>10 DEF Fits
  <2>4. pc'[Main] # "free"
    BY <1>1, <1>4, <1>7, Consts DEF Fits
  <2> QED
    BY <1>9, <2>2, <2>3, <2>4 DEF KnownOf, Fits
<1>12. Control'
  <2>1. /\ \A j \in Thread : pc[j] = "back" => j = current
        /\ current' = current /\ waiting' = waiting /\ inliner' = inliner
        /\ waiting \in [Thread -> Thread \cup {NULL}] /\ inliner \in [Thread -> Thread \cup {NULL}]
    BY <1>1 DEF Control, TypeOK
  <2>2. \A j \in Thread : Blocked(j)' => target'[j] \in Thread /\ Has(holds', j, target'[j])
    BY <1>1, <1>4, <1>7 DEF Control, Blocked, Kept, OnlyOne
  <2>3. \A j \in Thread : pc'[j] # "back"
    BY <1>4, <2>1
  <2>4. \A u \in Thread :
          inliner'[u] # NULL => pc'[inliner'[u]] = "inline" /\ target'[inliner'[u]] = u
    BY <1>1, <1>4, <2>1 DEF Control
  <2>5. \A u \in Thread :
          waiting'[u] # NULL /\ pc'[u] \notin {"free", "done"} =>
            pc'[waiting'[u]] = "parked" /\ target'[waiting'[u]] = u
    BY <1>1, <1>4, <2>1 DEF Control
  <2> QED
    BY <2>2, <2>3, <2>4, <2>5 DEF Control
<1> QED
  BY <1>7, <1>8, <1>11, <1>12 DEF MergedInv

LEMMA JoinFinishedKeeps ==
  ASSUME MergedInv, NEW t \in Thread, JoinFinished(t)
  PROVE  MergedInv'
<1>1. /\ phase = "running" /\ pc[current] = "user" /\ Has(holds, current, t) /\ pc[t] = "done"
      /\ Cleanup(t, pc) /\ UNCHANGED <<phase, current, waiting, inliner, target, last>>
  BY DEF JoinFinished, Joining, Calling, Has, fields
<1>2. pc = [pc EXCEPT ![current] = "user"] /\ target \in [Thread -> Thread \cup {NULL}]
  BY <1>1 DEF MergedInv, TypeOK
<1> QED
  BY <1>1, <1>2, CleanupKeeps

LEMMA JoinReturnKeeps ==
  ASSUME MergedInv, JoinReturn
  PROVE  MergedInv'
<1> DEFINE t == target[current]
<1>1. /\ phase = "running" /\ pc[current] = "back"
      /\ target' = [target EXCEPT ![current] = NULL]
      /\ Cleanup(t, [pc EXCEPT ![current] = "user"])
      /\ UNCHANGED <<phase, current, waiting, inliner, last>>
  BY DEF JoinReturn
<1>2. t \in Thread /\ Has(holds, current, t) /\ pc[t] = "done"
  BY <1>1 DEF MergedInv, TypeOK, Control, Blocked
<1>3. /\ target' \in [Thread -> Thread \cup {NULL}]
      /\ \A u \in Thread : u # current => target'[u] = target[u]
  BY <1>1 DEF MergedInv, TypeOK
<1> HIDE DEF t
<1> QED
  BY <1>1, <1>2, <1>3, CleanupKeeps

LEMMA JoinInlineKeeps ==
  ASSUME MergedInv, NEW t \in Thread, JoinInline(t)
  PROVE  MergedInv'
<1>1. /\ phase = "running" /\ pc[current] = "user" /\ Has(holds, current, t) /\ pc[t] = "fresh"
      /\ pc' = [pc EXCEPT ![current] = "inline", ![t] = "user"]
      /\ inliner' = [inliner EXCEPT ![t] = current]
      /\ target' = [target EXCEPT ![current] = t]
      /\ current' = t
      /\ UNCHANGED <<phase, refcount, waiting, pair, holds>>
  BY DEF JoinInline, JoiningFresh, Joining, Calling, RunInline, Has
<1>2. /\ TypeOK /\ CountsOf(refcount, holds, pc) /\ Control
      /\ KnownOf(table, func, last) /\ Fits(func, last, pc)
      /\ current \in Thread /\ current # t /\ pc \in [Thread -> PC]
      /\ inliner \in [Thread -> Thread \cup {NULL}] /\ target \in [Thread -> Thread \cup {NULL}]
      /\ waiting \in [Thread -> Thread \cup {NULL}]
  BY <1>1 DEF MergedInv, TypeOK
<1>3. /\ \A u \in Thread : pc'[u] = IF u = t THEN "user" ELSE IF u = current THEN "inline" ELSE pc[u]
      /\ \A u \in Thread : inliner'[u] = IF u = t THEN current ELSE inliner[u]
      /\ \A u \in Thread : target'[u] = IF u = current THEN t ELSE target[u]
  BY <1>1, <1>2
<1>4. TypeOK'
  <2>1. pc' \in [Thread -> PC]
    BY <1>1, <1>2 DEF PC
  <2> QED
    BY <1>1, <1>2, <2>1 DEF TypeOK
<1>5. \A u \in Thread : pc'[u] = "free" => pc[u] = "free"
  BY <1>3
<1>6. KnownOf(table, func, last)' /\ Fits(func, last, pc)'
  <2>1. CASE last.thread = t
    <3>1. last' = NoLast /\ func' = func /\ table' = table
      BY <2>1 DEF JoinInline
    <3>2. KnownOf(table', func', last')
      BY <1>2, <3>1 DEF KnownOf
    <3> QED
      BY <1>2, <1>5, <3>1, <3>2, Consts DEF KnownOf, Fits
  <2>2. CASE last.thread # t
    <3>1. Flush
      BY <2>2 DEF JoinInline
    <3> QED
      BY <1>5, <3>1, FlushKeeps
  <2> QED
    BY <2>1, <2>2
<1>7. CountsOf(refcount, holds, pc)'
  BY <1>1, <1>2, <1>5, CountsSame
<1>8. Control'
  <2>1. \A j \in Thread : pc[j] # "back"
    BY <1>1, <1>2 DEF Control
  <2>2. \A j \in Thread : Blocked(j)' => target'[j] \in Thread /\ Has(holds', j, target'[j])
    BY <1>1, <1>2, <1>3 DEF Control, Blocked
  <2>3. \A j \in Thread : pc'[j] # "back"
    BY <1>3, <2>1
  <2>4. \A u \in Thread :
          inliner'[u] # NULL => pc'[inliner'[u]] = "inline" /\ target'[inliner'[u]] = u
    BY <1>1, <1>2, <1>3 DEF Control
  <2>5. \A u \in Thread :
          waiting'[u] # NULL /\ pc'[u] \notin {"free", "done"} =>
            pc'[waiting'[u]] = "parked" /\ target'[waiting'[u]] = u
    BY <1>1, <1>2, <1>3 DEF Control
  <2> QED
    BY <2>2, <2>3, <2>4, <2>5 DEF Control
<1> QED
  BY <1>4, <1>6, <1>7, <1>8 DEF MergedInv

LEMMA JoinWaitKeeps ==
  ASSUME MergedInv, NEW t \in Thread, JoinWait(t)
  PROVE  MergedInv'
<1>1. /\ phase = "running" /\ pc[current] = "user" /\ Has(holds, current, t)
      /\ pc[t] \notin {"free", "fresh", "done"}
      /\ waiting' = [waiting EXCEPT ![t] = current] /\ Flush
      /\ UNCHANGED <<refcount, inliner, pair, holds>>
  BY DEF JoinWait, Waits, Joining, Calling, Started, Has
<1>2. /\ TypeOK /\ CountsOf(refcount, holds, pc) /\ Control
      /\ current \in Thread /\ pc \in [Thread -> PC]
      /\ inliner \in [Thread -> Thread \cup {NULL}] /\ target \in [Thread -> Thread \cup {NULL}]
      /\ waiting \in [Thread -> Thread \cup {NULL}]
  BY <1>1 DEF MergedInv, TypeOK
<1>3. waiting' \in [Thread -> Thread \cup {NULL}]
  BY <1>1, <1>2
<1>4. CASE phase' = "stuck" /\ UNCHANGED <<current, pc, target>>
  <2>1. TypeOK'
    BY <1>1, <1>2, <1>3, <1>4 DEF TypeOK
  <2>2. KnownOf(table, func, last)' /\ Fits(func, last, pc)'
    BY <1>1, <1>4, FlushKeeps
  <2>3. CountsOf(refcount, holds, pc)'
    BY <1>1, <1>2, <1>4, CountsSame
  <2> QED
    BY <1>4, <2>1, <2>2, <2>3 DEF MergedInv
<1>5. CASE /\ \E next \in Ready : SwitchTo(next, [pc EXCEPT ![current] = "parked"])
           /\ target' = [target EXCEPT ![current] = t]
           /\ UNCHANGED phase
  <2>1. PICK next \in Ready : SwitchTo(next, [pc EXCEPT ![current] = "parked"])
    BY <1>5
  <2>2. /\ next \in Thread /\ pc[next] \in {"fresh", "ready"} /\ next # current
        /\ current' = next /\ pc' = [pc EXCEPT ![current] = "parked", ![next] = "user"]
    BY <1>1, <2>1 DEF Ready, SwitchTo
  <2>3. /\ \A u \in Thread : pc'[u] = IF u = next THEN "user" ELSE IF u = current THEN "parked" ELSE pc[u]
        /\ \A u \in Thread : waiting'[u] = IF u = t THEN current ELSE waiting[u]
        /\ \A u \in Thread : target'[u] = IF u = current THEN t ELSE target[u]
    BY <1>1, <1>2, <1>5, <2>2
  <2>4. TypeOK'
    <3>1. pc' \in [Thread -> PC]
      BY <1>2, <2>2 DEF PC
    <3>2. target' \in [Thread -> Thread \cup {NULL}]
      BY <1>2, <1>5
    <3> QED
      BY <1>1, <1>2, <1>3, <1>5, <2>2, <3>1, <3>2 DEF TypeOK
  <2>5. \A u \in Thread : pc'[u] = "free" => pc[u] = "free"
    BY <2>3
  <2>6. KnownOf(table, func, last)' /\ Fits(func, last, pc)'
    BY <1>1, <2>5, FlushKeeps
  <2>7. CountsOf(refcount, holds, pc)'
    BY <1>1, <1>2, <2>5, CountsSame
  <2>8. Control'
    <3>1. \A j \in Thread : pc[j] # "back"
      BY <1>1, <1>2 DEF Control
    <3>2. \A j \in Thread : Blocked(j)' => target'[j] \in Thread /\ Has(holds', j, target'[j])
      BY <1>1, <1>2, <2>3 DEF Control, Blocked
    <3>3. \A j \in Thread : pc'[j] # "back"
      BY <2>3, <3>1
    <3>4. \A u \in Thread :
            inliner'[u] # NULL => pc'[inliner'[u]] = "inline" /\ target'[inliner'[u]] = u
      BY <1>1, <1>2, <2>2, <2>3 DEF Control
    <3>5. \A u \in Thread :
            waiting'[u] # NULL /\ pc'[u] \notin {"free", "done"} =>
              pc'[waiting'[u]] = "parked" /\ target'[waiting'[u]] = u
      BY <1>1, <1>2, <2>2, <2>3 DEF Control
    <3> QED
      BY <3>2, <3>3, <3>4, <3>5 DEF Control
  <2> QED
    BY <2>4, <2>6, <2>7, <2>8 DEF MergedInv
<1> QED
  BY <1>4, <1>5 DEF JoinWait

(* A thread that ends hands over to the joiner j that named it.               *)
LEMMA HandOverKeeps ==
  ASSUME MergedInv, phase = "running", pc[current] = "user", NEW j \in Thread,
         Blocked(j), target[j] = current,
         \A u \in Thread \ {current} : inliner[u] # j,
         \A u \in Thread \ {current} : pc[u] \notin {"free", "done"} => waiting[u] # j,
         inliner' = [inliner EXCEPT ![current] = NULL],
         pc' = [pc EXCEPT ![current] = "done", ![j] = "back"],
         current' = j,
         UNCHANGED <<phase, refcount, func, waiting, target, last, table, pair, holds>>
  PROVE  MergedInv'
<1>1. /\ TypeOK /\ CountsOf(refcount, holds, pc) /\ Control
      /\ KnownOf(table, func, last) /\ Fits(func, last, pc)
      /\ current \in Thread /\ pc \in [Thread -> PC]
      /\ inliner \in [Thread -> Thread \cup {NULL}] /\ target \in [Thread -> Thread \cup {NULL}]
      /\ waiting \in [Thread -> Thread \cup {NULL}]
  BY DEF MergedInv, TypeOK
<1>2. pc[j] \in {"inline", "parked", "back"} /\ j # current
  BY DEF Blocked
<1>3. /\ \A u \in Thread : pc'[u] = IF u = j THEN "back" ELSE IF u = current THEN "done" ELSE pc[u]
      /\ \A u \in Thread : inliner'[u] = IF u = current THEN NULL ELSE inliner[u]
  BY <1>1
<1>4. TypeOK'
  <2>1. pc' \in [Thread -> PC]
    BY <1>1 DEF PC
  <2> QED
    BY <1>1, <2>1 DEF TypeOK
<1>5. \A u \in Thread : pc'[u] = "free" => pc[u] = "free"
  BY <1>3
<1>6. CountsOf(refcount, holds, pc)'
  BY <1>1, <1>5, CountsSame
<1>7. KnownOf(table, func, last)' /\ Fits(func, last, pc)'
  <2>1. last # NoLast => last.thread \in Thread /\ pc[last.thread] = "fresh"
    BY <1>1 DEF KnownOf, Fits
  <2>2. last # NoLast => pc'[last.thread] = "fresh"
    BY <1>2, <1>3, <2>1
  <2> QED
    BY <1>1, <1>5, <2>2, Consts DEF KnownOf, Fits
<1>8. Control'
  <2>1. \A i \in Thread : pc[i] # "back"
    BY <1>1 DEF Control
  <2>2. \A i \in Thread : Blocked(i)' => target'[i] \in Thread /\ Has(holds', i, target'[i])
    BY <1>1, <1>2, <1>3 DEF Control, Blocked
  <2>3. \A i \in Thread : pc'[i] = "back" => i = current' /\ pc'[target'[i]] = "done"
    BY <1>1, <1>2, <1>3, <2>1
  <2>4. \A u \in Thread :
          inliner'[u] # NULL => pc'[inliner'[u]] = "inline" /\ target'[inliner'[u]] = u
    BY <1>1, <1>2, <1>3 DEF Control
  <2>5. \A u \in Thread :
          waiting'[u] # NULL /\ pc'[u] \notin {"free", "done"} =>
            pc'[waiting'[u]] = "parked" /\ target'[waiting'[u]] = u
    <3> SUFFICES ASSUME NEW u \in Thread, waiting'[u] # NULL, pc'[u] \notin {"free", "done"}
                 PROVE  pc'[waiting'[u]] = "parked" /\ target'[waiting'[u]] = u
      OBVIOUS
    <3>1. u # current /\ pc[u] \notin {"free", "done"}
      BY <1>1, <1>2, <1>3
    <3>2. waiting[u] \in Thread /\ pc[waiting[u]] = "parked" /\ target[waiting[u]] = u
      BY <1>1, <3>1 DEF Control
    <3>3. waiting[u] # j /\ waiting[u] # current
      BY <3>1, <3>2
    <3> QED
      BY <1>3, <3>2, <3>3
  <2> QED
    BY <2>2, <2>3, <2>4, <2>5 DEF Control
<1> QED
  BY <1>4, <1>6, <1>7, <1>8 DEF MergedInv

LEMMA ExitInlineKeeps ==
  ASSUME MergedInv, ExitInline
  PROVE  MergedInv'
<1> DEFINE j == inliner[current]
<1>1. /\ phase = "running" /\ pc[current] = "user" /\ j # NULL
      /\ inliner' = [inliner EXCEPT ![current] = NULL]
      /\ pc' = [pc EXCEPT ![current] = "done", ![j] = "back"]
      /\ current' = j
      /\ UNCHANGED <<phase, refcount, func, waiting, target, last, table, pair, holds>>
  BY DEF ExitInline, Exiting, Calling
<1>2. Control /\ current \in Thread /\ j \in Thread
  BY <1>1 DEF MergedInv, TypeOK
<1>3. pc[j] = "inline" /\ target[j] = current /\ Blocked(j)
  BY <1>1, <1>2 DEF Control, Blocked
<1>4. \A u \in Thread \ {current} : inliner[u] # j
  BY <1>1, <1>2, <1>3 DEF Control
<1>5. \A u \in Thread \ {current} : pc[u] \notin {"free", "done"} => waiting[u] # j
  BY <1>1, <1>2, <1>3 DEF Control
<1> HIDE DEF j
<1> QED
  BY <1>1, <1>2, <1>3, <1>4, <1>5, HandOverKeeps

LEMMA ExitToWaiterKeeps ==
  ASSUME MergedInv, ExitToWaiter
  PROVE  MergedInv'
<1> DEFINE w == waiting[current]
<1>1. /\ phase = "running" /\ pc[current] = "user" /\ w # NULL /\ inliner[current] = NULL
      /\ pc' = [pc EXCEPT ![current] = "done", ![w] = "back"]
      /\ current' = w
      /\ UNCHANGED <<phase, refcount, func, waiting, inliner, target, last, table, pair, holds>>
  BY DEF ExitToWaiter, Exiting, Calling, fields
<1>2. Control /\ current \in Thread /\ w \in Thread /\ inliner' = [inliner EXCEPT ![current] = NULL]
  BY <1>1 DEF MergedInv, TypeOK
<1>3. pc[w] = "parked" /\ target[w] = current /\ Blocked(w)
  BY <1>1, <1>2 DEF Control, Blocked
<1>4. \A u \in Thread \ {current} : inliner[u] # w
  <2>1. w # NULL
    BY <1>1
  <2> HIDE DEF w
  <2> QED
    BY <1>2, <1>3, <2>1 DEF Control
<1>5. \A u \in Thread \ {current} : pc[u] \notin {"free", "done"} => waiting[u] # w
  <2>1. w # NULL
    BY <1>1
  <2> HIDE DEF w
  <2> QED
    BY <1>2, <1>3, <2>1 DEF Control
<1> HIDE DEF w
<1> QED
  BY <1>1, <1>2, <1>3, <1>4, <1>5, HandOverKeeps

LEMMA ExitUnjoinedKeeps ==
  ASSUME MergedInv, ExitUnjoined
  PROVE  MergedInv'
<1> DEFINE g == [func EXCEPT ![current] = NoKey]
           T == Forgotten(current)
<1>1. /\ phase = "running" /\ pc[current] = "user" /\ FlushEnds(T)
      /\ inliner[current] = NULL
      /\ func' = FlushedFunc(g) /\ table' = FlushedTable(T) /\ last' = NoLast
      /\ UNCHANGED <<refcount, waiting, inliner, target, pair, holds>>
  BY DEF ExitUnjoined, ExitingUnjoined, Exiting, Calling, fields
<1>2. /\ TypeOK /\ CountsOf(refcount, holds, pc) /\ Control
      /\ KnownOf(table, func, last) /\ Fits(func, last, pc)
      /\ current \in Thread /\ pc \in [Thread -> PC]
      /\ inliner \in [Thread -> Thread \cup {NULL}]
      /\ waiting \in [Thread -> Thread \cup {NULL}]
      /\ func \in [Thread -> Key \cup {NoKey}]
  BY <1>1 DEF MergedInv, TypeOK, KnownOf, Recorded
<1>3. /\ KnownOf(table', func', last')
      /\ \A u \in Thread : func'[u] = func[u] \/ func'[u] = NoKey \/ (last # NoLast /\ u = last.thread)
  <2>1. KnownOf(T, g, last)
    BY <1>2, ForgottenKnown
  <2>2. \A u \in Thread : g[u] = func[u] \/ g[u] = NoKey
    BY <1>2
  <2> HIDE DEF g, T
  <2>3. /\ KnownOf(FlushedTable(T), FlushedFunc(g), NoLast)
        /\ \A u \in Thread :
             FlushedFunc(g)[u] = IF last # NoLast /\ u = last.thread THEN last.key ELSE g[u]
    BY <1>1, <2>1, FlushedKnown
  <2> QED
    BY <1>1, <2>2, <2>3
<1>4. ASSUME \A u \in Thread : pc'[u] = "free" => pc[u] = "free"
      PROVE  /\ KnownOf(table, func, last)' /\ Fits(func, last, pc)'
             /\ CountsOf(refcount, holds, pc)'
  <2>1. CountsOf(refcount, holds, pc)'
    BY <1>1, <1>2, <1>4, CountsSame
  <2>2. \A u \in Thread : pc'[u] = "free" => func'[u] = NoKey
    BY <1>2, <1>3, <1>4 DEF Fits
  <2>3. pc'[Main] # "free"
    BY <1>2, <1>4, Consts DEF Fits
  <2> QED
    BY <1>1, <1>3, <2>1, <2>2, <2>3 DEF KnownOf, Fits
<1>5. CASE phase' = "exited" /\ UNCHANGED <<current, pc>>
  <2>1. TypeOK'
    BY <1>1, <1>2, <1>5 DEF TypeOK
  <2> QED
    BY <1>4, <1>5, <2>1 DEF MergedInv
<1>6. CASE /\ \E next \in Ready : SwitchTo(next, [pc EXCEPT ![current] = "done"])
           /\ UNCHANGED phase
  <2>1. PICK next \in Ready : SwitchTo(next, [pc EXCEPT ![current] = "done"])
    BY <1>6
  <2>2. /\ next \in Thread /\ pc[next] \in {"fresh", "ready"} /\ next # current
        /\ current' = next /\ pc' = [pc EXCEPT ![current] = "done", ![next] = "user"]
    BY <1>1, <2>1 DEF Ready, SwitchTo
  <2>3. \A u \in Thread : pc'[u] = IF u = next THEN "user" ELSE IF u = current THEN "done" ELSE pc[u]
    BY <1>2, <2>2
  <2>4. TypeOK'
    <3>1. pc' \in [Thread -> PC]
      BY <1>2, <2>2 DEF PC
    <3> QED
      BY <1>1, <1>2, <1>6, <2>2, <3>1 DEF TypeOK
  <2>5. \A u \in Thread : pc'[u] = "free" => pc[u] = "free"
    BY <2>3
  <2>6. Control'
    <3>1. \A j \in Thread : pc[j] # "back"
      BY <1>1, <1>2 DEF Control
    <3>2. \A j \in Thread : Blocked(j)' => target'[j] \in Thread /\ Has(holds', j, target'[j])
      BY <1>1, <1>2, <2>3 DEF Control, Blocked
    <3>3. \A j \in Thread : pc'[j] # "back"
      BY <2>3, <3>1
    <3>4. \A u \in Thread :
            inliner'[u] # NULL => pc'[inliner'[u]] = "inline" /\ target'[inliner'[u]] = u
      BY <1>1, <1>2, <2>2, <2>3 DEF Control
    <3>5. \A u \in Thread :
            waiting'[u] # NULL /\ pc'[u] \notin {"free", "done"} =>
              pc'[waiting'[u]] = "parked" /\ target'[waiting'[u]] = u
      BY <1>1, <1>2, <2>2, <2>3 DEF Control
    <3> QED
      BY <3>2, <3>3, <3>4, <3>5 DEF Control
  <2> QED
    BY <1>4, <2>4, <2>5, <2>6 DEF MergedInv
<1> QED
  BY <1>5, <1>6 DEF ExitUnjoined

LEMMA ProbingKeeps ==
  ASSUME MergedInv, Probing
  PROVE  MergedInv'
<1>1. phase' = "probing"
      /\ UNCHANGED <<current, pc, refcount, func, waiting, inliner, target, last, table, pair, holds>>
  BY DEF Probing, fields
<1>2. TypeOK' /\ CountsOf(refcount, holds, pc)'
  BY <1>1 DEF MergedInv, TypeOK, CountsOf, Has
<1>3. KnownOf(table, func, last)' /\ Fits(func, last, pc)'
  BY <1>1 DEF MergedInv, KnownOf, Fits
<1> QED
  BY <1>1, <1>2, <1>3 DEF MergedInv

-------------------------------------------------------------------------------
(* It holds at the start: the table is empty, and nobody holds anybody.       *)
LEMMA MergedInitial == MergedInit => MergedInv
<1> SUFFICES ASSUME MergedInit PROVE MergedInv
  OBVIOUS
<1> USE DEF MergedInit
<1>1. TypeOK
  <2>1. pc \in [Thread -> PC]
    BY DEF PC
  <2>2. holds \in [Thread -> [Thread -> Nat]] /\ refcount \in [Thread -> Int]
    OBVIOUS
  <2> QED
    BY <2>1, <2>2, Consts DEF TypeOK
<1>2. CountsOf(refcount, holds, pc)
  <2>1. \A j, t \in Thread : holds[j][t] = 0
    OBVIOUS
  <2>2. \A t \in Thread : HeldBy(holds, t) = 0
    BY <2>1, HeldByNone
  <2>3. \A j, t \in Thread : ~Has(holds, j, t)
    BY <2>1 DEF Has
  <2>4. \A t \in Thread \ {Main} : refcount[t] = 0
    OBVIOUS
  <2> QED
    BY <2>2, <2>3, <2>4 DEF CountsOf
<1>3. KnownOf(table, func, last) /\ Fits(func, last, pc)
  <2>1. table = EmptyTable /\ last = NoLast /\ \A u \in Thread : func[u] = NoKey
    OBVIOUS
  <2>2. EmptyTable \in TableType /\ \A s \in Slot : EmptyTable.ctrl[s] = EMPTY
    BY DEF EmptyTable, TableType, EMPTY
  <2>3. Stored(EmptyTable) = {}
    BY <2>2 DEF Stored, EMPTY
  <2>4. Sound(EmptyTable) /\ Entries(EmptyTable) = {}
    BY <2>2, <2>3 DEF Sound, Entries
  <2>5. {<<func[u], u>> : u \in {v \in Thread : func[v] # NoKey}} = {}
    BY <2>1
  <2>6. func \in [Thread -> Key \cup {NoKey}] /\ func[Main] = NoKey
    BY Consts
  <2>7. Recorded(table, func)
    BY <2>1, <2>4, <2>5, <2>6 DEF Recorded
  <2>8. \A u \in Thread : pc[u] = IF u = Main THEN "user" ELSE "free"
    OBVIOUS
  <2> QED
    BY <2>1, <2>7, <2>8, Consts DEF KnownOf, Fits
<1>4. Control
  <2>1. \A u \in Thread : pc[u] \in {"user", "free"} /\ inliner[u] = NULL /\ waiting[u] = NULL
    OBVIOUS
  <2> QED
    BY <2>1 DEF Control, Blocked
<1> QED
  BY <1>1, <1>2, <1>3, <1>4 DEF MergedInv

LEMMA MergedStep == MergedInv /\ [MergedNext \/ Ended]_vars => MergedInv'
<1> SUFFICES ASSUME MergedInv, [MergedNext \/ Ended]_vars PROVE MergedInv'
  OBVIOUS
<1>1. ASSUME NEW k \in Key, CreateMerged(k) \/ CreateNew(k) PROVE MergedInv'
  BY <1>1, CreateMergedKeeps, CreateNewKeeps
<1>2. ASSUME NEW t \in Thread, JoinFinished(t) \/ JoinInline(t) \/ JoinWait(t) PROVE MergedInv'
  BY <1>2, JoinFinishedKeeps, JoinInlineKeeps, JoinWaitKeeps
<1>3. CASE Yield \/ JoinReturn \/ ExitInline \/ ExitToWaiter \/ ExitUnjoined \/ Probing
  BY <1>3, YieldKeeps, JoinReturnKeeps, ExitInlineKeeps, ExitToWaiterKeeps, ExitUnjoinedKeeps,
     ProbingKeeps
<1>4. CASE UNCHANGED vars
  <2>1. UNCHANGED <<phase, current, pc, refcount, func, waiting, inliner, target, last, table,
                    pair, holds>>
    BY <1>4 DEF vars, fields
  <2>2. TypeOK' /\ CountsOf(refcount, holds, pc)'
    BY <2>1 DEF MergedInv, TypeOK, CountsOf, Has
  <2>3. KnownOf(table, func, last)' /\ Fits(func, last, pc)'
    BY <2>1 DEF MergedInv, KnownOf, Fits
  <2>4. phase' = "running" => Control'
    BY <2>1 DEF MergedInv, Control, Blocked
  <2> QED
    BY <2>2, <2>3, <2>4 DEF MergedInv
<1>5. CASE Ended
  BY <1>4, <1>5 DEF Ended
<1> QED
  BY <1>1, <1>2, <1>3, <1>4, <1>5 DEF MergedNext

(* The counts, the table and the hand-overs of the joins agree in every state *)
(* of the -DFP build.                                                         *)
THEOREM MergedInvariance == MergedSpec => []MergedInv
BY MergedInitial, MergedStep, PTL DEF MergedSpec

(* No descriptor is freed while a caller of thread_create holds it, or kept   *)
(* when none does.                                                            *)
LEMMA RefsFromInv == MergedInv => RefsAreHolders
<1> SUFFICES ASSUME MergedInv, NEW t \in Thread \ {Main}
             PROVE  IF pc[t] = "free" THEN Held(t) = 0 ELSE refcount[t] = Held(t)
  BY DEF RefsAreHolders
<1>1. TypeOK /\ CountsOf(refcount, holds, pc) /\ Held(t) = HeldBy(holds, t)
  BY DEF MergedInv, Held, HeldBy
<1>2. CASE pc[t] = "free"
  <2>1. \A j \in Thread : ~Has(holds, j, t)
    BY <1>1, <1>2 DEF CountsOf
  <2>2. holds \in [Thread -> [Thread -> Nat]]
    BY <1>1 DEF TypeOK
  <2>3. \A j \in Thread : holds[j][t] = 0
    BY <2>1, <2>2 DEF Has
  <2> QED
    BY <1>1, <1>2, <2>3, HeldByNone
<1>3. CASE pc[t] # "free"
  BY <1>1, <1>3 DEF CountsOf
<1> QED
  BY <1>2, <1>3

THEOREM RefsCorrect == MergedSpec => []RefsAreHolders
BY MergedInvariance, RefsFromInv, PTL

(* The table finds the thread of a pair, and no thread for a pair that has    *)
(* none.                                                                      *)
LEMMA TableFromInv == MergedInv => TableIsExact
<1> SUFFICES ASSUME MergedInv, NEW k \in Key
             PROVE  LET t == IF Stops(table, k) = {} THEN NULL ELSE Lookup(table, k) IN
                      IF t = NULL THEN \A u \in Thread : func[u] # k
                      ELSE pc[t] # "free" /\ func[t] = k /\ \A u \in Thread \ {t} : func[u] # k
  BY DEF TableIsExact
<1> DEFINE t == IF Stops(table, k) = {} THEN NULL ELSE Lookup(table, k)
<1>1. Recorded(table, func) /\ Fits(func, last, pc) /\ k # NoKey
  BY Consts DEF MergedInv, KnownOf
<1>2. \/ t = NULL /\ \A u \in Thread : func[u] # k
      \/ t \in Thread /\ func[t] = k
  BY <1>1, LookupOf
<1> HIDE DEF t
<1>3. CASE t = NULL
  BY <1>2, <1>3, Consts DEF t
<1>4. CASE t # NULL
  <2>1. t \in Thread /\ func[t] = k
    BY <1>2, <1>4
  <2>2. pc[t] # "free" /\ \A u \in Thread \ {t} : func[u] # k
    BY <1>1, <2>1 DEF Fits, Recorded
  <2> QED
    BY <1>4, <2>1, <2>2 DEF t
<1> QED
  BY <1>3, <1>4

THEOREM TableCorrect == MergedSpec => []TableIsExact
BY MergedInvariance, TableFromInv, PTL
=============================================================================
