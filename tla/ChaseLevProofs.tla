--------------------------- MODULE ChaseLevProofs ---------------------------
(* ChaseLev for any number of thieves, any capacity and any threads: the      *)
(* deque with its store buffer implements AbstractDeque.                      *)
EXTENDS ChaseLev, FiniteSetTheorems, SequenceTheorems, WellFoundedInduction, TLAPS

(* What the owner reads through a buffer q over a memory m.                   *)
Stores == [addr : 0 .. Cap, value : Int]
StoresTo(q, a) == {i \in DOMAIN q : q[i].addr = a}
View(m, q) ==
  [a \in 0 .. Cap |-> IF StoresTo(q, a) = {} THEN m[a] ELSE q[Max(StoresTo(q, a))].value]

-----------------------------------------------------------------------------
(* Arithmetic of the ring: indexes less than Cap apart have different cells.  *)
LEMMA Cells ==
  ASSUME NEW i \in Int, NEW j \in Int, i < j, j - i < Cap
  PROVE  i % Cap # j % Cap
<1>1. Cap \in Nat /\ Cap > 0
  BY DequeAssumption
<1> DEFINE p == i \div Cap
           q == j \div Cap
<1>2. p \in Int /\ q \in Int /\ i = (Cap * p) + (i % Cap) /\ j = (Cap * q) + (j % Cap)
  BY <1>1
<1>3. ASSUME i % Cap = j % Cap PROVE FALSE
  <2> HIDE DEF p, q
  <2>0. i % Cap \in Int
    BY <1>1
  <2>1. j - i = (Cap * q) - (Cap * p)
    BY <1>1, <1>2, <1>3, <2>0
  <2>2. CASE q <= p
    <3>1. Cap * q <= Cap * p
      BY <1>1, <1>2, <2>2
    <3> QED
      BY <1>1, <1>2, <2>1, <3>1
  <2>3. CASE q >= p + 1
    <3>1. Cap * q >= (Cap * p) + Cap
      BY <1>1, <1>2, <2>3
    <3> QED
      BY <1>1, <1>2, <2>1, <3>1
  <2> QED
    BY <1>2, <2>2, <2>3
<1> QED
  BY <1>3

LEMMA CellRange ==
  ASSUME NEW i \in Int
  PROVE  i % Cap \in 0 .. Cap - 1 /\ i % Cap # BOTTOM /\ BOTTOM \in 0 .. Cap /\ i % Cap \in 0 .. Cap
BY DequeAssumption DEF BOTTOM

LEMMA Latest ==
  ASSUME NEW n \in Nat, NEW S \in SUBSET (1 .. n), S # {}
  PROVE  Max(S) \in S /\ \A i \in S : i <= Max(S)
<1> DEFINE N == 1 .. n
           T == {i .. n : i \in S}
<1>1. IsFiniteSet(N) /\ \A i \in S : i .. n \subseteq N
  BY FS_Interval
<1>2. T \subseteq FiniteSubsetsOf(N) /\ T # {}
  <2>1. FiniteSubsetsOf(N) = SUBSET N
    BY <1>1, FS_FiniteSubsetsOfFinite
  <2>2. \A i \in S : i .. n \in FiniteSubsetsOf(N)
    BY <1>1, <2>1
  <2>3. PICK i \in S : TRUE
    OBVIOUS
  <2>4. i .. n \in T
    OBVIOUS
  <2> QED
    BY <2>2, <2>4
<1>3. PICK u \in T : \A v \in T : <<v, u>> \notin StrictSubsetOrdering(N)
  BY <1>1, <1>2, FS_StrictSubsetOrderingWellFounded, WFMin
<1>4. PICK k \in S : u = k .. n
  OBVIOUS
<1>5. ASSUME NEW i \in S, k < i PROVE FALSE
  <2>1. i .. n \in T /\ i .. n \in SUBSET N /\ u \in SUBSET N
    BY <1>1, <1>4
  <2>2. i .. n \subseteq u /\ k \in u /\ k \notin i .. n
    BY <1>4, <1>5
  <2> QED
    BY <1>3, <2>1, <2>2 DEF StrictSubsetOrdering
<1>6. \A i \in S : k >= i
  BY <1>5
<1> QED
  BY <1>6 DEF Max

-----------------------------------------------------------------------------
(* A load of the owner: the last store to the address, or memory.             *)
LEMMA LastStore ==
  ASSUME NEW m, NEW q \in Seq(Stores), NEW k \in DOMAIN q,
         \A i \in DOMAIN q : k < i => q[i].addr # q[k].addr
  PROVE  View(m, q)[q[k].addr] = q[k].value
<1> DEFINE S == StoresTo(q, q[k].addr)
<1>1. DOMAIN q = 1 .. Len(q) /\ Len(q) \in Nat /\ q[k] \in Stores
  OBVIOUS
<1>2. k \in S /\ S \subseteq 1 .. Len(q)
  BY <1>1 DEF StoresTo
<1>3. Max(S) \in S /\ k <= Max(S)
  BY <1>1, <1>2, Latest
<1>4. Max(S) = k
  BY <1>1, <1>2, <1>3 DEF StoresTo
<1>5. q[k].addr \in 0 .. Cap
  BY <1>1 DEF Stores
<1> QED
  BY <1>2, <1>4, <1>5 DEF View

LEMMA NoStore ==
  ASSUME NEW m, NEW q \in Seq(Stores), NEW a \in 0 .. Cap,
         \A i \in DOMAIN q : q[i].addr # a
  PROVE  View(m, q)[a] = m[a]
BY DEF View, StoresTo

(* Each address is one or the other.                                          *)
LEMMA LastOrNone ==
  ASSUME NEW q \in Seq(Stores), NEW a \in 0 .. Cap
  PROVE  \/ \A i \in DOMAIN q : q[i].addr # a
         \/ \E k \in DOMAIN q : q[k].addr = a /\ \A i \in DOMAIN q : k < i => q[i].addr # a
<1> DEFINE S == StoresTo(q, a)
<1>1. DOMAIN q = 1 .. Len(q) /\ Len(q) \in Nat
  OBVIOUS
<1>2. S \subseteq 1 .. Len(q)
  BY <1>1 DEF StoresTo
<1>3. CASE S = {}
  BY <1>3 DEF StoresTo
<1>4. CASE S # {}
  <2>1. Max(S) \in S /\ \A i \in S : i <= Max(S)
    BY <1>1, <1>2, <1>4, Latest
  <2>2. \A i \in DOMAIN q : Max(S) < i => q[i].addr # a
    <3>1. ASSUME NEW i \in DOMAIN q, Max(S) < i PROVE i \notin S
      BY <1>1, <1>2, <2>1, <3>1
    <3> QED
      BY <3>1 DEF StoresTo
  <2> QED
    BY <2>1, <2>2 DEF StoresTo
<1> QED
  BY <1>3, <1>4

LEMMA ViewEmpty ==
  ASSUME NEW m \in [0 .. Cap -> Int] PROVE View(m, <<>>) = m
<1>1. \A a \in 0 .. Cap : View(m, <<>>)[a] = m[a]
  <2>1. <<>> \in Seq(Stores) /\ DOMAIN <<>> = {}
    OBVIOUS
  <2> QED
    BY <2>1, NoStore
<1> QED
  BY <1>1 DEF View

LEMMA ViewType ==
  ASSUME NEW m \in [0 .. Cap -> Int], NEW q \in Seq(Stores)
  PROVE  View(m, q) \in [0 .. Cap -> Int]
<1>1. ASSUME NEW a \in 0 .. Cap PROVE View(m, q)[a] \in Int
  <2>1. CASE \A i \in DOMAIN q : q[i].addr # a
    <3>1. View(m, q)[a] = m[a]
      BY <2>1, NoStore
    <3> QED
      BY <3>1
  <2>2. ASSUME NEW k \in DOMAIN q, q[k].addr = a, \A i \in DOMAIN q : k < i => q[i].addr # a
        PROVE  View(m, q)[a] \in Int
    <3>1. q[k] \in Stores
      OBVIOUS
    <3>2. q[k].value \in Int
      BY <3>1 DEF Stores
    <3> QED
      BY <2>2, <3>2, LastStore
  <2> QED
    BY <2>1, <2>2, LastOrNone
<1> QED
  BY <1>1 DEF View

(* A store that enters the buffer is what the owner reads from then on, ...   *)
LEMMA ViewAppend ==
  ASSUME NEW m \in [0 .. Cap -> Int], NEW q \in Seq(Stores), NEW s \in Stores
  PROVE  View(m, Append(q, s)) = [View(m, q) EXCEPT ![s.addr] = s.value]
<1> DEFINE r == Append(q, s)
<1>1. r \in Seq(Stores) /\ DOMAIN r = 1 .. Len(q) + 1 /\ DOMAIN q = 1 .. Len(q)
      /\ Len(q) \in Nat /\ r[Len(q) + 1] = s /\ \A i \in 1 .. Len(q) : r[i] = q[i]
  OBVIOUS
<1> HIDE DEF r
<1>2. View(m, r)[s.addr] = s.value
  BY <1>1, LastStore, \A i \in DOMAIN r : Len(q) + 1 < i => r[i].addr # r[Len(q) + 1].addr
<1>3. ASSUME NEW a \in 0 .. Cap, a # s.addr PROVE View(m, r)[a] = View(m, q)[a]
  <2>1. CASE \A i \in DOMAIN q : q[i].addr # a
    <3>1. \A i \in DOMAIN r : r[i].addr # a
      BY <1>1, <1>3, <2>1
    <3>2. View(m, r)[a] = m[a]
      BY <1>1, <3>1, NoStore
    <3>3. View(m, q)[a] = m[a]
      BY <2>1, NoStore
    <3> QED
      BY <3>2, <3>3
  <2>2. ASSUME NEW k \in DOMAIN q, q[k].addr = a, \A i \in DOMAIN q : k < i => q[i].addr # a
        PROVE  View(m, r)[a] = View(m, q)[a]
    <3>1. k \in DOMAIN r /\ r[k] = q[k] /\ \A i \in DOMAIN r : k < i => r[i].addr # r[k].addr
      BY <1>1, <1>3, <2>2
    <3>2. View(m, r)[r[k].addr] = r[k].value
      BY <1>1, <3>1, LastStore
    <3>3. View(m, q)[q[k].addr] = q[k].value
      BY <2>2, LastStore
    <3> QED
      BY <2>2, <3>1, <3>2, <3>3
  <2> QED
    BY <2>1, <2>2, LastOrNone
<1>4. s.addr \in 0 .. Cap
  BY DEF Stores
<1> QED
  BY <1>2, <1>3, <1>4 DEF View, r

(* ... whether or not memory has it already.                                  *)
LEMMA ViewDrain ==
  ASSUME NEW m \in [0 .. Cap -> Int], NEW q \in Seq(Stores), q # <<>>
  PROVE  View([m EXCEPT ![Head(q).addr] = Head(q).value], Tail(q)) = View(m, q)
<1> DEFINE r == Tail(q)
           n == [m EXCEPT ![Head(q).addr] = Head(q).value]
<1>1. /\ r \in Seq(Stores) /\ Len(q) \in Nat \ {0}
      /\ DOMAIN r = 1 .. Len(q) - 1 /\ DOMAIN q = 1 .. Len(q)
      /\ \A i \in 1 .. Len(q) - 1 : r[i] = q[i + 1]
      /\ Head(q) = q[1]
  OBVIOUS
<1>2. q[1] \in Stores
  BY <1>1
<1>3. ASSUME NEW a \in 0 .. Cap PROVE View(n, r)[a] = View(m, q)[a]
  <2>1. CASE \A i \in DOMAIN q : q[i].addr # a
    <3>1. n[a] = m[a] /\ \A i \in DOMAIN r : r[i].addr # a
      BY <1>1, <1>2, <2>1
    <3> HIDE DEF n, r
    <3> QED
      BY <1>1, <2>1, <3>1, NoStore
  <2>2. ASSUME NEW k \in DOMAIN q, q[k].addr = a, \A i \in DOMAIN q : k < i => q[i].addr # a
        PROVE  View(n, r)[a] = View(m, q)[a]
    <3>1. View(m, q)[a] = q[k].value
      BY <2>2, LastStore
    <3>2. CASE k = 1
      <4>1. n[a] = q[k].value
        BY <1>1, <1>2, <2>2, <3>2
      <4>2. \A i \in DOMAIN r : r[i].addr # a
        BY <1>1, <2>2, <3>2
      <4> HIDE DEF n, r
      <4> QED
        BY <1>1, <3>1, <4>1, <4>2, NoStore
    <3>3. CASE k # 1
      <4>1. k - 1 \in DOMAIN r /\ r[k - 1] = q[k]
        BY <1>1, <2>2, <3>3
      <4>2. \A i \in DOMAIN r : k - 1 < i => r[i].addr # r[k - 1].addr
        BY <1>1, <2>2, <3>3, <4>1
      <4> HIDE DEF n, r
      <4>3. View(n, r)[r[k - 1].addr] = r[k - 1].value
        BY <1>1, <4>1, <4>2, LastStore
      <4> QED
        BY <2>2, <3>1, <4>1, <4>3
    <3> QED
      BY <3>2, <3>3
  <2> HIDE DEF n, r
  <2> QED
    BY <2>1, <2>2, LastOrNone
<1> QED
  BY <1>3 DEF View

-----------------------------------------------------------------------------
Place == {"idle", "load top", "load bottom", "load item", "exchange"}

Types ==
  /\ top \in Nat
  /\ mem \in [0 .. Cap -> Int]
  /\ buffer \in Seq(Stores)
  /\ at \in [Worker -> Place]
  /\ at[Owner] \in {"idle", "load top", "exchange"}
  /\ b \in [Worker -> Int]
  /\ t \in [Worker -> Nat]
  /\ item \in [Worker -> Int]
  /\ aborted \in BOOLEAN

(* A store of an item is followed by the store of bottom that makes it        *)
(* visible, and bottom rises from store to store.                             *)
Pairs(q) ==
  \A i \in DOMAIN q : q[i].addr # BOTTOM =>
    /\ i + 1 \in DOMAIN q
    /\ q[i + 1].addr = BOTTOM
    /\ q[i].addr = (q[i + 1].value - 1) % Cap

Rising(m, q) ==
  \A i \in DOMAIN q : q[i].addr = BOTTOM =>
    /\ m < q[i].value
    /\ \A j \in DOMAIN q : q[j].addr = BOTTOM /\ i < j => q[i].value < q[j].value

InOrder(m, q) == Pairs(q) /\ Rising(m, q)

(* The deque is never negative, nor larger than the ring.                     *)
Bounds == top <= LogicalBottom /\ LogicalBottom - top <= Cap

(* Between the store of bottom and the answer of a pop the buffer is empty.   *)
Popping ==
  /\ at[Owner] # "idle" => buffer = <<>> /\ mem[BOTTOM] = b[Owner]
  /\ at[Owner] = "exchange" =>
       /\ t[Owner] = b[Owner]
       /\ b[Owner] <= top
       /\ item[Owner] = mem[b[Owner] % Cap]

(* A thief whose exchange may still succeed has seen an item that is there,   *)
(* and has read, or will read, that item.                                     *)
Hopeful(w) == at[w] \in {"load item", "exchange"} /\ t[w] = top
Reach == top < LogicalBottom /\ (at[Owner] = "idle" => top < mem[BOTTOM])
StealingAt(w) ==
  /\ t[w] <= top
  /\ Hopeful(w) => Reach /\ (at[w] = "exchange" => item[w] = Own[top % Cap])
Stealing == \A w \in Thief : StealingAt(w)

IInv == Types /\ InOrder(mem[BOTTOM], buffer) /\ Bounds /\ Popping /\ Stealing

LEMMA WorkerFacts ==
  /\ Owner \in Worker /\ Owner \notin Thief /\ Thief \subseteq Worker
  /\ Cap \in Nat \ {0} /\ BOTTOM = Cap /\ BOTTOM \in 0 .. Cap
  /\ Thread \subseteq Int /\ NULL \in Int
BY DequeAssumption DEF Owner, Worker, BOTTOM, NULL

LEMMA Typed ==
  ASSUME Types
  PROVE  /\ top \in Nat /\ mem \in [0 .. Cap -> Int] /\ mem[BOTTOM] \in Int
         /\ buffer \in Seq(Stores) /\ aborted \in BOOLEAN
         /\ at \in [Worker -> Place] /\ at[Owner] \in {"idle", "load top", "exchange"}
         /\ b \in [Worker -> Int] /\ t \in [Worker -> Nat] /\ item \in [Worker -> Int]
         /\ b[Owner] \in Int /\ t[Owner] \in Nat /\ item[Owner] \in Int
         /\ \A w \in Worker : t[w] \in Nat /\ item[w] \in Int
<1>1. mem[BOTTOM] \in Int /\ b[Owner] \in Int /\ t[Owner] \in Nat /\ item[Owner] \in Int
  BY WorkerFacts DEF Types
<1> QED
  BY <1>1 DEF Types

(* A variable that one worker has written.                                    *)
LEMMA Written ==
  ASSUME NEW S, NEW f \in [Worker -> S], NEW w \in Worker, NEW x \in S
  PROVE  LET g == [f EXCEPT ![w] = x]
         IN  g \in [Worker -> S] /\ g[w] = x /\ \A v \in Worker \ {w} : g[v] = f[v]
OBVIOUS

LEMMA Returned ==
  ASSUME Types, NEW w \in Worker, NEW x, Return(w, x)
  PROVE  /\ at' \in [Worker -> Place] /\ at'[w] = "idle"
         /\ b' \in [Worker -> Int] /\ b'[w] = 0
         /\ t' \in [Worker -> Nat] /\ t'[w] = 0
         /\ item' \in [Worker -> Int] /\ item'[w] = NULL
         /\ \A v \in Worker \ {w} : at'[v] = at[v] /\ b'[v] = b[v] /\ t'[v] = t[v] /\ item'[v] = item[v]
         /\ answer' = [worker |-> w, thread |-> x]
<1>1. "idle" \in Place /\ 0 \in Int /\ 0 \in Nat /\ NULL \in Int
  BY WorkerFacts DEF Place
<1>2. /\ at' = [at EXCEPT ![w] = "idle"] /\ b' = [b EXCEPT ![w] = 0]
      /\ t' = [t EXCEPT ![w] = 0] /\ item' = [item EXCEPT ![w] = NULL]
      /\ answer' = [worker |-> w, thread |-> x]
  BY DEF Return
<1>3. at' \in [Worker -> Place] /\ at'[w] = "idle" /\ \A v \in Worker \ {w} : at'[v] = at[v]
  BY <1>1, <1>2, Written, Typed
<1>4. b' \in [Worker -> Int] /\ b'[w] = 0 /\ \A v \in Worker \ {w} : b'[v] = b[v]
  BY <1>1, <1>2, Written, Typed
<1>5. t' \in [Worker -> Nat] /\ t'[w] = 0 /\ \A v \in Worker \ {w} : t'[v] = t[v]
  BY <1>1, <1>2, Written, Typed
<1>6. item' \in [Worker -> Int] /\ item'[w] = NULL /\ \A v \in Worker \ {w} : item'[v] = item[v]
  BY <1>1, <1>2, Written, Typed
<1> QED
  BY <1>2, <1>3, <1>4, <1>5, <1>6

LEMMA OwnIs == Own = View(mem, buffer) /\ Own' = View(mem', buffer')
BY DEF Own, View, StoresTo

LEMMA EmptyBuffer == ASSUME Types, buffer = <<>> PROVE Own = mem
<1>1. mem \in [0 .. Cap -> Int] /\ Own = View(mem, <<>>)
  BY OwnIs DEF Types
<1> QED
  BY <1>1, ViewEmpty

LEMMA OwnType == ASSUME Types PROVE Own \in [0 .. Cap -> Int] /\ Own[BOTTOM] \in Int
BY OwnIs, ViewType, WorkerFacts DEF Types

LEMMA BufferAt ==
  ASSUME NEW q \in Seq(Stores), NEW i \in DOMAIN q
  PROVE  q[i] \in Stores /\ q[i].addr \in 0 .. Cap /\ q[i].value \in Int
<1>1. q[i] \in Stores
  OBVIOUS
<1> QED
  BY <1>1 DEF Stores

(* The last store is the highest bottom.                                      *)
LEMMA BottomLast ==
  ASSUME NEW q \in Seq(Stores), NEW m \in Int, InOrder(m, q), q # <<>>
  PROVE  /\ Len(q) \in DOMAIN q
         /\ q[Len(q)].addr = BOTTOM
         /\ m < q[Len(q)].value
         /\ \A i \in DOMAIN q : q[i].addr = BOTTOM => q[i].value <= q[Len(q)].value
<1>1. Len(q) \in Nat \ {0} /\ DOMAIN q = 1 .. Len(q)
  OBVIOUS
<1>2. q[Len(q)].addr = BOTTOM
  <2>1. Len(q) \in DOMAIN q /\ Len(q) + 1 \notin DOMAIN q
    BY <1>1
  <2> QED
    BY <2>1 DEF InOrder, Pairs
<1>3. m < q[Len(q)].value
  BY <1>1, <1>2 DEF InOrder, Rising
<1>4. ASSUME NEW i \in DOMAIN q, q[i].addr = BOTTOM PROVE q[i].value <= q[Len(q)].value
  <2>1. CASE i = Len(q)
    BY <1>1, <2>1, BufferAt
  <2>2. CASE i < Len(q)
    BY <1>1, <1>2, <1>4, <2>2, BufferAt DEF InOrder, Rising
  <2> QED
    BY <1>1, <2>1, <2>2
<1> QED
  BY <1>1, <1>2, <1>3, <1>4

LEMMA OwnBottom ==
  ASSUME Types, InOrder(mem[BOTTOM], buffer)
  PROVE  /\ mem[BOTTOM] \in Int
         /\ mem[BOTTOM] <= Own[BOTTOM]
         /\ \A i \in DOMAIN buffer : buffer[i].addr = BOTTOM => buffer[i].value <= Own[BOTTOM]
<1>1. mem[BOTTOM] \in Int /\ buffer \in Seq(Stores)
  BY WorkerFacts DEF Types
<1>2. CASE buffer = <<>>
  <2>1. Own = mem
    BY <1>2, EmptyBuffer
  <2>2. DOMAIN buffer = {}
    BY <1>2
  <2> QED
    BY <1>1, <2>1, <2>2
<1>3. CASE buffer # <<>>
  <2>1. /\ Len(buffer) \in DOMAIN buffer
        /\ buffer[Len(buffer)].addr = BOTTOM
        /\ mem[BOTTOM] < buffer[Len(buffer)].value
        /\ \A i \in DOMAIN buffer : buffer[i].addr = BOTTOM => buffer[i].value <= buffer[Len(buffer)].value
    BY <1>1, <1>3, BottomLast
  <2>2. DOMAIN buffer = 1 .. Len(buffer) /\ Len(buffer) \in Nat
    BY <1>1
  <2>3. \A i \in DOMAIN buffer : ~ (Len(buffer) < i)
    BY <2>2
  <2>4. View(mem, buffer)[buffer[Len(buffer)].addr] = buffer[Len(buffer)].value
    BY <1>1, <2>1, <2>3, LastStore
  <2>5. Own[BOTTOM] = buffer[Len(buffer)].value
    BY <2>1, <2>4, OwnIs
  <2>6. buffer[Len(buffer)].value \in Int
    BY <1>1, <2>1, BufferAt
  <2> QED
    BY <1>1, <2>1, <2>5, <2>6
<1> QED
  BY <1>2, <1>3

LEMMA CellOfTop ==
  ASSUME Types
  PROVE  top % Cap \in 0 .. Cap - 1 /\ top % Cap \in 0 .. Cap /\ top % Cap # BOTTOM
<1>1. \A i \in Int : i % Cap \in 0 .. Cap - 1 /\ i % Cap \in 0 .. Cap /\ i % Cap # BOTTOM
  BY CellRange
<1>2. top \in Nat
  BY DEF Types
<1>3. top \in Int
  BY <1>2
<1> QED
  BY <1>1, <1>3

(* The helpers of the abstract deque are those of the detailed one.           *)
LEMMA SameHelpers ==
  ASSUME NEW q
  PROVE  Deque!Front(q) = Front(q) /\ Deque!Last(q) = Last(q) /\ Deque!ToSet(q) = ToSet(q)
BY DEF Deque!Front, Deque!Last, Deque!ToSet, Front, Last, ToSet

(* What may still be on its way to memory is above what a thief can take.     *)
LEMMA Visible ==
  ASSUME IInv, Reach
  PROVE  mem[top % Cap] = Own[top % Cap]
<1>1. /\ buffer \in Seq(Stores) /\ top \in Nat /\ mem \in [0 .. Cap -> Int]
      /\ top % Cap \in 0 .. Cap /\ top % Cap # BOTTOM
  <2>1. buffer \in Seq(Stores) /\ top \in Nat /\ mem \in [0 .. Cap -> Int]
    BY DEF IInv, Types
  <2> QED
    BY <2>1, CellOfTop DEF IInv
<1>2. CASE at[Owner] # "idle"
  BY <1>2, EmptyBuffer DEF IInv, Popping
<1>3. CASE at[Owner] = "idle"
  <2>1. ASSUME NEW i \in DOMAIN buffer, buffer[i].addr = top % Cap PROVE FALSE
    <3>1. /\ i + 1 \in DOMAIN buffer
          /\ buffer[i + 1].addr = BOTTOM
          /\ top % Cap = (buffer[i + 1].value - 1) % Cap
      BY <1>1, <2>1 DEF IInv, InOrder, Pairs
    <3>2. mem[BOTTOM] < buffer[i + 1].value /\ buffer[i + 1].value \in Int
      BY <1>1, <3>1, BufferAt DEF IInv, InOrder, Rising
    <3>3. buffer[i + 1].value <= Own[BOTTOM] /\ mem[BOTTOM] \in Int /\ Own[BOTTOM] \in Int
      BY <3>1, OwnBottom, OwnType DEF IInv
    <3>4. Own[BOTTOM] - top <= Cap
      BY <1>3 DEF IInv, Bounds, LogicalBottom
    <3>5. top < mem[BOTTOM]
      BY <1>3 DEF Reach
    <3>6. PICK n \in Int : n = buffer[i + 1].value
      BY <3>2
    <3>7. top < n - 1 /\ (n - 1) - top < Cap
      <4>1. top \in Nat /\ Cap \in Nat
        BY <1>1, WorkerFacts
      <4> QED
        BY <3>2, <3>3, <3>4, <3>5, <3>6, <4>1
    <3>8. top % Cap # (n - 1) % Cap
      <4>1. top \in Int /\ n - 1 \in Int
        BY <1>1, <3>6
      <4> QED
        BY <3>7, <4>1, Cells
    <3> QED
      BY <3>1, <3>6, <3>8
  <2>2. View(mem, buffer)[top % Cap] = mem[top % Cap]
    BY <1>1, <2>1, NoStore
  <2> QED
    BY <2>2, OwnIs
<1> QED
  BY <1>2, <1>3

-----------------------------------------------------------------------------
(* The buffer.                                                                *)
LEMMA AppendBottom ==
  ASSUME NEW q \in Seq(Stores), NEW m \in Int, NEW v \in Int, InOrder(m, q), m < v,
         \A i \in DOMAIN q : q[i].addr = BOTTOM => q[i].value < v
  PROVE  /\ Append(q, Store(BOTTOM, v)) \in Seq(Stores)
         /\ InOrder(m, Append(q, Store(BOTTOM, v)))
         /\ Store(BOTTOM, v) \in Stores
<1> DEFINE s == Store(BOTTOM, v)
           r == Append(q, s)
<1>1. s \in Stores /\ s.addr = BOTTOM /\ s.value = v
  BY WorkerFacts DEF Store, Stores
<1> HIDE DEF s
<1>2. r \in Seq(Stores) /\ Len(q) \in Nat /\ DOMAIN q = 1 .. Len(q) /\ DOMAIN r = 1 .. Len(q) + 1
      /\ r[Len(q) + 1] = s /\ \A i \in DOMAIN q : r[i] = q[i]
  BY <1>1
<1> HIDE DEF r
<1>3. Pairs(r)
  <2> SUFFICES ASSUME NEW i \in DOMAIN r, r[i].addr # BOTTOM
               PROVE  /\ i + 1 \in DOMAIN r
                      /\ r[i + 1].addr = BOTTOM
                      /\ r[i].addr = (r[i + 1].value - 1) % Cap
    BY DEF Pairs
  <2>1. i \in DOMAIN q /\ q[i].addr # BOTTOM
    BY <1>1, <1>2
  <2>2. i + 1 \in DOMAIN q /\ q[i + 1].addr = BOTTOM /\ q[i].addr = (q[i + 1].value - 1) % Cap
    BY <2>1 DEF InOrder, Pairs
  <2> QED
    BY <1>2, <2>1, <2>2
<1>4. Rising(m, r)
  <2> SUFFICES ASSUME NEW i \in DOMAIN r, r[i].addr = BOTTOM
               PROVE  /\ m < r[i].value
                      /\ \A j \in DOMAIN r : r[j].addr = BOTTOM /\ i < j => r[i].value < r[j].value
    BY DEF Rising
  <2>1. CASE i = Len(q) + 1
    BY <1>1, <1>2, <2>1
  <2>2. CASE i \in DOMAIN q
    <3>1. m < q[i].value /\ \A j \in DOMAIN q : q[j].addr = BOTTOM /\ i < j => q[i].value < q[j].value
      BY <1>2, <2>2 DEF InOrder, Rising
    <3>2. ASSUME NEW j \in DOMAIN r, r[j].addr = BOTTOM, i < j PROVE r[i].value < r[j].value
      <4>1. CASE j \in DOMAIN q
        BY <1>2, <2>2, <3>1, <3>2, <4>1
      <4>2. CASE j = Len(q) + 1
        BY <1>1, <1>2, <2>2, <3>2, <4>2
      <4> QED
        BY <1>2, <4>1, <4>2
    <3> QED
      BY <1>2, <2>2, <3>1, <3>2
  <2> QED
    BY <1>2, <2>1, <2>2
<1> QED
  BY <1>1, <1>2, <1>3, <1>4 DEF InOrder, r, s

LEMMA AppendPair ==
  ASSUME NEW q \in Seq(Stores), NEW m \in Int, NEW v \in Int, NEW x \in Int, InOrder(m, q),
         m <= v,
         \A i \in DOMAIN q : q[i].addr = BOTTOM => q[i].value <= v
  PROVE  LET r == q \o <<Store(v % Cap, x), Store(BOTTOM, v + 1)>>
         IN  /\ r \in Seq(Stores) /\ InOrder(m, r)
             /\ r = Append(Append(q, Store(v % Cap, x)), Store(BOTTOM, v + 1))
             /\ Store(v % Cap, x) \in Stores /\ Store(BOTTOM, v + 1) \in Stores
<1> DEFINE c == Store(v % Cap, x)
           s == Store(BOTTOM, v + 1)
           r == q \o <<c, s>>
<1>1. s \in Stores /\ s.addr = BOTTOM /\ s.value = v + 1
  BY WorkerFacts DEF Store, Stores
<1>2. c \in Stores /\ c.addr = v % Cap /\ c.addr # BOTTOM
  BY CellRange DEF Store, Stores
<1> HIDE DEF s, c
<1>3. r \in Seq(Stores) /\ Len(q) \in Nat /\ DOMAIN q = 1 .. Len(q) /\ DOMAIN r = 1 .. Len(q) + 2
      /\ r[Len(q) + 1] = c /\ r[Len(q) + 2] = s /\ \A i \in DOMAIN q : r[i] = q[i]
  BY <1>1, <1>2
<1>4. r = Append(Append(q, c), s)
  BY <1>1, <1>2
<1> HIDE DEF r
<1>5. Pairs(r)
  <2> SUFFICES ASSUME NEW i \in DOMAIN r, r[i].addr # BOTTOM
               PROVE  /\ i + 1 \in DOMAIN r
                      /\ r[i + 1].addr = BOTTOM
                      /\ r[i].addr = (r[i + 1].value - 1) % Cap
    BY DEF Pairs
  <2>1. CASE i \in DOMAIN q
    <3>1. i + 1 \in DOMAIN q /\ q[i + 1].addr = BOTTOM /\ q[i].addr = (q[i + 1].value - 1) % Cap
      BY <1>3, <2>1 DEF InOrder, Pairs
    <3> QED
      BY <1>3, <2>1, <3>1
  <2>2. CASE i = Len(q) + 1
    <3>1. i + 1 \in DOMAIN r /\ r[i + 1] = s /\ r[i] = c
      BY <1>3, <2>2
    <3>2. (v + 1) - 1 = v
      OBVIOUS
    <3> QED
      BY <1>1, <1>2, <3>1, <3>2
  <2> QED
    BY <1>1, <1>3, <2>1, <2>2
<1>6. Rising(m, r)
  <2> SUFFICES ASSUME NEW i \in DOMAIN r, r[i].addr = BOTTOM
               PROVE  /\ m < r[i].value
                      /\ \A j \in DOMAIN r : r[j].addr = BOTTOM /\ i < j => r[i].value < r[j].value
    BY DEF Rising
  <2>1. CASE i = Len(q) + 2
    BY <1>1, <1>3, <2>1
  <2>2. CASE i \in DOMAIN q
    <3>1. m < q[i].value /\ \A j \in DOMAIN q : q[j].addr = BOTTOM /\ i < j => q[i].value < q[j].value
      BY <1>3, <2>2 DEF InOrder, Rising
    <3>2. ASSUME NEW j \in DOMAIN r, r[j].addr = BOTTOM, i < j PROVE r[i].value < r[j].value
      <4>1. CASE j \in DOMAIN q
        BY <1>3, <2>2, <3>1, <3>2, <4>1
      <4>2. CASE j = Len(q) + 2
        <5>1. q[i].value <= v /\ q[i].value \in Int
          BY <1>3, <2>2, BufferAt
        <5>2. r[j].value = v + 1 /\ r[i].value = q[i].value
          BY <1>1, <1>3, <2>2, <4>2
        <5> QED
          BY <5>1, <5>2
      <4>3. j \in DOMAIN q \/ j = Len(q) + 1 \/ j = Len(q) + 2
        BY <1>3
      <4>4. j # Len(q) + 1
        BY <1>2, <1>3, <3>2
      <4> QED
        BY <4>1, <4>2, <4>3, <4>4
    <3> QED
      BY <1>3, <2>2, <3>1, <3>2
  <2> QED
    BY <1>2, <1>3, <2>1, <2>2
<1> QED
  BY <1>1, <1>2, <1>3, <1>4, <1>5, <1>6 DEF InOrder, r, s, c

LEMMA DrainOrder ==
  ASSUME NEW m \in [0 .. Cap -> Int], NEW q \in Seq(Stores), q # <<>>, InOrder(m[BOTTOM], q)
  PROVE  LET n == [m EXCEPT ![Head(q).addr] = Head(q).value]
         IN  /\ n \in [0 .. Cap -> Int] /\ Tail(q) \in Seq(Stores)
             /\ InOrder(n[BOTTOM], Tail(q)) /\ m[BOTTOM] <= n[BOTTOM]
<1> DEFINE n == [m EXCEPT ![Head(q).addr] = Head(q).value]
           r == Tail(q)
<1>1. /\ r \in Seq(Stores) /\ Len(q) \in Nat \ {0}
      /\ DOMAIN r = 1 .. Len(q) - 1 /\ DOMAIN q = 1 .. Len(q)
      /\ \A i \in 1 .. Len(q) - 1 : r[i] = q[i + 1]
      /\ Head(q) = q[1]
  OBVIOUS
<1>2. q[1].addr \in 0 .. Cap /\ q[1].value \in Int
  BY <1>1, BufferAt
<1>3. n \in [0 .. Cap -> Int] /\ n[BOTTOM] = IF q[1].addr = BOTTOM THEN q[1].value ELSE m[BOTTOM]
  BY <1>1, <1>2, WorkerFacts
<1> HIDE DEF n, r
<1>4. Pairs(r)
  <2> SUFFICES ASSUME NEW i \in DOMAIN r, r[i].addr # BOTTOM
               PROVE  /\ i + 1 \in DOMAIN r
                      /\ r[i + 1].addr = BOTTOM
                      /\ r[i].addr = (r[i + 1].value - 1) % Cap
    BY DEF Pairs
  <2>1. i + 1 \in DOMAIN q /\ r[i] = q[i + 1]
    BY <1>1
  <2>2. (i + 1) + 1 \in DOMAIN q /\ q[(i + 1) + 1].addr = BOTTOM
        /\ q[i + 1].addr = (q[(i + 1) + 1].value - 1) % Cap
    BY <2>1 DEF InOrder, Pairs
  <2>3. i + 1 \in DOMAIN r /\ r[i + 1] = q[(i + 1) + 1]
    BY <1>1, <2>2
  <2> QED
    BY <2>1, <2>2, <2>3
<1>5. \A i \in DOMAIN q : q[i].addr = BOTTOM =>
        m[BOTTOM] < q[i].value /\ \A j \in DOMAIN q : q[j].addr = BOTTOM /\ i < j => q[i].value < q[j].value
  BY DEF InOrder, Rising
<1>6. Rising(n[BOTTOM], r)
  <2> SUFFICES ASSUME NEW i \in DOMAIN r, r[i].addr = BOTTOM
               PROVE  /\ n[BOTTOM] < r[i].value
                      /\ \A j \in DOMAIN r : r[j].addr = BOTTOM /\ i < j => r[i].value < r[j].value
    BY DEF Rising
  <2>1. i + 1 \in DOMAIN q /\ r[i] = q[i + 1] /\ 1 \in DOMAIN q /\ 1 < i + 1
    BY <1>1
  <2>2. n[BOTTOM] < r[i].value
    BY <1>3, <1>5, <2>1
  <2>3. ASSUME NEW j \in DOMAIN r, r[j].addr = BOTTOM, i < j PROVE r[i].value < r[j].value
    <3>1. j + 1 \in DOMAIN q /\ r[j] = q[j + 1] /\ i + 1 < j + 1
      BY <1>1, <2>3
    <3> QED
      BY <1>5, <2>1, <2>3, <3>1
  <2> QED
    BY <2>2, <2>3
<1>7. m[BOTTOM] <= n[BOTTOM]
  <2>1. 1 \in DOMAIN q /\ m[BOTTOM] \in Int
    BY <1>1, WorkerFacts
  <2>2. q[1].addr = BOTTOM => m[BOTTOM] < q[1].value
    BY <1>5, <2>1
  <2> QED
    BY <1>2, <1>3, <2>1, <2>2
<1> QED
  BY <1>1, <1>3, <1>4, <1>6, <1>7 DEF InOrder, n, r

-----------------------------------------------------------------------------
(* The queue.                                                                 *)
LEMMA QueueFacts ==
  ASSUME Types, Bounds
  PROVE  /\ LogicalBottom \in Int
         /\ LogicalBottom - top \in Nat
         /\ Queue \in Seq(Int)
         /\ Len(Queue) = LogicalBottom - top
         /\ \A i \in 1 .. LogicalBottom - top : Queue[i] = Own[(top + i - 1) % Cap]
         /\ Queue # <<>> <=> top < LogicalBottom
<1>1. LogicalBottom \in Int /\ top \in Nat
  <2>1. Own[BOTTOM] \in Int
    BY OwnType
  <2>2. b[Owner] \in Int /\ top \in Nat
    BY Typed
  <2>3. b[Owner] + 1 \in Int
    BY <2>2
  <2> QED
    BY <2>1, <2>2, <2>3 DEF LogicalBottom
<1>2. LogicalBottom - top \in Nat
  BY <1>1 DEF Bounds
<1>3. ASSUME NEW i \in 1 .. LogicalBottom - top PROVE Own[(top + i - 1) % Cap] \in Int
  <2>1. top + i - 1 \in Int
    BY <1>1, <1>2
  <2> QED
    BY <2>1, CellRange, OwnType
<1>4. Queue \in [1 .. LogicalBottom - top -> Int]
  BY <1>3 DEF Queue
<1>5. Queue \in Seq(Int) /\ Len(Queue) = LogicalBottom - top
  BY <1>2, <1>4
<1> QED
  BY <1>1, <1>2, <1>4, <1>5 DEF Queue

LEMMA SameQueue ==
  ASSUME Types, Bounds, top' = top, LogicalBottom' = LogicalBottom,
         \A a \in 0 .. Cap - 1 : Own'[a] = Own[a]
  PROVE  Queue' = Queue
<1>1. top \in Nat /\ LogicalBottom - top \in Nat
  BY QueueFacts DEF Types
<1>2. ASSUME NEW i \in 1 .. LogicalBottom - top
      PROVE  Own'[(top + i - 1) % Cap] = Own[(top + i - 1) % Cap]
  <2>1. top + i - 1 \in Int
    BY <1>1
  <2> QED
    BY <2>1, CellRange
<1> QED
  BY <1>2 DEF Queue

(* Steps of a thief leave the owner's side alone.                             *)
ThiefMoves(w) ==
  /\ at' \in [Worker -> Place] /\ b' \in [Worker -> Int] /\ t' \in [Worker -> Nat]
  /\ item' \in [Worker -> Int]
  /\ \A v \in Worker \ {w} : at'[v] = at[v] /\ b'[v] = b[v] /\ t'[v] = t[v] /\ item'[v] = item[v]
  /\ UNCHANGED <<mem, buffer, aborted>>

LEMMA ThiefQuiet ==
  ASSUME IInv, NEW w \in Thief, ThiefMoves(w), NEW p \in Nat, top' = p, top <= p,
         p <= LogicalBottom
  PROVE  /\ Types'
         /\ Own' = Own
         /\ LogicalBottom' = LogicalBottom
         /\ InOrder(mem'[BOTTOM], buffer')
         /\ Bounds'
         /\ Popping'
         /\ at'[Owner] = at[Owner]
<1>1. Owner \in Worker \ {w}
  BY WorkerFacts
<1>2. Own' = Own
  BY OwnIs DEF ThiefMoves
<1>3. LogicalBottom' = LogicalBottom
  BY <1>1, <1>2 DEF LogicalBottom, ThiefMoves
<1>4. top \in Nat /\ LogicalBottom \in Int
  BY QueueFacts, Typed DEF IInv
<1>5. Bounds'
  <2>1. LogicalBottom - top <= Cap /\ Cap \in Int
    BY WorkerFacts DEF IInv, Bounds
  <2>2. LogicalBottom - p <= Cap
    BY <1>4, <2>1
  <2> QED
    BY <1>3, <2>2 DEF Bounds
<1>6. Popping'
  <2>1. at'[Owner] = "exchange" => b[Owner] <= p
    <3>1. b[Owner] \in Int
      BY Typed DEF IInv
    <3> QED
      BY <1>1, <1>4, <3>1 DEF IInv, Popping, ThiefMoves
  <2> QED
    BY <1>1, <2>1 DEF IInv, Popping, ThiefMoves
<1>7. Types'
  BY <1>1, Typed DEF IInv, Types, ThiefMoves
<1> QED
  BY <1>1, <1>2, <1>3, <1>5, <1>6, <1>7 DEF IInv, ThiefMoves

(* A thief that is elsewhere keeps its hope.                                  *)
LEMMA ThiefElsewhere ==
  ASSUME IInv, NEW w \in Thief, at'[Owner] = at[Owner], Own' = Own,
         LogicalBottom' = LogicalBottom, UNCHANGED <<top, mem>>,
         at'[w] = at[w], t'[w] = t[w], item'[w] = item[w]
  PROVE  StealingAt(w)'
BY DEF IInv, Stealing, StealingAt, Hopeful, Reach

LEMMA Unmoved ==
  ASSUME IInv, NEW w \in Thief, ThiefMoves(w), UNCHANGED top
  PROVE  /\ Types' /\ Own' = Own /\ LogicalBottom' = LogicalBottom /\ Bounds' /\ Popping'
         /\ InOrder(mem'[BOTTOM], buffer') /\ Queue' = Queue /\ at'[Owner] = at[Owner]
         /\ \A v \in Thief \ {w} : StealingAt(v)'
<1>1. top \in Nat /\ top <= top /\ top <= LogicalBottom
  <2>1. top \in Nat
    BY Typed DEF IInv
  <2> QED
    BY <2>1 DEF IInv, Bounds
<1>2. /\ Types' /\ Own' = Own /\ LogicalBottom' = LogicalBottom /\ Bounds' /\ Popping'
      /\ InOrder(mem'[BOTTOM], buffer') /\ at'[Owner] = at[Owner]
  BY <1>1, ThiefQuiet
<1>3. Queue' = Queue
  BY <1>2, SameQueue DEF IInv
<1>4. ASSUME NEW v \in Thief \ {w} PROVE StealingAt(v)'
  <2>1. at'[v] = at[v] /\ t'[v] = t[v] /\ item'[v] = item[v]
    BY WorkerFacts DEF ThiefMoves
  <2> QED
    BY <1>2, <2>1, ThiefElsewhere DEF ThiefMoves
<1> QED
  BY <1>2, <1>3, <1>4

LEMMA ThiefKeeps ==
  ASSUME IInv, NEW w \in Thief, ThiefMoves(w), UNCHANGED top, StealingAt(w)'
  PROVE  IInv' /\ Queue' = Queue /\ aborted' = aborted
<1>1. Stealing'
  BY Unmoved DEF Stealing, StealingAt
<1> QED
  BY <1>1, Unmoved DEF IInv, ThiefMoves

LEMMA ThiefFails ==
  ASSUME IInv, NEW w \in Thief, Return(w, NULL), UNCHANGED <<top, mem, buffer, aborted>>
  PROVE  IInv' /\ Queue' = Queue
<1>1. w \in Worker
  BY WorkerFacts
<1>2. ThiefMoves(w) /\ at'[w] = "idle" /\ t'[w] = 0
  BY <1>1, Returned DEF IInv, ThiefMoves
<1>3. t'[w] <= top'
  <2>1. top \in Nat
    BY Typed DEF IInv
  <2>2. 0 <= top
    BY <2>1
  <2> QED
    BY <1>2, <2>2
<1>4. StealingAt(w)'
  BY <1>2, <1>3 DEF StealingAt, Hopeful, Reach
<1> QED
  BY <1>2, <1>4, ThiefKeeps

(* When the oldest thread is taken.                                           *)
LEMMA QueueTail ==
  ASSUME Types, Bounds, Types', Bounds', Own' = Own, LogicalBottom' = LogicalBottom,
         top' = top + 1, top < LogicalBottom
  PROVE  Queue' = Tail(Queue) /\ Queue # <<>> /\ Head(Queue) = Own[top % Cap]
<1>1. /\ LogicalBottom \in Int /\ LogicalBottom - top \in Nat
      /\ Queue \in Seq(Int) /\ Len(Queue) = LogicalBottom - top /\ Queue # <<>>
      /\ \A i \in 1 .. LogicalBottom - top : Queue[i] = Own[(top + i - 1) % Cap]
  BY QueueFacts
<1>2. top \in Nat
  BY Typed
<1>3. Queue' = [i \in 1 .. LogicalBottom - (top + 1) |-> Own[((top + 1) + i - 1) % Cap]]
  BY DEF Queue
<1>4. /\ Tail(Queue) \in Seq(Int) /\ Len(Tail(Queue)) = Len(Queue) - 1
      /\ \A i \in 1 .. Len(Queue) - 1 : Tail(Queue)[i] = Queue[i + 1]
  BY <1>1
<1>5. LogicalBottom - (top + 1) = Len(Queue) - 1
  BY <1>1, <1>2
<1>6. ASSUME NEW i \in 1 .. Len(Queue) - 1
      PROVE  Queue[i + 1] = Own[((top + 1) + i - 1) % Cap]
  <2>1. i + 1 \in 1 .. LogicalBottom - top /\ (top + 1) + i - 1 = top + (i + 1) - 1
    BY <1>1, <1>2
  <2>2. Queue[i + 1] = Own[(top + (i + 1) - 1) % Cap]
    BY <1>1, <2>1
  <2> QED
    BY <2>1, <2>2
<1>7. Queue' = Tail(Queue)
  <2>1. Queue' = [i \in 1 .. Len(Queue) - 1 |-> Queue[i + 1]]
    BY <1>3, <1>5, <1>6
  <2>2. Len(Queue) - 1 \in Nat /\ \A i \in 1 .. Len(Queue) - 1 : Queue[i + 1] \in Int
    BY <1>1
  <2>3. Queue' \in Seq(Int) /\ Len(Queue') = Len(Queue) - 1
    BY <2>1, <2>2
  <2> QED
    BY <1>4, <2>1, <2>3, SeqEqual
<1>8. Head(Queue) = Own[top % Cap]
  <2>1. 1 \in 1 .. LogicalBottom - top /\ top + 1 - 1 = top /\ Head(Queue) = Queue[1]
    BY <1>1, <1>2
  <2>2. Queue[1] = Own[(top + 1 - 1) % Cap]
    BY <1>1, <2>1
  <2> QED
    BY <2>1, <2>2
<1> QED
  BY <1>1, <1>7, <1>8

LEMMA StealTopStep ==
  ASSUME IInv, NEW w \in Thief, StealTop(w)
  PROVE  IInv' /\ UNCHANGED <<Queue, answer, aborted>>
<1>1. w \in Worker /\ w # Owner /\ top \in Nat /\ "load bottom" \in Place
  BY WorkerFacts, Typed DEF IInv, Place
<1>2. /\ at' = [at EXCEPT ![w] = "load bottom"] /\ t' = [t EXCEPT ![w] = top]
      /\ UNCHANGED <<top, mem, buffer, b, item, answer, aborted>>
  BY DEF StealTop
<1>3. at' \in [Worker -> Place] /\ at'[w] = "load bottom" /\ \A v \in Worker \ {w} : at'[v] = at[v]
  BY <1>1, <1>2, Written, Typed DEF IInv
<1>4. t' \in [Worker -> Nat] /\ t'[w] = top /\ \A v \in Worker \ {w} : t'[v] = t[v]
  BY <1>1, <1>2, Written, Typed DEF IInv
<1>5. ThiefMoves(w)
  BY <1>2, <1>3, <1>4, Typed DEF IInv, ThiefMoves
<1>6. t'[w] <= top'
  <2>1. top <= top
    <3>1. top \in Nat
      BY <1>1
    <3> QED
      BY <3>1
  <2> QED
    BY <1>2, <1>4, <2>1
<1>7. StealingAt(w)'
  BY <1>3, <1>6 DEF StealingAt, Hopeful, Reach
<1> QED
  BY <1>2, <1>5, <1>7, ThiefKeeps

LEMMA StealBottomStep ==
  ASSUME IInv, NEW w \in Thief, StealBottom(w)
  PROVE  IInv' /\ Queue' = Queue /\ (UNCHANGED <<answer, aborted>> \/ Deque!StealNothing(w))
<1>1. /\ w \in Worker /\ w # Owner /\ top \in Nat /\ mem[BOTTOM] \in Int /\ NULL \in Int
      /\ t[w] \in Nat /\ "load item" \in Place
  BY WorkerFacts, Typed DEF IInv, Place
<1>2. CASE mem[BOTTOM] - t[w] <= 0
  <2>1. Return(w, NULL) /\ UNCHANGED <<top, mem, buffer, aborted>>
    BY <1>2 DEF StealBottom
  <2>2. IInv' /\ Queue' = Queue
    BY <2>1, ThiefFails
  <2>3. Deque!StealNothing(w)
    BY <2>1, <2>2 DEF Deque!StealNothing, Deque!Answer, Return
  <2> QED
    BY <2>2, <2>3
<1>3. CASE ~ (mem[BOTTOM] - t[w] <= 0)
  <2>1. /\ at[w] = "load bottom" /\ at' = [at EXCEPT ![w] = "load item"]
        /\ UNCHANGED <<top, mem, buffer, b, t, item, answer, aborted>>
    BY <1>3 DEF StealBottom, At
  <2>2. at' \in [Worker -> Place] /\ at'[w] = "load item" /\ \A v \in Worker \ {w} : at'[v] = at[v]
    BY <1>1, <2>1, Written, Typed DEF IInv
  <2>3. ThiefMoves(w)
    BY <2>1, <2>2, Typed DEF IInv, ThiefMoves
  <2>4. LogicalBottom' = LogicalBottom /\ at'[Owner] = at[Owner]
    BY <2>1, <2>3, Unmoved
  <2>5. t[w] = top => top < mem[BOTTOM] /\ top < LogicalBottom
    <3>1. at[Owner] = "idle" => mem[BOTTOM] <= LogicalBottom
      BY OwnBottom DEF IInv, LogicalBottom
    <3>2. at[Owner] # "idle" => mem[BOTTOM] <= LogicalBottom
      <4>1. b[Owner] \in Int
        BY Typed DEF IInv
      <4>2. b[Owner] <= b[Owner] + 1
        BY <4>1
      <4> QED
        BY <4>2 DEF IInv, Popping, LogicalBottom
    <3>3. LogicalBottom \in Int
      BY QueueFacts DEF IInv
    <3>4. mem[BOTTOM] <= LogicalBottom
      BY <3>1, <3>2
    <3>5. t[w] < mem[BOTTOM]
      <4>1. t[w] \in Nat /\ mem[BOTTOM] \in Int
        BY <1>1
      <4> QED
        BY <1>3, <4>1
    <3>6. top \in Nat /\ mem[BOTTOM] \in Int
      BY <1>1
    <3> QED
      BY <3>3, <3>4, <3>5, <3>6
  <2>6. StealingAt(w)'
    <3>1. t[w] <= top
      BY DEF IInv, Stealing, StealingAt
    <3> QED
      BY <2>1, <2>2, <2>4, <2>5, <3>1 DEF StealingAt, Hopeful, Reach
  <2> QED
    BY <2>1, <2>3, <2>6, ThiefKeeps
<1> QED
  BY <1>2, <1>3

LEMMA StealItemStep ==
  ASSUME IInv, NEW w \in Thief, StealItem(w)
  PROVE  IInv' /\ UNCHANGED <<Queue, answer, aborted>>
<1>1. w \in Worker /\ w # Owner /\ top \in Nat /\ t[w] \in Nat /\ "exchange" \in Place
  BY WorkerFacts, Typed DEF IInv, Place
<1>2. mem[t[w] % Cap] \in Int
  <2>1. t[w] % Cap \in 0 .. Cap
    BY <1>1, CellRange
  <2> QED
    BY <2>1, Typed DEF IInv
<1>3. /\ at[w] = "load item" /\ at' = [at EXCEPT ![w] = "exchange"]
      /\ item' = [item EXCEPT ![w] = mem[t[w] % Cap]]
      /\ UNCHANGED <<top, mem, buffer, b, t, answer, aborted>>
  BY DEF StealItem, At
<1>4. at' \in [Worker -> Place] /\ at'[w] = "exchange" /\ \A v \in Worker \ {w} : at'[v] = at[v]
  BY <1>1, <1>3, Written, Typed DEF IInv
<1>5. /\ item' \in [Worker -> Int] /\ item'[w] = mem[t[w] % Cap]
      /\ \A v \in Worker \ {w} : item'[v] = item[v]
  BY <1>1, <1>2, <1>3, Written, Typed DEF IInv
<1>6. ThiefMoves(w)
  BY <1>3, <1>4, <1>5, Typed DEF IInv, ThiefMoves
<1>7. Own' = Own /\ LogicalBottom' = LogicalBottom /\ at'[Owner] = at[Owner]
  BY <1>3, <1>6, Unmoved
<1>8. StealingAt(w)'
  <2>1. /\ t[w] <= top
        /\ t[w] = top => top < LogicalBottom /\ (at[Owner] = "idle" => top < mem[BOTTOM])
    BY <1>3 DEF IInv, Stealing, StealingAt, Hopeful, Reach
  <2>2. t[w] = top => mem[top % Cap] = Own[top % Cap]
    BY <2>1, Visible DEF Reach
  <2> QED
    BY <1>3, <1>5, <1>7, <2>1, <2>2 DEF StealingAt, Hopeful, Reach
<1> QED
  BY <1>3, <1>6, <1>8, ThiefKeeps

(* The exchange takes the oldest thread, or nothing.                          *)
LEMMA StealExchangeStep ==
  ASSUME IInv, NEW w \in Thief, StealExchange(w)
  PROVE  IInv' /\ (Deque!Steal(w) \/ Deque!StealNothing(w))
<1>1. w \in Worker /\ w # Owner /\ top \in Nat /\ NULL \in Int /\ t[w] \in Nat /\ item[w] \in Int
  BY WorkerFacts, Typed DEF IInv
<1>2. at[w] = "exchange" /\ UNCHANGED <<mem, buffer, aborted>>
  BY DEF StealExchange, At
<1>3. CASE top = t[w]
  <2>1. top' = top + 1 /\ Return(w, item[w])
    BY <1>3 DEF StealExchange
  <2>2. top < LogicalBottom /\ item[w] = Own[top % Cap]
    BY <1>2, <1>3 DEF IInv, Stealing, StealingAt, Hopeful, Reach
  <2>3. /\ at' \in [Worker -> Place] /\ b' \in [Worker -> Int] /\ t' \in [Worker -> Nat]
        /\ item' \in [Worker -> Int]
        /\ \A v \in Worker \ {w} : at'[v] = at[v] /\ b'[v] = b[v] /\ t'[v] = t[v] /\ item'[v] = item[v]
        /\ t'[w] = 0 /\ at'[w] = "idle" /\ answer' = [worker |-> w, thread |-> item[w]]
    BY <1>1, <2>1, Returned DEF IInv
  <2>4. ThiefMoves(w)
    BY <1>2, <2>3 DEF ThiefMoves
  <2>5. LogicalBottom \in Int /\ LogicalBottom - top \in Nat
    BY QueueFacts DEF IInv
  <2>6. top + 1 \in Nat /\ top <= top + 1 /\ top + 1 <= LogicalBottom
    BY <1>1, <2>2, <2>5
  <2>7. /\ Types' /\ Own' = Own /\ LogicalBottom' = LogicalBottom /\ Bounds' /\ Popping'
        /\ InOrder(mem'[BOTTOM], buffer')
    BY <2>1, <2>4, <2>6, ThiefQuiet
  <2>8. Stealing'
    <3> SUFFICES ASSUME NEW u \in Thief PROVE StealingAt(u)'
      BY DEF Stealing, StealingAt
    <3>1. t'[u] < top + 1
      <4>1. t[u] <= top /\ t[u] \in Nat
        BY WorkerFacts, Typed DEF IInv, Stealing, StealingAt
      <4>2. u \in Worker
        BY WorkerFacts
      <4> QED
        BY <1>1, <2>3, <4>1, <4>2
    <3>2. t'[u] \in Nat
      BY <2>3, WorkerFacts
    <3>3. t'[u] <= top' /\ t'[u] # top'
      BY <1>1, <2>1, <3>1, <3>2
    <3> QED
      BY <3>3 DEF StealingAt, Hopeful, Reach
  <2>9. Queue' = Tail(Queue) /\ Queue # <<>> /\ Head(Queue) = item[w]
    BY <2>1, <2>2, <2>7, QueueTail DEF IInv
  <2>10. Deque!Steal(w)
    BY <1>2, <2>3, <2>9 DEF Deque!Steal, Deque!Answer
  <2> QED
    BY <2>7, <2>8, <2>10 DEF IInv
<1>4. CASE top # t[w]
  <2>1. UNCHANGED top /\ Return(w, NULL)
    BY <1>4 DEF StealExchange
  <2>2. IInv' /\ Queue' = Queue
    BY <1>2, <2>1, ThiefFails
  <2>3. Deque!StealNothing(w)
    BY <1>2, <2>1, <2>2 DEF Deque!StealNothing, Deque!Answer, Return
  <2> QED
    BY <2>2, <2>3
<1> QED
  BY <1>3, <1>4

-----------------------------------------------------------------------------
(* The owner.                                                                 *)
LEMMA EmptyOrder == ASSUME NEW m PROVE InOrder(m, <<>>)
BY DEF InOrder, Pairs, Rising

(* A step of the owner that changes nothing of what a thief may take.         *)
LEMMA ThievesKeep ==
  ASSUME IInv, UNCHANGED top, Reach => Reach' /\ Own'[top % Cap] = Own[top % Cap],
         \A w \in Thief : at'[w] = at[w] /\ t'[w] = t[w] /\ item'[w] = item[w]
  PROVE  Stealing'
<1> SUFFICES ASSUME NEW u \in Thief PROVE StealingAt(u)'
  BY DEF Stealing
<1>1. StealingAt(u)
  BY DEF IInv, Stealing
<1> QED
  BY <1>1 DEF StealingAt, Hopeful

LEMMA QueueFront ==
  ASSUME Types, Bounds, top' = top, NEW l \in Int, LogicalBottom = l + 1, LogicalBottom' = l,
         top <= l,
         \A a \in 0 .. Cap - 1 : Own'[a] = Own[a]
  PROVE  Queue' = Front(Queue) /\ Queue # <<>> /\ Last(Queue) = Own[l % Cap]
<1>1. /\ LogicalBottom \in Int /\ LogicalBottom - top \in Nat
      /\ Queue \in Seq(Int) /\ Len(Queue) = LogicalBottom - top
      /\ \A i \in 1 .. LogicalBottom - top : Queue[i] = Own[(top + i - 1) % Cap]
  BY QueueFacts
<1>2. top \in Nat
  BY Typed
<1>3. Len(Queue) = (l + 1) - top /\ Len(Queue) \in Nat \ {0} /\ l - top \in Nat /\ l - top = Len(Queue) - 1
  BY <1>1, <1>2
<1>4. Queue' = [i \in 1 .. l - top |-> Own'[(top + i - 1) % Cap]]
  BY DEF Queue
<1>5. ASSUME NEW i \in 1 .. l - top PROVE Own'[(top + i - 1) % Cap] = Queue[i]
  <2>1. i \in 1 .. LogicalBottom - top /\ top + i - 1 \in Int
    BY <1>2, <1>3
  <2>2. (top + i - 1) % Cap \in 0 .. Cap - 1
    BY <2>1, CellRange
  <2> QED
    BY <1>1, <2>1, <2>2
<1>6. Queue' = [i \in 1 .. Len(Queue) - 1 |-> Queue[i]]
  BY <1>3, <1>4, <1>5
<1>7. Front(Queue) = [i \in 1 .. Len(Queue) - 1 |-> Queue[i]]
  <2>1. Front(Queue) \in Seq(Int) /\ Len(Front(Queue)) = Len(Queue) - 1
        /\ \A i \in 1 .. Len(Queue) - 1 : Front(Queue)[i] = Queue[i]
    BY <1>1, <1>3 DEF Front
  <2>2. DOMAIN Front(Queue) = 1 .. Len(Queue) - 1
    BY <2>1
  <2> QED
    BY <2>1, <2>2
<1>8. Last(Queue) = Own[l % Cap]
  <2>1. Len(Queue) \in 1 .. LogicalBottom - top /\ top + Len(Queue) - 1 = l
    BY <1>1, <1>2, <1>3
  <2>2. Queue[Len(Queue)] = Own[(top + Len(Queue) - 1) % Cap]
    BY <1>1, <2>1
  <2> QED
    BY <2>1, <2>2 DEF Last
<1> QED
  BY <1>1, <1>3, <1>6, <1>7, <1>8

LEMMA QueueEmpty ==
  ASSUME Types, Bounds, LogicalBottom = top
  PROVE  Queue = <<>>
<1>1. Queue \in Seq(Int) /\ Len(Queue) = LogicalBottom - top /\ LogicalBottom \in Int
  BY QueueFacts
<1>2. Len(Queue) = 0
  BY <1>1
<1> QED
  BY <1>1, <1>2

LEMMA DrainStep ==
  ASSUME IInv, Drain
  PROVE  IInv' /\ UNCHANGED <<Queue, answer, aborted>>
<1>1. /\ buffer # <<>> /\ mem' = [mem EXCEPT ![Head(buffer).addr] = Head(buffer).value]
      /\ buffer' = Tail(buffer) /\ UNCHANGED <<top, at, b, t, item, answer, aborted>>
  BY DEF Drain
<1>2. buffer \in Seq(Stores) /\ mem \in [0 .. Cap -> Int] /\ InOrder(mem[BOTTOM], buffer)
  BY Typed DEF IInv
<1>3. /\ mem' \in [0 .. Cap -> Int] /\ buffer' \in Seq(Stores)
      /\ InOrder(mem'[BOTTOM], buffer') /\ mem[BOTTOM] <= mem'[BOTTOM]
  BY <1>1, <1>2, DrainOrder
<1>4. View(mem', buffer') = View(mem, buffer)
  BY <1>1, <1>2, ViewDrain
<1>5. Own' = Own
  BY <1>4, OwnIs
<1>6. at[Owner] = "idle"
  BY <1>1 DEF IInv, Popping
<1>7. LogicalBottom' = LogicalBottom
  BY <1>1, <1>5 DEF LogicalBottom
<1>8. Types'
  BY <1>1, <1>3 DEF IInv, Types
<1>9. Bounds' /\ Popping'
  BY <1>1, <1>6, <1>7 DEF IInv, Bounds, Popping
<1>10. Reach => Reach'
  <2>1. ASSUME top < mem[BOTTOM] PROVE top < mem'[BOTTOM]
    <3>1. top \in Nat /\ mem[BOTTOM] \in Int
      BY Typed DEF IInv
    <3>2. PICK x \in Int : x = mem'[BOTTOM]
      BY <1>3, WorkerFacts
    <3>3. mem[BOTTOM] <= x
      BY <1>3, <3>2
    <3>4. top < x
      BY <2>1, <3>1, <3>3
    <3> QED
      BY <3>2, <3>4
  <2> QED
    BY <1>1, <1>6, <1>7, <2>1 DEF Reach
<1>11. Stealing'
  BY <1>1, <1>5, <1>10, ThievesKeep
<1>12. Queue' = Queue
  BY <1>1, <1>5, <1>7, SameQueue DEF IInv
<1> QED
  BY <1>1, <1>3, <1>8, <1>9, <1>11, <1>12 DEF IInv

LEMMA PopClaimStep ==
  ASSUME IInv, PopClaim
  PROVE  IInv' /\ UNCHANGED <<Queue, answer, aborted>>
<1>1. /\ at[Owner] = "idle" /\ buffer = <<>>
      /\ b' = [b EXCEPT ![Owner] = Own[BOTTOM] - 1]
      /\ mem' = [mem EXCEPT ![BOTTOM] = Own[BOTTOM] - 1]
      /\ at' = [at EXCEPT ![Owner] = "load top"]
      /\ UNCHANGED <<buffer, top, t, item, answer, aborted>>
  BY DEF PopClaim, Claim, At
<1>2. Own = mem /\ mem[BOTTOM] \in Int
  <2>1. Own = mem
    BY <1>1, EmptyBuffer DEF IInv
  <2> QED
    BY <2>1, Typed DEF IInv
<1>3. PICK l \in Int : mem[BOTTOM] = l /\ l - 1 \in Int
  BY <1>2
<1>4. "load top" \in Place
  BY DEF Place
<1>5. at' \in [Worker -> Place] /\ at'[Owner] = "load top" /\ \A v \in Worker \ {Owner} : at'[v] = at[v]
  <2>1. at \in [Worker -> Place] /\ at' = [at EXCEPT ![Owner] = "load top"]
    BY <1>1, Typed DEF IInv
  <2> QED
    BY <1>4, <2>1, Written, WorkerFacts
<1>6. b' \in [Worker -> Int] /\ b'[Owner] = l - 1
  <2>1. b \in [Worker -> Int] /\ b' = [b EXCEPT ![Owner] = l - 1]
    BY <1>1, <1>2, <1>3, Typed DEF IInv
  <2> QED
    BY <1>3, <2>1, Written, WorkerFacts
<1>7. mem' \in [0 .. Cap -> Int] /\ mem'[BOTTOM] = l - 1 /\ \A a \in 0 .. Cap - 1 : mem'[a] = mem[a]
  <2>1. mem \in [0 .. Cap -> Int] /\ mem' = [mem EXCEPT ![BOTTOM] = l - 1]
    BY <1>1, <1>2, <1>3, Typed DEF IInv
  <2>2. BOTTOM \in 0 .. Cap /\ \A a \in 0 .. Cap - 1 : a \in 0 .. Cap /\ a # BOTTOM
    BY WorkerFacts
  <2> QED
    BY <1>3, <2>1, <2>2
<1>8. Own' = mem'
  BY <1>1, <1>7, OwnIs, ViewEmpty
<1>9. LogicalBottom = l /\ LogicalBottom' = l
  <2>1. (l - 1) + 1 = l
    BY <1>3
  <2> QED
    BY <1>1, <1>2, <1>3, <1>5, <1>6, <2>1 DEF LogicalBottom
<1>10. Types'
  BY <1>1, <1>5, <1>6, <1>7, Typed DEF IInv, Types
<1>11. InOrder(mem'[BOTTOM], buffer')
  BY <1>1, EmptyOrder
<1>12. Bounds'
  BY <1>1, <1>9 DEF IInv, Bounds
<1>13. Popping'
  BY <1>1, <1>5, <1>6, <1>7 DEF Popping
<1>14. Stealing'
  <2>1. top % Cap \in 0 .. Cap - 1
    BY CellOfTop DEF IInv
  <2>2. Reach => Reach'
    BY <1>1, <1>5, <1>9 DEF Reach
  <2>3. \A w \in Thief : at'[w] = at[w]
    BY <1>5, WorkerFacts
  <2> QED
    BY <1>1, <1>2, <1>7, <1>8, <2>1, <2>2, <2>3, ThievesKeep
<1>15. Queue' = Queue
  BY <1>1, <1>2, <1>7, <1>8, <1>9, SameQueue DEF IInv
<1> QED
  BY <1>1, <1>10, <1>11, <1>12, <1>13, <1>14, <1>15 DEF IInv

(* What is known after the store of bottom.                                   *)
LEMMA Claimed ==
  ASSUME IInv, at[Owner] # "idle"
  PROVE  /\ buffer = <<>> /\ Own = mem
         /\ \E l \in Int : b[Owner] = l /\ mem[BOTTOM] = l /\ LogicalBottom = l + 1 /\ top <= l + 1
<1>1. buffer = <<>> /\ Own = mem
  BY EmptyBuffer DEF IInv, Popping
<1>2. b[Owner] \in Int
  BY Typed DEF IInv
<1> QED
  BY <1>1, <1>2 DEF IInv, Popping, Bounds, LogicalBottom

(* bottom on its way back, the owner idle again.                              *)
LEMMA GivenBack ==
  ASSUME Types, buffer = <<>>, NEW l \in Int, mem[BOTTOM] < l, UNCHANGED mem,
         buffer' = Append(<<>>, Store(BOTTOM, l)), at'[Owner] = "idle"
  PROVE  /\ buffer' \in Seq(Stores) /\ InOrder(mem'[BOTTOM], buffer')
         /\ \A a \in 0 .. Cap - 1 : Own'[a] = Own[a]
         /\ LogicalBottom' = l
<1>1. mem \in [0 .. Cap -> Int] /\ mem[BOTTOM] \in Int /\ Own = mem
  BY EmptyBuffer, Typed
<1>2. <<>> \in Seq(Stores) /\ \A i \in DOMAIN <<>> : FALSE
  OBVIOUS
<1>3. /\ Append(<<>>, Store(BOTTOM, l)) \in Seq(Stores)
      /\ InOrder(mem[BOTTOM], Append(<<>>, Store(BOTTOM, l)))
      /\ Store(BOTTOM, l) \in Stores
  BY <1>1, <1>2, EmptyOrder, AppendBottom
<1>4. View(mem, Append(<<>>, Store(BOTTOM, l)))
        = [View(mem, <<>>) EXCEPT ![Store(BOTTOM, l).addr] = Store(BOTTOM, l).value]
  <2>1. PICK q \in Seq(Stores) : q = <<>>
    BY <1>2
  <2>2. PICK s \in Stores : s = Store(BOTTOM, l)
    BY <1>3
  <2>3. View(mem, Append(q, s)) = [View(mem, q) EXCEPT ![s.addr] = s.value]
    BY <1>1, ViewAppend
  <2> QED
    BY <2>1, <2>2, <2>3
<1>5. Own' = [mem EXCEPT ![BOTTOM] = l]
  BY <1>1, <1>4, OwnIs, ViewEmpty DEF Store
<1>6. BOTTOM \in 0 .. Cap /\ \A a \in 0 .. Cap - 1 : a \in 0 .. Cap /\ a # BOTTOM
  BY WorkerFacts
<1>7. Own'[BOTTOM] = l /\ \A a \in 0 .. Cap - 1 : Own'[a] = Own[a]
  BY <1>1, <1>5, <1>6
<1> QED
  BY <1>3, <1>7 DEF LogicalBottom

LEMMA PopEmptyStep ==
  ASSUME IInv, PopEmpty
  PROVE  IInv' /\ Deque!PopNothing
<1>1. /\ at[Owner] = "load top" /\ b[Owner] < top
      /\ buffer' = Append(buffer, Store(BOTTOM, top)) /\ Return(Owner, NULL)
      /\ UNCHANGED <<top, mem, aborted>>
  BY DEF PopEmpty, At
<1>2. /\ at' \in [Worker -> Place] /\ b' \in [Worker -> Int] /\ t' \in [Worker -> Nat]
      /\ item' \in [Worker -> Int]
      /\ at'[Owner] = "idle" /\ answer' = [worker |-> Owner, thread |-> NULL]
      /\ \A v \in Worker \ {Owner} : at'[v] = at[v] /\ t'[v] = t[v] /\ item'[v] = item[v]
  BY <1>1, Returned, WorkerFacts DEF IInv
<1>3. PICK l \in Int : b[Owner] = l /\ mem[BOTTOM] = l /\ LogicalBottom = l + 1 /\ top <= l + 1
  BY <1>1, Claimed
<1>4. top \in Nat /\ top = l + 1 /\ LogicalBottom = top
  <2>1. top \in Nat
    BY Typed DEF IInv
  <2>2. l < top /\ top <= l + 1
    BY <1>1, <1>3
  <2>3. top = l + 1
    BY <2>1, <2>2
  <2> QED
    BY <1>3, <2>1, <2>3
<1>5. buffer = <<>> /\ Own = mem
  BY <1>1, Claimed
<1>6. /\ buffer' \in Seq(Stores) /\ InOrder(mem'[BOTTOM], buffer')
      /\ \A a \in 0 .. Cap - 1 : Own'[a] = Own[a]
      /\ LogicalBottom' = top
  <2>1. mem[BOTTOM] < top /\ top \in Int
    BY <1>3, <1>4
  <2> QED
    BY <1>1, <1>2, <1>5, <2>1, GivenBack DEF IInv
<1>7. Types'
  BY <1>1, <1>2, <1>6, Typed DEF IInv, Types
<1>8. Bounds' /\ Popping'
  BY <1>1, <1>2, <1>4, <1>6 DEF IInv, Bounds, Popping
<1>9. Stealing'
  <2>1. ~ Reach
    BY <1>4 DEF Reach
  <2>2. \A w \in Thief : at'[w] = at[w] /\ t'[w] = t[w] /\ item'[w] = item[w]
    BY <1>2, WorkerFacts
  <2> QED
    BY <1>1, <2>1, <2>2, ThievesKeep
<1>10. Queue' = Queue /\ Queue = <<>>
  BY <1>1, <1>4, <1>6, SameQueue, QueueEmpty DEF IInv
<1>11. Deque!PopNothing
  BY <1>1, <1>2, <1>10 DEF Deque!PopNothing, Deque!Answer
<1> QED
  BY <1>6, <1>7, <1>8, <1>9, <1>11 DEF IInv

LEMMA PopManyStep ==
  ASSUME IInv, PopMany
  PROVE  IInv' /\ Deque!Pop
<1>1. /\ at[Owner] = "load top" /\ b[Owner] > top /\ Return(Owner, Own[b[Owner] % Cap])
      /\ UNCHANGED <<top, mem, buffer, aborted>>
  BY DEF PopMany, At, Uncontended
<1>2. /\ at' \in [Worker -> Place] /\ b' \in [Worker -> Int] /\ t' \in [Worker -> Nat]
      /\ item' \in [Worker -> Int]
      /\ at'[Owner] = "idle" /\ answer' = [worker |-> Owner, thread |-> Own[b[Owner] % Cap]]
      /\ \A v \in Worker \ {Owner} : at'[v] = at[v] /\ t'[v] = t[v] /\ item'[v] = item[v]
  BY <1>1, Returned, WorkerFacts DEF IInv
<1>3. PICK l \in Int : b[Owner] = l /\ mem[BOTTOM] = l /\ LogicalBottom = l + 1
  BY <1>1, Claimed
<1>4. top \in Nat /\ top < l /\ top <= l
  <2>1. top \in Nat
    BY Typed DEF IInv
  <2>2. l > top
    BY <1>1, <1>3
  <2> QED
    BY <2>1, <2>2
<1>5. Own' = Own /\ buffer = <<>> /\ Own = mem
  BY <1>1, Claimed, OwnIs
<1>6. LogicalBottom' = l
  BY <1>1, <1>2, <1>3, <1>5 DEF LogicalBottom
<1>7. Types'
  BY <1>1, <1>2, Typed DEF IInv, Types
<1>8. Bounds'
  <2>1. (l + 1) - top <= Cap /\ Cap \in Int
    BY <1>3, WorkerFacts DEF IInv, Bounds
  <2>2. l - top <= Cap
    BY <1>4, <2>1
  <2> QED
    BY <1>1, <1>4, <1>6, <2>2 DEF Bounds
<1>9. Popping' /\ InOrder(mem'[BOTTOM], buffer')
  BY <1>1, <1>2 DEF IInv, Popping
<1>10. Stealing'
  <2>1. Reach'
    BY <1>1, <1>3, <1>4, <1>6 DEF Reach
  <2>2. \A w \in Thief : at'[w] = at[w] /\ t'[w] = t[w] /\ item'[w] = item[w]
    BY <1>2, WorkerFacts
  <2> QED
    BY <1>1, <1>5, <2>1, <2>2, ThievesKeep
<1>11. Queue' = Front(Queue) /\ Queue # <<>> /\ Last(Queue) = Own[l % Cap]
  BY <1>1, <1>3, <1>4, <1>5, <1>6, QueueFront DEF IInv
<1>12. Deque!Pop
  <2>1. answer' = [worker |-> Owner, thread |-> Last(Queue)]
    BY <1>2, <1>3, <1>11
  <2>2. UNCHANGED aborted
    BY <1>1
  <2> QED
    BY <1>11, <2>1, <2>2, SameHelpers DEF Deque!Pop, Deque!Answer
<1> QED
  BY <1>7, <1>8, <1>9, <1>10, <1>12 DEF IInv

LEMMA PopLastStep ==
  ASSUME IInv, PopLast
  PROVE  IInv' /\ UNCHANGED <<Queue, answer, aborted>>
<1>1. /\ at[Owner] = "load top" /\ b[Owner] = top
      /\ t' = [t EXCEPT ![Owner] = top]
      /\ item' = [item EXCEPT ![Owner] = Own[b[Owner] % Cap]]
      /\ at' = [at EXCEPT ![Owner] = "exchange"]
      /\ UNCHANGED <<top, mem, buffer, b, answer, aborted>>
  BY DEF PopLast, At
<1>2. "exchange" \in Place /\ Owner \in Worker
  BY WorkerFacts DEF Place
<1>3. top \in Nat
  BY Typed DEF IInv
<1>4. buffer = <<>> /\ Own = mem /\ Own' = Own
  BY <1>1, Claimed, OwnIs
<1>5. Own[b[Owner] % Cap] \in Int
  <2>1. b[Owner] % Cap \in 0 .. Cap
    BY <1>1, CellOfTop DEF IInv
  <2> QED
    BY <1>4, <2>1, Typed DEF IInv
<1>6. at' \in [Worker -> Place] /\ at'[Owner] = "exchange" /\ \A v \in Worker \ {Owner} : at'[v] = at[v]
  BY <1>1, <1>2, Written, Typed DEF IInv
<1>7. t' \in [Worker -> Nat] /\ t'[Owner] = top /\ \A v \in Worker \ {Owner} : t'[v] = t[v]
  BY <1>1, <1>2, <1>3, Written, Typed DEF IInv
<1>8. /\ item' \in [Worker -> Int] /\ item'[Owner] = Own[b[Owner] % Cap]
      /\ \A v \in Worker \ {Owner} : item'[v] = item[v]
  BY <1>1, <1>2, <1>5, Written, Typed DEF IInv
<1>9. LogicalBottom' = LogicalBottom
  BY <1>1, <1>6 DEF LogicalBottom
<1>10. Types'
  BY <1>1, <1>6, <1>7, <1>8, Typed DEF IInv, Types
<1>11. Bounds' /\ InOrder(mem'[BOTTOM], buffer')
  BY <1>1, <1>9 DEF IInv, Bounds
<1>12. Popping'
  <2>1. mem[BOTTOM] = b[Owner]
    BY <1>1 DEF IInv, Popping
  <2>2. b'[Owner] <= top'
    <3>1. top <= top
      BY <1>3
    <3> QED
      BY <1>1, <3>1
  <2> QED
    BY <1>1, <1>4, <1>6, <1>7, <1>8, <2>1, <2>2 DEF Popping
<1>13. Stealing'
  <2>1. Reach => Reach'
    BY <1>1, <1>6, <1>9 DEF Reach
  <2>2. \A w \in Thief : at'[w] = at[w] /\ t'[w] = t[w] /\ item'[w] = item[w]
    BY <1>6, <1>7, <1>8, WorkerFacts
  <2> QED
    BY <1>1, <1>4, <2>1, <2>2, ThievesKeep
<1>14. Queue' = Queue
  BY <1>1, <1>4, <1>9, SameQueue DEF IInv
<1> QED
  BY <1>1, <1>10, <1>11, <1>12, <1>13, <1>14 DEF IInv

LEMMA PopExchangeStep ==
  ASSUME IInv, PopExchange
  PROVE  IInv' /\ (Deque!Pop \/ Deque!PopNothing)
<1>1. /\ at[Owner] = "exchange" /\ buffer = <<>> /\ buffer' = <<Store(BOTTOM, b[Owner] + 1)>>
      /\ UNCHANGED <<mem, aborted>>
  BY DEF PopExchange, At, Restored
<1>2. PICK l \in Int : b[Owner] = l /\ mem[BOTTOM] = l /\ LogicalBottom = l + 1 /\ top <= l + 1
  BY <1>1, Claimed
<1>3. Own = mem /\ t[Owner] = l /\ l <= top /\ item[Owner] = mem[l % Cap] /\ item[Owner] \in Int
  BY <1>1, <1>2, Claimed, Typed DEF IInv, Popping
<1>4. top \in Nat
  BY Typed DEF IInv
<1>5. ASSUME NEW x \in Int, Return(Owner, x)
      PROVE  /\ at' \in [Worker -> Place] /\ b' \in [Worker -> Int] /\ t' \in [Worker -> Nat] /\ item' \in [Worker -> Int]
             /\ at'[Owner] = "idle" /\ answer' = [worker |-> Owner, thread |-> x]
             /\ \A v \in Worker \ {Owner} : at'[v] = at[v] /\ t'[v] = t[v] /\ item'[v] = item[v]
             /\ buffer' \in Seq(Stores) /\ InOrder(mem'[BOTTOM], buffer')
             /\ \A a \in 0 .. Cap - 1 : Own'[a] = Own[a]
             /\ LogicalBottom' = l + 1
  <2>1. /\ at' \in [Worker -> Place] /\ b' \in [Worker -> Int] /\ t' \in [Worker -> Nat]
        /\ item' \in [Worker -> Int]
        /\ at'[Owner] = "idle" /\ answer' = [worker |-> Owner, thread |-> x]
        /\ \A v \in Worker \ {Owner} : at'[v] = at[v] /\ t'[v] = t[v] /\ item'[v] = item[v]
    BY <1>5, Returned, WorkerFacts DEF IInv
  <2>2. buffer' = Append(<<>>, Store(BOTTOM, l + 1))
    BY <1>1, <1>2
  <2>3. mem[BOTTOM] < l + 1 /\ l + 1 \in Int
    BY <1>2
  <2> QED
    BY <1>1, <2>1, <2>2, <2>3, GivenBack DEF IInv
<1>6. CASE top = t[Owner]
  <2>1. top' = top + 1 /\ Return(Owner, item[Owner])
    BY <1>6 DEF PopExchange
  <2>2. /\ at' \in [Worker -> Place] /\ b' \in [Worker -> Int] /\ t' \in [Worker -> Nat]
        /\ item' \in [Worker -> Int]
        /\ at'[Owner] = "idle" /\ answer' = [worker |-> Owner, thread |-> item[Owner]]
        /\ \A v \in Worker \ {Owner} : at'[v] = at[v] /\ t'[v] = t[v] /\ item'[v] = item[v]
        /\ buffer' \in Seq(Stores) /\ InOrder(mem'[BOTTOM], buffer')
        /\ \A a \in 0 .. Cap - 1 : Own'[a] = Own[a]
        /\ LogicalBottom' = l + 1
    BY <1>3, <1>5, <2>1
  <2>3. top' = l + 1 /\ top = l /\ top + 1 \in Nat /\ top <= l
    BY <1>3, <1>4, <1>6, <2>1
  <2>4. Types'
    BY <1>1, <2>1, <2>2, <2>3, Typed DEF IInv, Types
  <2>5. Bounds'
    <3>1. l + 1 <= l + 1 /\ (l + 1) - (l + 1) <= Cap
      BY WorkerFacts
    <3> QED
      BY <2>2, <2>3, <3>1 DEF Bounds
  <2>6. Popping'
    BY <2>2 DEF Popping
  <2>7. Stealing'
    <3> SUFFICES ASSUME NEW u \in Thief PROVE StealingAt(u)'
      BY DEF Stealing
    <3>1. t[u] <= top /\ t[u] \in Nat /\ t'[u] = t[u]
      BY <2>2, WorkerFacts, Typed DEF IInv, Stealing, StealingAt
    <3>2. t[u] <= top + 1 /\ t[u] # top + 1
      BY <1>4, <3>1
    <3> QED
      BY <2>1, <3>1, <3>2 DEF StealingAt, Hopeful
  <2>8. Queue # <<>> /\ Last(Queue) = item[Owner] /\ Front(Queue) = <<>>
    <3>1. Queue \in Seq(Int) /\ Len(Queue) = 1 /\ Queue[1] = Own[(top + 1 - 1) % Cap]
      <4>1. LogicalBottom - top = 1 /\ 1 \in 1 .. 1
        BY <1>2, <2>3
      <4> QED
        BY <4>1, QueueFacts DEF IInv
    <3>2. top + 1 - 1 = l
      BY <2>3
    <3>3. Queue[1] = item[Owner]
      BY <1>3, <3>1, <3>2
    <3>4. Last(Queue) = Queue[1]
      BY <3>1 DEF Last
    <3>5. Front(Queue) = <<>>
      BY <3>1 DEF Front
    <3>6. Queue # <<>>
      BY <3>1
    <3> QED
      BY <3>3, <3>4, <3>5, <3>6
  <2>9. Queue' = <<>>
    <3>1. LogicalBottom' = top'
      BY <2>2, <2>3
    <3>2. Queue' = [i \in 1 .. (l + 1) - (l + 1) |-> Own'[(top' + i - 1) % Cap]]
      BY <2>2, <2>3 DEF Queue
    <3>3. 1 .. (l + 1) - (l + 1) = {}
      OBVIOUS
    <3>4. DOMAIN Queue' = {} /\ Queue' = [i \in {} |-> Own'[(top' + i - 1) % Cap]]
      BY <3>2, <3>3
    <3>5. Queue' \in [1 .. 0 -> Int]
      BY <3>4
    <3>6. Queue' \in Seq(Int) /\ Len(Queue') = 0
      BY <3>4, <3>5
    <3> QED
      BY <3>6, EmptySeq
  <2>10. Deque!Pop
    <3>1. answer' = [worker |-> Owner, thread |-> Last(Queue)] /\ Queue' = Front(Queue)
      BY <2>2, <2>8, <2>9
    <3>2. UNCHANGED aborted
      BY <1>1
    <3> QED
      BY <2>8, <3>1, <3>2, SameHelpers DEF Deque!Pop, Deque!Answer
  <2> QED
    BY <2>2, <2>4, <2>5, <2>6, <2>7, <2>10 DEF IInv
<1>7. CASE top # t[Owner]
  <2>1. top' = top /\ Return(Owner, NULL)
    BY <1>7 DEF PopExchange
  <2>2. /\ at' \in [Worker -> Place] /\ b' \in [Worker -> Int] /\ t' \in [Worker -> Nat]
        /\ item' \in [Worker -> Int]
        /\ at'[Owner] = "idle" /\ answer' = [worker |-> Owner, thread |-> NULL]
        /\ \A v \in Worker \ {Owner} : at'[v] = at[v] /\ t'[v] = t[v] /\ item'[v] = item[v]
        /\ buffer' \in Seq(Stores) /\ InOrder(mem'[BOTTOM], buffer')
        /\ \A a \in 0 .. Cap - 1 : Own'[a] = Own[a]
        /\ LogicalBottom' = l + 1
    BY <1>5, <2>1, WorkerFacts
  <2>3. top = l + 1 /\ LogicalBottom = top /\ LogicalBottom' = LogicalBottom
    BY <1>2, <1>3, <1>4, <1>7, <2>2
  <2>4. Types'
    BY <1>1, <2>1, <2>2, Typed DEF IInv, Types
  <2>5. Bounds' /\ Popping'
    BY <2>1, <2>2, <2>3 DEF IInv, Bounds, Popping
  <2>6. Stealing'
    <3>1. ~ Reach
      BY <2>3 DEF Reach
    <3>2. \A w \in Thief : at'[w] = at[w] /\ t'[w] = t[w] /\ item'[w] = item[w]
      BY <2>2, WorkerFacts
    <3> QED
      BY <2>1, <3>1, <3>2, ThievesKeep
  <2>7. Queue' = Queue /\ Queue = <<>>
    BY <2>1, <2>2, <2>3, SameQueue, QueueEmpty DEF IInv
  <2>8. Deque!PopNothing
    BY <1>1, <2>2, <2>7 DEF Deque!PopNothing, Deque!Answer
  <2> QED
    BY <2>2, <2>4, <2>5, <2>6, <2>8 DEF IInv
<1> QED
  BY <1>6, <1>7

LEMMA PushAbortsStep ==
  ASSUME IInv, PushAborts
  PROVE  IInv' /\ Deque!Overflow
<1>1. at[Owner] = "idle" /\ Own[BOTTOM] - top >= Cap /\ aborted' = TRUE
      /\ UNCHANGED <<top, mem, buffer, at, b, t, item, answer>>
  BY DEF PushAborts, At, Full
<1>2. Own' = Own /\ LogicalBottom' = LogicalBottom
  BY <1>1, OwnIs DEF LogicalBottom
<1>3. Queue' = Queue
  BY <1>1, <1>2, SameQueue DEF IInv
<1>4. Len(Queue) = Cap
  <2>1. LogicalBottom \in Int /\ LogicalBottom - top \in Nat /\ Len(Queue) = LogicalBottom - top
    BY QueueFacts DEF IInv
  <2>2. LogicalBottom - top >= Cap /\ LogicalBottom - top <= Cap /\ Cap \in Nat
    BY <1>1, WorkerFacts DEF IInv, Bounds, LogicalBottom
  <2> QED
    BY <2>1, <2>2
<1>5. Types' /\ Bounds' /\ Popping' /\ InOrder(mem'[BOTTOM], buffer')
  BY <1>1, <1>2 DEF IInv, Types, Bounds, Popping
<1>6. Stealing'
  BY <1>1, <1>2, ThievesKeep DEF Reach
<1> QED
  BY <1>1, <1>3, <1>4, <1>5, <1>6 DEF IInv, Deque!Overflow

LEMMA PushStep ==
  ASSUME IInv, NEW x \in Thread, Push(x)
  PROVE  IInv' /\ Deque!Push(x)
<1>1. /\ at[Owner] = "idle" /\ x \notin ToSet(Queue) /\ ~ (Own[BOTTOM] - top >= Cap)
      /\ buffer' = buffer \o <<Store(Own[BOTTOM] % Cap, x), Store(BOTTOM, Own[BOTTOM] + 1)>>
      /\ UNCHANGED <<top, mem, at, b, t, item, answer, aborted>>
  BY DEF Push, At, Full
<1>2. PICK l \in Int : l = Own[BOTTOM]
  BY OwnType DEF IInv
<1>3. x \in Int /\ Cap \in Nat \ {0} /\ top \in Nat /\ LogicalBottom = l
  BY <1>1, <1>2, WorkerFacts, Typed DEF IInv, LogicalBottom
<1>4. top <= l /\ l - top < Cap
  <2>1. top <= l
    BY <1>3 DEF IInv, Bounds
  <2>2. ~ (l - top >= Cap)
    BY <1>1, <1>2
  <2> QED
    BY <1>3, <2>1, <2>2
<1> DEFINE cell == Store(l % Cap, x)
           bottom == Store(BOTTOM, l + 1)
<1>5. /\ buffer \in Seq(Stores) /\ mem[BOTTOM] \in Int /\ mem \in [0 .. Cap -> Int]
      /\ mem[BOTTOM] <= l
      /\ \A i \in DOMAIN buffer : buffer[i].addr = BOTTOM => buffer[i].value <= l
  BY <1>2, OwnBottom, Typed DEF IInv
<1>6. /\ buffer' \in Seq(Stores) /\ InOrder(mem[BOTTOM], buffer')
      /\ buffer' = Append(Append(buffer, cell), bottom)
      /\ cell \in Stores /\ bottom \in Stores
  <2>1. buffer' = buffer \o <<cell, bottom>>
    BY <1>1, <1>2
  <2>2. InOrder(mem[BOTTOM], buffer)
    BY DEF IInv
  <2>3. PICK q \in Seq(Stores) : q = buffer
    BY <1>5
  <2>4. PICK m \in Int : m = mem[BOTTOM]
    BY <1>5
  <2>5. InOrder(m, q) /\ m <= l /\ \A i \in DOMAIN q : q[i].addr = BOTTOM => q[i].value <= l
    BY <1>5, <2>2, <2>3, <2>4
  <2>6. x \in Int
    BY <1>3
  <2>7. /\ q \o <<cell, bottom>> \in Seq(Stores) /\ InOrder(m, q \o <<cell, bottom>>)
        /\ q \o <<cell, bottom>> = Append(Append(q, cell), bottom)
        /\ cell \in Stores /\ bottom \in Stores
    BY <2>5, <2>6, AppendPair
  <2> HIDE DEF cell, bottom
  <2>8. buffer' = q \o <<cell, bottom>>
    BY <2>1, <2>3
  <2> QED
    BY <2>3, <2>4, <2>7, <2>8
<1>7. View(mem, Append(buffer, cell)) = [Own EXCEPT ![l % Cap] = x]
  <2>1. View(mem, Append(buffer, cell)) = [View(mem, buffer) EXCEPT ![cell.addr] = cell.value]
    <3> HIDE DEF cell
    <3>1. cell \in Stores /\ buffer \in Seq(Stores) /\ mem \in [0 .. Cap -> Int]
      BY <1>5, <1>6
    <3> QED
      BY <3>1, ViewAppend
  <2>2. cell.addr = l % Cap /\ cell.value = x
    BY DEF Store
  <2> QED
    BY <2>1, <2>2, OwnIs
<1>8. View(mem, Append(Append(buffer, cell), bottom)) = [[Own EXCEPT ![l % Cap] = x] EXCEPT ![BOTTOM] = l + 1]
  <2>1. PICK q \in Seq(Stores) : q = Append(buffer, cell)
    <3>1. Append(buffer, cell) \in Seq(Stores)
      BY <1>5, <1>6, AppendProperties
    <3> QED
      BY <3>1
  <2>2. PICK s \in Stores : s = bottom
    BY <1>6
  <2>3. View(mem, Append(q, s)) = [View(mem, q) EXCEPT ![s.addr] = s.value]
    BY <1>5, ViewAppend
  <2>4. s.addr = BOTTOM /\ s.value = l + 1
    BY <2>2 DEF Store
  <2> QED
    BY <1>7, <2>1, <2>2, <2>3, <2>4
<1>9. Own' = [[Own EXCEPT ![l % Cap] = x] EXCEPT ![BOTTOM] = l + 1]
  BY <1>1, <1>6, <1>8, OwnIs
<1>10. /\ Own'[BOTTOM] = l + 1 /\ Own'[l % Cap] = x
       /\ \A a \in 0 .. Cap - 1 : a # l % Cap => Own'[a] = Own[a]
  <2>1. BOTTOM \in 0 .. Cap /\ l % Cap \in 0 .. Cap /\ l % Cap # BOTTOM
    BY CellRange
  <2>2. \A a \in 0 .. Cap - 1 : a \in 0 .. Cap /\ a # BOTTOM
    BY WorkerFacts
  <2>3. Own \in [0 .. Cap -> Int]
    BY OwnType DEF IInv
  <2> QED
    BY <1>9, <2>1, <2>2, <2>3
<1>11. LogicalBottom' = l + 1
  BY <1>1, <1>10 DEF LogicalBottom
<1>12. Types'
  BY <1>1, <1>6 DEF IInv, Types
<1>13. Bounds'
  <2>1. top <= l + 1 /\ (l + 1) - top <= Cap
    BY <1>3, <1>4
  <2> QED
    BY <1>1, <1>11, <2>1 DEF Bounds
<1>14. Popping' /\ InOrder(mem'[BOTTOM], buffer')
  BY <1>1, <1>6 DEF Popping
<1>15. ASSUME NEW k \in Int, top <= k, k < l PROVE Own'[k % Cap] = Own[k % Cap]
  <2>1. l - k < Cap
    BY <1>3, <1>4, <1>15
  <2>2. k % Cap # l % Cap
    BY <1>15, <2>1, Cells
  <2>3. k % Cap \in 0 .. Cap - 1
    BY CellRange
  <2> QED
    BY <1>10, <2>2, <2>3
<1>16. Stealing'
  <2>1. ASSUME Reach PROVE Reach' /\ Own'[top % Cap] = Own[top % Cap]
    <3>1. top < l /\ top < l + 1 /\ top <= top
      <4>1. top < l
        BY <1>3, <2>1 DEF Reach
      <4> QED
        BY <1>3, <4>1
    <3>2. Own'[top % Cap] = Own[top % Cap]
      BY <1>3, <1>15, <3>1
    <3>3. Reach'
      BY <1>1, <1>11, <2>1, <3>1 DEF Reach
    <3> QED
      BY <3>2, <3>3
  <2> QED
    BY <1>1, <2>1, ThievesKeep
<1>17. Queue' = Append(Queue, x)
  <2>1. /\ LogicalBottom - top \in Nat /\ Queue \in Seq(Int) /\ Len(Queue) = l - top
        /\ \A i \in 1 .. l - top : Queue[i] = Own[(top + i - 1) % Cap]
    BY <1>3, QueueFacts DEF IInv
  <2>2. Append(Queue, x) \in Seq(Int) /\ Len(Append(Queue, x)) = Len(Queue) + 1
        /\ Append(Queue, x)[Len(Queue) + 1] = x
        /\ \A i \in 1 .. Len(Queue) : Append(Queue, x)[i] = Queue[i]
    BY <1>3, <2>1
  <2>3. Queue' = [i \in 1 .. (l + 1) - top |-> Own'[(top + i - 1) % Cap]]
    BY <1>1, <1>11 DEF Queue
  <2>4. Len(Queue) \in Nat /\ (l + 1) - top = Len(Queue) + 1
    BY <1>3, <1>4, <2>1
  <2>5. ASSUME NEW i \in 1 .. Len(Queue) + 1 PROVE Own'[(top + i - 1) % Cap] = Append(Queue, x)[i]
    <3>1. CASE i = Len(Queue) + 1
      <4>1. top + i - 1 = l
        BY <1>3, <2>1, <2>4, <3>1
      <4> QED
        BY <1>10, <2>2, <3>1, <4>1
    <3>2. CASE i # Len(Queue) + 1
      <4>1. /\ i \in 1 .. Len(Queue) /\ i \in 1 .. l - top /\ top + i - 1 \in Int
            /\ top <= top + i - 1 /\ top + i - 1 < l
        BY <1>3, <1>4, <2>1, <2>4, <3>2
      <4>2. Own'[(top + i - 1) % Cap] = Own[(top + i - 1) % Cap]
        BY <1>15, <4>1
      <4> QED
        BY <2>1, <2>2, <4>1, <4>2
    <3> QED
      BY <3>1, <3>2
  <2>6. Append(Queue, x) = [i \in 1 .. Len(Queue) + 1 |-> Append(Queue, x)[i]]
    <3>1. PICK q \in Seq(Int) : q = Append(Queue, x)
      BY <2>2
    <3>2. q = [i \in 1 .. Len(q) |-> q[i]]
      BY IsASeq
    <3> QED
      BY <2>2, <3>1, <3>2
  <2> QED
    BY <2>3, <2>4, <2>5, <2>6
<1>18. Deque!Push(x)
  <2>1. Len(Queue) < Cap
    <3>1. Len(Queue) = l - top
      BY <1>3, QueueFacts DEF IInv
    <3> QED
      BY <1>4, <3>1
  <2>2. x \notin ToSet(Queue) /\ UNCHANGED <<answer, aborted>>
    BY <1>1
  <2> QED
    BY <1>17, <2>1, <2>2, SameHelpers DEF Deque!Push
<1> QED
  BY <1>12, <1>13, <1>14, <1>16, <1>18 DEF IInv

-----------------------------------------------------------------------------
LEMMA DequeInit == Init => IInv /\ Deque!Init
<1> SUFFICES ASSUME Init PROVE IInv /\ Deque!Init
  OBVIOUS
<1>1. /\ top = 0 /\ mem = [a \in 0 .. Cap |-> 0] /\ buffer = <<>>
      /\ at = [w \in Worker |-> "idle"] /\ b = [w \in Worker |-> 0]
      /\ t = [w \in Worker |-> 0]
      /\ item = [w \in Worker |-> NULL] /\ aborted = FALSE
      /\ answer = [worker |-> Owner, thread |-> NULL]
  BY DEF Init
<1>2. at[Owner] = "idle" /\ \A w \in Thief : at[w] = "idle" /\ t[w] = 0
  BY <1>1, WorkerFacts
<1>3. Types
  <2>1. "idle" \in Place /\ NULL \in Int /\ <<>> \in Seq(Stores)
    BY WorkerFacts DEF Place
  <2>2. mem \in [0 .. Cap -> Int] /\ at \in [Worker -> Place] /\ b \in [Worker -> Int]
        /\ t \in [Worker -> Nat] /\ item \in [Worker -> Int]
    BY <1>1, <2>1
  <2> QED
    BY <1>1, <1>2, <2>1, <2>2 DEF Types
<1>4. LogicalBottom = 0
  <2>1. Own = mem /\ mem[BOTTOM] = 0
    BY <1>1, <1>3, EmptyBuffer, WorkerFacts
  <2> QED
    BY <1>2, <2>1 DEF LogicalBottom
<1>5. Bounds /\ Popping /\ InOrder(mem[BOTTOM], buffer)
  <2>1. top <= LogicalBottom /\ LogicalBottom - top <= Cap
    BY <1>1, <1>4, WorkerFacts
  <2> QED
    BY <1>1, <1>2, <2>1, EmptyOrder DEF Bounds, Popping
<1>6. Stealing
  <2>1. \A w \in Thief : t[w] <= top
    BY <1>1, <1>2
  <2>2. \A w \in Thief : ~ Hopeful(w)
    BY <1>2 DEF Hopeful
  <2> QED
    BY <2>1, <2>2 DEF Stealing, StealingAt
<1>7. Queue = <<>>
  BY <1>1, <1>3, <1>4, <1>5, QueueEmpty
<1> QED
  BY <1>1, <1>3, <1>5, <1>6, <1>7 DEF IInv, Deque!Init

LEMMA DequeNext ==
  ASSUME IInv, [Next \/ (aborted /\ UNCHANGED vars)]_vars
  PROVE  IInv' /\ [Deque!Next]_<<Queue, answer, aborted>>
<1>1. CASE UNCHANGED vars
  <2>1. UNCHANGED <<top, mem, buffer, at, b, t, item, answer, aborted>>
    BY <1>1 DEF vars
  <2>2. Own' = Own /\ LogicalBottom' = LogicalBottom
    BY <2>1, OwnIs DEF LogicalBottom
  <2>3. Queue' = Queue
    BY <2>1, <2>2, SameQueue DEF IInv
  <2>4. Stealing'
    BY <2>1, <2>2, ThievesKeep DEF Reach
  <2> QED
    BY <2>1, <2>2, <2>3, <2>4 DEF IInv, Types, Bounds, Popping
<1>2. CASE Drain
  BY <1>2, DrainStep
<1>3. ASSUME NEW x \in Thread, Push(x) PROVE IInv' /\ Deque!Next
  BY <1>3, PushStep DEF Deque!Next
<1>4. CASE PushAborts
  BY <1>4, PushAbortsStep DEF Deque!Next
<1>5. CASE PopClaim
  BY <1>5, PopClaimStep
<1>6. CASE PopEmpty
  BY <1>6, PopEmptyStep DEF Deque!Next
<1>7. CASE PopMany
  BY <1>7, PopManyStep DEF Deque!Next
<1>8. CASE PopLast
  BY <1>8, PopLastStep
<1>9. CASE PopExchange
  BY <1>9, PopExchangeStep DEF Deque!Next
<1>10. ASSUME NEW w \in Thief, StealTop(w) \/ StealBottom(w) \/ StealItem(w) \/ StealExchange(w)
       PROVE  IInv' /\ [Deque!Next]_<<Queue, answer, aborted>>
  <2>1. w \in Worker \ {Owner}
    BY WorkerFacts
  <2>2. CASE StealTop(w)
    BY <2>2, StealTopStep
  <2>3. CASE StealBottom(w)
    BY <2>1, <2>3, StealBottomStep DEF Deque!Next
  <2>4. CASE StealItem(w)
    BY <2>4, StealItemStep
  <2>5. CASE StealExchange(w)
    BY <2>1, <2>5, StealExchangeStep DEF Deque!Next
  <2> QED
    BY <1>10, <2>2, <2>3, <2>4, <2>5
<1> QED
  BY <1>1, <1>2, <1>3, <1>4, <1>5, <1>6, <1>7, <1>8, <1>9, <1>10 DEF Next

(* However many thieves there are, however late the stores of the owner are   *)
(* seen and however large the ring is, the invariant holds: bottom rises in   *)
(* the buffer, no pending store is to a cell that a thief may take, and a     *)
(* thief whose exchange can succeed has the oldest item                       *)
(* (scheduler_mn.c, cl_push_bottom, cl_pop_bottom, cl_steal).                 *)
THEOREM DequeInvariance == Spec => []IInv
<1>1. Init => IInv
  BY DequeInit
<1>2. IInv /\ [Next \/ (aborted /\ UNCHANGED vars)]_vars => IInv'
  BY DequeNext
<1> QED
  BY <1>1, <1>2, PTL DEF Spec

(* The deque of a worker is a deque: each push, pop and steal takes effect at *)
(* one moment, no thread is taken twice, and a pop finds nothing only when    *)
(* there is nothing (scheduler_mn.c, cl_push_bottom, cl_pop_bottom, cl_steal).*)
THEOREM DequeImplements == Spec => DequeSpec
<1>1. Init => Deque!Init
  BY DequeInit
<1>2. IInv /\ [Next \/ (aborted /\ UNCHANGED vars)]_vars => [Deque!Next]_<<Queue, answer, aborted>>
  BY DequeNext
<1> QED
  BY <1>1, <1>2, DequeInvariance, PTL DEF Spec, DequeSpec, Deque!Spec
=============================================================================
