---------------------------- MODULE MonoSyncProofs ----------------------------
(* The invariants of MonoSync for every number of threads, stacks and signals *)
(* and every value of the semaphore, for a client that stops at the first -1. *)
EXTENDS MonoSync, MonoThreadProofs

-------------------------------------------------------------------------------
(* What the operations on the run list leave alone.                           *)

(* A cycle depends on the links of its members only.                          *)
LEMMA CycleLocal ==
  ASSUME NEW L, NEW M, NEW S, Cycle(L, S),
         \A t \in S : M.next[t] = L.next[t] /\ M.prev[t] = L.prev[t]
  PROVE  Cycle(M, S)
<1>1. \A t \in S : L.next[t] \in S /\ L.prev[t] \in S
  BY DEF Cycle, Linked
<1>2. Linked(M, S)
  BY <1>1 DEF Cycle, Linked
<1>3. ASSUME NEW T \in SUBSET S, T # {}, \A t \in T : M.next[t] \in T PROVE T = S
  <2>1. \A t \in T : L.next[t] \in T
    BY <1>3
  <2> QED
    BY <1>3, <2>1 DEF Cycle
<1> QED
  BY <1>2, <1>3 DEF Cycle

(* The operations of scheduler.h write sched_next in members of the list and  *)
(* in the thread they insert.                                                 *)
LEMMA NextFrame ==
  ASSUME NEW D, NEW L \in Links(D), NEW S \in SUBSET D, Cycle(L, S),
         NEW c \in S, NEW t \in D, NEW x \in D \ (S \cup {t})
  PROVE  /\ Enqueue(L, c, t).next[x] = L.next[x]
         /\ Remove(L, c).next[x] = L.next[x]
         /\ t \notin S => Replace(L, c, t).next[x] = L.next[x]
<1>1. L.prev[c] \in S /\ L.next[c] \in S /\ L.next[L.prev[c]] = c
  BY DEF Cycle, Linked
<1>2. Enqueue(L, c, t).next[x] = L.next[x]
  BY <1>1 DEF Enqueue, Links
<1>3. Remove(L, c).next[x] = L.next[x]
  BY <1>1 DEF Remove, Links
<1>4. ASSUME t \notin S PROVE Replace(L, c, t).next[x] = L.next[x]
  <2> DEFINE next1 == [L.next EXCEPT ![t] = L.next[c]]
             prev2 == [[L.prev EXCEPT ![t] = L.prev[c]] EXCEPT ![L.next[c]] = t]
  <2>1. prev2[t] = L.prev[c]
    BY <1>1, <1>4 DEF Links
  <2>2. next1[x] = L.next[x] /\ DOMAIN next1 = D
    BY DEF Links
  <2>3. Replace(L, c, t).next = IF next1[c] = c THEN [next1 EXCEPT ![t] = t]
                                              ELSE [next1 EXCEPT ![prev2[t]] = t]
    BY DEF Replace
  <2> QED
    BY <1>1, <2>1, <2>2, <2>3
<1> QED
  BY <1>2, <1>3, <1>4

-------------------------------------------------------------------------------
(* A wait queue: its threads in order are s, linked by next.                  *)
Threaded(next, q, S, s) ==
  /\ S = {s[i] : i \in 1 .. Len(s)}
  /\ \A i, j \in 1 .. Len(s) : s[i] = s[j] => i = j
  /\ q = [head |-> IF Len(s) = 0 THEN NULL ELSE s[1],
          tail |-> IF Len(s) = 0 THEN NULL ELSE s[Len(s)]]
  /\ \A i \in 1 .. Len(s) : next[s[i]] = IF i = Len(s) THEN NULL ELSE s[i + 1]

IsQueue(next, q, S) == \E s \in Seq(Thread) : Threaded(next, q, S, s)

(* It depends on the links of its threads only.                               *)
LEMMA QueueFrame ==
  ASSUME NEW f, NEW g, NEW q, NEW S, IsQueue(f, q, S), \A t \in S : g[t] = f[t]
  PROVE  IsQueue(g, q, S)
<1>1. PICK s \in Seq(Thread) : Threaded(f, q, S, s)
  BY DEF IsQueue
<1>2. Threaded(g, q, S, s)
  BY <1>1 DEF Threaded
<1> QED
  BY <1>2 DEF IsQueue

(* The empty queue.                                                           *)
LEMMA QueueEmpty == ASSUME NEW f PROVE IsQueue(f, Empty, {})
<1>1. <<>> \in Seq(Thread) /\ Len(<<>>) = 0
  BY EmptySeq
<1>2. Threaded(f, Empty, {}, <<>>)
  BY <1>1 DEF Threaded, Empty
<1> QED
  BY <1>1, <1>2 DEF IsQueue

(* The head and the tail are in the queue, or it is empty.                    *)
LEMMA QueueEnds ==
  ASSUME NEW f, NEW q, NEW S, IsQueue(f, q, S)
  PROVE  /\ S \in SUBSET Thread
         /\ q \in [head : Thread \cup {NULL}, tail : Thread \cup {NULL}]
         /\ q.head = NULL <=> S = {}
         /\ q.tail = NULL <=> S = {}
         /\ S # {} => q.head \in S /\ q.tail \in S /\ f[q.tail] = NULL
<1>1. PICK s \in Seq(Thread) : Threaded(f, q, S, s)
  BY DEF IsQueue
<1>2. Len(s) \in Nat /\ \A i \in 1 .. Len(s) : s[i] \in Thread
  OBVIOUS
<1>3. CASE Len(s) = 0
  BY <1>1, <1>3 DEF Threaded
<1>4. CASE Len(s) # 0
  <2>1. 1 \in 1 .. Len(s) /\ Len(s) \in 1 .. Len(s)
    BY <1>2, <1>4
  <2>2. q.head = s[1] /\ q.tail = s[Len(s)] /\ f[s[Len(s)]] = NULL
    BY <1>1, <1>4, <2>1 DEF Threaded
  <2>3. /\ S = {s[i] : i \in 1 .. Len(s)}
        /\ q = [head |-> s[1], tail |-> s[Len(s)]]
    BY <1>1, <1>4 DEF Threaded
  <2> QED
    BY <1>2, <2>1, <2>2, <2>3, Constants
<1> QED
  BY <1>3, <1>4

(* wq_append adds the thread at the end, and writes sched_next in it and in   *)
(* the old tail only.                                                         *)
LEMMA AppendQueue ==
  ASSUME NEW L \in Links(Thread), NEW q, NEW S, IsQueue(L.next, q, S),
         NEW t \in Thread, t \notin S,
         NEW M, NEW p, M = WqAppend(L, q, t).ring, p = WqAppend(L, q, t).queue
  PROVE  /\ M \in Links(Thread) /\ M.prev = L.prev
         /\ \A x \in Thread \ (S \cup {t}) : M.next[x] = L.next[x]
         /\ IsQueue(M.next, p, S \cup {t})
<1> DEFINE g == M.next
<1>1. PICK s \in Seq(Thread) : Threaded(L.next, q, S, s)
  BY DEF IsQueue
<1>2. PICK r \in Seq(Thread) :
        /\ r = Append(s, t) /\ Len(r) = Len(s) + 1 /\ r[Len(s) + 1] = t
        /\ \A i \in 1 .. Len(s) : r[i] = s[i]
  <2> DEFINE r == Append(s, t)
  <2>1. /\ r \in Seq(Thread) /\ Len(r) = Len(s) + 1 /\ r[Len(s) + 1] = t
        /\ \A i \in 1 .. Len(s) : r[i] = s[i]
    BY AppendProperties
  <2> HIDE DEF r
  <2>2. r = Append(s, t)
    BY DEF r
  <2> QED
    BY <2>1, <2>2
<1>3. Len(s) \in Nat /\ \A i \in 1 .. Len(s) : s[i] \in Thread /\ s[i] # t
  <2>1. Len(s) \in Nat /\ \A i \in 1 .. Len(s) : s[i] \in Thread
    BY <1>1
  <2>2. S = {s[i] : i \in 1 .. Len(s)}
    BY <1>1 DEF Threaded
  <2> QED
    BY <2>1, <2>2
<1>4. /\ q.tail = NULL <=> Len(s) = 0
      /\ Len(s) # 0 => q.head = s[1] /\ q.tail = s[Len(s)] /\ Len(s) \in 1 .. Len(s)
  <2>1. CASE Len(s) = 0
    <3>1. q = [head |-> NULL, tail |-> NULL]
      BY <1>1, <2>1 DEF Threaded
    <3> QED
      BY <2>1, <3>1
  <2>2. CASE Len(s) # 0
    <3>1. Len(s) \in 1 .. Len(s)
      BY <1>3, <2>2
    <3>2. q.head = s[1] /\ q.tail = s[Len(s)]
      BY <1>1, <2>2 DEF Threaded
    <3> QED
      BY <1>3, <2>2, <3>1, <3>2, Constants
  <2> QED
    BY <2>1, <2>2
<1>5. /\ M \in Links(Thread) /\ M.prev = L.prev
      /\ p = [head |-> IF q.tail = NULL THEN t ELSE q.head, tail |-> t]
  BY <1>3, <1>4, Constants DEF WqAppend, Links, NULL
<1>6. \A x \in Thread : g[x] = IF q.tail # NULL /\ x = q.tail THEN t
                               ELSE IF x = t THEN NULL ELSE L.next[x]
  BY <1>3, <1>4 DEF WqAppend, Links
<1> HIDE DEF g
<1>7. \A x \in Thread \ (S \cup {t}) : g[x] = L.next[x]
  <2>1. q.tail # NULL => q.tail \in S
    BY <1>1, <1>4 DEF Threaded
  <2> QED
    BY <1>6, <2>1
<1>8. S \cup {t} = {r[i] : i \in 1 .. Len(r)}
  <2>1. S = {s[i] : i \in 1 .. Len(s)}
    BY <1>1 DEF Threaded
  <2>2. 1 .. Len(r) = (1 .. Len(s)) \cup {Len(s) + 1}
    BY <1>2, <1>3
  <2> QED
    BY <1>2, <2>1, <2>2
<1>9. ASSUME NEW i \in 1 .. Len(r), NEW j \in 1 .. Len(r), r[i] = r[j] PROVE i = j
  <2>1. \A a, b \in 1 .. Len(s) : s[a] = s[b] => a = b
    BY <1>1 DEF Threaded
  <2>2. (i \in 1 .. Len(s) \/ i = Len(s) + 1) /\ (j \in 1 .. Len(s) \/ j = Len(s) + 1)
    BY <1>2, <1>3
  <2> QED
    BY <1>2, <1>3, <1>9, <2>1, <2>2
<1>10. p = [head |-> IF Len(r) = 0 THEN NULL ELSE r[1],
                  tail |-> IF Len(r) = 0 THEN NULL ELSE r[Len(r)]]
  <2>1. Len(r) # 0 /\ r[Len(r)] = t
    BY <1>2, <1>3
  <2>2. r[1] = IF q.tail = NULL THEN t ELSE q.head
    BY <1>2, <1>3, <1>4
  <2> QED
    BY <1>5, <2>1, <2>2
<1>11. ASSUME NEW i \in 1 .. Len(r)
       PROVE  g[r[i]] = IF i = Len(r) THEN NULL ELSE r[i + 1]
  <2>1. CASE i = Len(s) + 1
    <3>1. r[i] = t /\ i = Len(r)
      BY <1>2, <2>1
    <3>2. q.tail # t
      BY <1>3, <1>4, Constants
    <3> QED
      BY <1>6, <3>1, <3>2
  <2>2. CASE i \in 1 .. Len(s)
    <3>1. r[i] = s[i] /\ i # Len(r) /\ s[i] # t /\ s[i] \in Thread
      BY <1>2, <1>3, <2>2
    <3>2. CASE i = Len(s)
      <4>1. q.tail = s[i] /\ q.tail # NULL /\ r[i + 1] = t
        BY <1>2, <1>3, <1>4, <2>2, <3>2
      <4> QED
        BY <1>6, <3>1, <4>1
    <3>3. CASE i # Len(s)
      <4>1. i + 1 \in 1 .. Len(s)
        BY <1>3, <2>2, <3>3
      <4>2. q.tail # s[i]
        BY <1>1, <1>3, <1>4, <2>2, <3>3 DEF Threaded
      <4>3. L.next[s[i]] = s[i + 1] /\ r[i + 1] = s[i + 1]
        BY <1>1, <1>2, <2>2, <3>3, <4>1 DEF Threaded
      <4> QED
        BY <1>6, <3>1, <4>2, <4>3
    <3> QED
      BY <3>2, <3>3
  <2> QED
    BY <1>2, <1>3, <2>1, <2>2
<1>12. Threaded(g, p, S \cup {t}, r)
  BY <1>8, <1>9, <1>10, <1>11 DEF Threaded
<1>13. IsQueue(g, p, S \cup {t})
  BY <1>2, <1>12 DEF IsQueue
<1> QED
  BY <1>5, <1>7, <1>13 DEF g

(* wq_pop takes the first thread out.                                         *)
LEMMA PopQueue ==
  ASSUME NEW L, NEW q, NEW S, IsQueue(L.next, q, S), q.head # NULL
  PROVE  IsQueue(L.next, WqPop(L, q), S \ {q.head})
<1>1. PICK s \in Seq(Thread) : Threaded(L.next, q, S, s)
  BY DEF IsQueue
<1>2. Len(s) \in Nat /\ Len(s) # 0 /\ q.head = s[1] /\ q.tail = s[Len(s)]
  BY <1>1 DEF Threaded
<1>3. s # <<>> /\ 1 \in 1 .. Len(s) /\ Len(s) \in 1 .. Len(s)
  BY <1>2
<1>4. PICK r \in Seq(Thread) :
        r = Tail(s) /\ Len(r) = Len(s) - 1 /\ \A i \in 1 .. Len(r) : r[i] = s[i + 1]
  BY <1>3, HeadTailProperties
<1>5. \A i \in 1 .. Len(s) : s[i] \in Thread
  OBVIOUS
<1>6. S \ {q.head} = {r[i] : i \in 1 .. Len(r)}
  <2>1. S = {s[i] : i \in 1 .. Len(s)} /\ \A i, j \in 1 .. Len(s) : s[i] = s[j] => i = j
    BY <1>1 DEF Threaded
  <2>2. ASSUME NEW x \in S \ {q.head} PROVE x \in {r[i] : i \in 1 .. Len(r)}
    <3>1. PICK i \in 1 .. Len(s) : x = s[i]
      BY <2>1
    <3>2. i # 1
      BY <1>2, <3>1
    <3>3. i - 1 \in 1 .. Len(r) /\ (i - 1) + 1 = i
      BY <1>2, <1>4, <3>2
    <3>4. r[i - 1] = x
      BY <1>4, <3>1, <3>3
    <3> QED
      BY <3>3, <3>4
  <2>3. ASSUME NEW i \in 1 .. Len(r) PROVE r[i] \in S \ {q.head}
    <3>1. i + 1 \in 1 .. Len(s) /\ i + 1 # 1
      BY <1>2, <1>4
    <3> QED
      BY <1>2, <1>3, <1>4, <2>1, <3>1
  <2> QED
    BY <2>2, <2>3
<1>7. ASSUME NEW i \in 1 .. Len(r), NEW j \in 1 .. Len(r), r[i] = r[j] PROVE i = j
  <2>1. i + 1 \in 1 .. Len(s) /\ j + 1 \in 1 .. Len(s) /\ s[i + 1] = s[j + 1]
    BY <1>2, <1>4, <1>7
  <2>2. i + 1 = j + 1
    BY <1>1, <2>1 DEF Threaded
  <2> QED
    BY <2>2
<1>8. ASSUME NEW i \in 1 .. Len(r)
      PROVE  L.next[r[i]] = IF i = Len(r) THEN NULL ELSE r[i + 1]
  <2>1. /\ i + 1 \in 1 .. Len(s) /\ r[i] = s[i + 1] /\ i \in Int
        /\ (i + 1 = Len(s)) <=> (i = Len(r))
    BY <1>2, <1>4
  <2>2. L.next[s[i + 1]] = IF i + 1 = Len(s) THEN NULL ELSE s[(i + 1) + 1]
    BY <1>1, <2>1 DEF Threaded
  <2>3. ASSUME i # Len(r) PROVE r[i + 1] = s[(i + 1) + 1]
    <3>1. Len(r) \in Nat /\ i + 1 \in 1 .. Len(r)
      <4>1. Len(r) \in Nat
        OBVIOUS
      <4> QED
        BY <1>8, <2>3, <4>1
    <3> QED
      BY <1>4, <3>1
  <2> QED
    BY <2>1, <2>2, <2>3
<1>9. WqPop(L, q) = [head |-> IF Len(r) = 0 THEN NULL ELSE r[1],
                     tail |-> IF Len(r) = 0 THEN NULL ELSE r[Len(r)]]
  <2>1. q = [head |-> q.head, tail |-> q.tail]
    BY <1>1 DEF Threaded
  <2>2. L.next[q.head] = IF Len(s) = 1 THEN NULL ELSE s[2]
    <3>1. L.next[s[1]] = IF 1 = Len(s) THEN NULL ELSE s[1 + 1]
      BY <1>1, <1>3 DEF Threaded
    <3> QED
      BY <1>2, <3>1
  <2>3. WqPop(L, q) = [head |-> L.next[q.head],
                       tail |-> IF L.next[q.head] = NULL THEN NULL ELSE q.tail]
    BY <2>1 DEF WqPop
  <2>4. CASE Len(s) = 1
    BY <1>2, <1>4, <2>2, <2>3, <2>4
  <2>5. CASE Len(s) # 1
    <3>1. /\ 2 \in 1 .. Len(s) /\ Len(r) # 0 /\ 1 \in 1 .. Len(r) /\ Len(r) \in 1 .. Len(r)
          /\ Len(r) + 1 = Len(s)
      BY <1>2, <1>4, <2>5
    <3>2. r[1] = s[2] /\ r[Len(r)] = s[Len(s)] /\ s[2] \in Thread
      BY <1>4, <1>5, <3>1
    <3> QED
      BY <1>2, <2>2, <2>3, <2>5, <3>1, <3>2, Constants
  <2> QED
    BY <2>4, <2>5
<1>10. Threaded(L.next, WqPop(L, q), S \ {q.head}, r)
  BY <1>6, <1>7, <1>8, <1>9 DEF Threaded
<1> QED
  BY <1>10 DEF IsQueue

(* A queue has no more threads than there are.                                *)
LEMMA QueueLength ==
  ASSUME NEW f, NEW q, NEW S, NEW s \in Seq(Thread), Threaded(f, q, S, s)
  PROVE  Len(s) <= ThreadCap
<1> DEFINE g == [i \in 1 .. Len(s) |-> s[i]]
<1>1. Len(s) \in Nat /\ \A i \in 1 .. Len(s) : s[i] \in Thread
  OBVIOUS
<1>2. \A i, j \in 1 .. Len(s) : s[i] = s[j] => i = j
  BY DEF Threaded
<1>3. g \in Injection(1 .. Len(s), Thread)
  BY <1>1, <1>2 DEF Injection, IsInjective
<1>4. IsFiniteSet(Thread) /\ Cardinality(Thread) = ThreadCap /\ ThreadCap \in Nat
  <2>1. ThreadCap \in Nat /\ Thread = 1 .. ThreadCap
    BY Constants
  <2>2. IsFiniteSet(Thread) /\ Cardinality(Thread) = IF 1 > ThreadCap THEN 0 ELSE ThreadCap - 1 + 1
    BY <2>1, FS_Interval
  <2> QED
    BY <2>1, <2>2
<1>5. Cardinality(1 .. Len(s)) = Len(s)
  <2>1. PICK m \in Nat : m = Len(s)
    BY <1>1
  <2>2. Cardinality(1 .. m) = IF 1 > m THEN 0 ELSE m - 1 + 1
    BY FS_Interval
  <2>3. Cardinality(1 .. m) = m
    BY <2>2
  <2> QED
    BY <2>1, <2>3
<1> HIDE DEF g
<1>6. Cardinality(1 .. Len(s)) <= Cardinality(Thread)
  BY <1>3, <1>4, FS_Injection
<1> QED
  BY <1>4, <1>5, <1>6

(* The walk of the property along sched_next meets the threads of the queue.  *)
LEMMA ChainOf ==
  ASSUME ring \in Links(Thread), NEW q, NEW S, IsQueue(ring.next, q, S)
  PROVE  Chain(q) = S
<1> DEFINE f == NextOrNull
           walk == Iterate(f, q.head)
           n == Cardinality(Thread \cup {NULL})
<1>1. PICK s \in Seq(Thread) : Threaded(ring.next, q, S, s)
  BY DEF IsQueue
<1>2. n = ThreadCap + 1 /\ n \in Nat /\ ThreadCap \in Nat
  <2>1. ThreadCap \in Nat /\ Thread = 1 .. ThreadCap /\ NULL \notin Thread
    BY Constants
  <2>2. IsFiniteSet(Thread) /\ Cardinality(Thread) = IF 1 > ThreadCap THEN 0 ELSE ThreadCap - 1 + 1
    BY <2>1, FS_Interval
  <2>3. n = Cardinality(Thread) + 1
    BY <2>1, <2>2, FS_AddElement
  <2> QED
    BY <2>1, <2>2, <2>3
<1>3. Len(s) \in Nat /\ Len(s) <= ThreadCap
  BY <1>1, QueueLength
<1>4. DOMAIN f = Thread \cup {NULL} /\ f[NULL] = NULL
      /\ \A t \in Thread : f[t] = ring.next[t]
  BY Constants DEF NextOrNull
<1>5. walk[0] = q.head /\ \A k \in 1 .. n : walk[k] = f[walk[k - 1]]
  <2> HIDE DEF f
  <2>1. n = Cardinality(DOMAIN f)
    BY <1>4
  <2> HIDE DEF n
  <2> QED
    BY <1>2, <2>1, IterateDef
<1> DEFINE Good(k) == walk[k] = IF k < Len(s) THEN s[k + 1] ELSE NULL
<1>6. \A i \in 1 .. Len(s) : s[i] \in Thread /\ ring.next[s[i]] = IF i = Len(s) THEN NULL ELSE s[i + 1]
  <2>1. \A i \in 1 .. Len(s) : s[i] \in Thread
    BY <1>3
  <2> QED
    BY <1>1, <2>1 DEF Threaded
<1>7. q.head = IF Len(s) = 0 THEN NULL ELSE s[1]
  BY <1>1 DEF Threaded
<1> HIDE DEF f, walk, n
<1>8. \A k \in 0 .. n : Good(k)
  <2> DEFINE D == {k \in 0 .. n : ~Good(k)}
  <2>1. SUFFICES ASSUME D # {} PROVE FALSE
    OBVIOUS
  <2>2. PICK m \in D : \A k \in D : m <= k
    <3>1. D \in SUBSET Nat
      BY <1>2
    <3> HIDE DEF D
    <3> QED
      BY <2>1, <3>1, Least
  <2>3. m \in 0 .. n /\ ~Good(m)
    OBVIOUS
  <2>4. m # 0
    <3>1. Good(0)
      BY <1>3, <1>5, <1>7
    <3> QED
      BY <2>3, <3>1
  <2>5. m \in 1 .. n /\ m - 1 \in 0 .. n /\ ~(m <= m - 1)
    BY <1>2, <2>3, <2>4
  <2>6. Good(m - 1)
    BY <2>2, <2>5
  <2>7. walk[m] = f[walk[m - 1]]
    BY <1>5, <2>5
  <2>8. CASE m - 1 < Len(s)
    <3>1. m \in 1 .. Len(s) /\ (m - 1) + 1 = m /\ (m < Len(s) <=> m # Len(s))
      BY <1>3, <2>5, <2>8
    <3>2. walk[m - 1] = s[m]
      BY <2>6, <2>8, <3>1
    <3>3. walk[m] = IF m = Len(s) THEN NULL ELSE s[m + 1]
      BY <1>4, <1>6, <2>7, <3>1, <3>2
    <3> QED
      BY <2>3, <3>1, <3>3
  <2>9. CASE ~(m - 1 < Len(s))
    <3>1. walk[m - 1] = NULL /\ ~(m < Len(s))
      BY <1>3, <2>5, <2>6, <2>9
    <3> QED
      BY <1>4, <2>3, <2>7, <3>1
  <2> QED
    BY <2>8, <2>9
<1>9. Chain(q) = {walk[k] : k \in 0 .. ThreadCap} \ {NULL}
  BY DEF Chain, walk, f
<1>10. S = {s[i] : i \in 1 .. Len(s)}
  BY <1>1 DEF Threaded
<1>11. ASSUME NEW i \in 1 .. Len(s) PROVE s[i] \in Chain(q)
  <2>1. i - 1 \in 0 .. ThreadCap /\ i - 1 \in 0 .. n /\ i - 1 < Len(s) /\ (i - 1) + 1 = i
    BY <1>2, <1>3
  <2>2. walk[i - 1] = s[i]
    BY <1>8, <2>1
  <2> QED
    BY <1>6, <1>9, <2>1, <2>2, Constants
<1>12. ASSUME NEW x \in Chain(q) PROVE x \in S
  <2>1. PICK k \in 0 .. ThreadCap : x = walk[k] /\ x # NULL
    BY <1>9
  <2>2. k \in 0 .. n /\ (k < Len(s) => k + 1 \in 1 .. Len(s))
    BY <1>2, <1>3
  <2>3. Good(k)
    BY <1>8, <2>2
  <2> QED
    BY <1>10, <2>1, <2>2, <2>3
<1> QED
  BY <1>10, <1>11, <1>12
-------------------------------------------------------------------------------
(* What the operations of MonoThread leave alone: the set of the parked and   *)
(* of the woken threads, and the frame and the sched_next of the parked ones, *)
(* none of which starts to run.                                               *)
Undisturbed ==
  \A t \in Thread :
    /\ pc'[t] = "parked" <=> pc[t] = "parked"
    /\ pc'[t] = "woken" <=> pc[t] = "woken"
    /\ pc[t] = "parked" => rsp'[t] = rsp[t] /\ ring'.next[t] = ring.next[t] /\ t # current'

NobodyRunsParked == \A t \in Thread : pc[t] = "parked" => t # current

(* flush_last_created, and what a call makes of the list after it.            *)
LEMMA FlushedNext ==
  ASSUME IInv, phase = "running", pc[current] = "user", NEW u \in Thread, pc[u] = "parked"
  PROVE  /\ u \notin FlushedMembers /\ u # lastCreated /\ u # current
         /\ FlushedRing.next[u] = ring.next[u]
         /\ Remove(FlushedRing, current).next[u] = ring.next[u]
<1>1. u # lastCreated /\ u # current /\ u \notin Members /\ u \notin FlushedMembers
  <2>1. LastOK
    BY CallOK DEF Running
  <2>2. u # current /\ u # lastCreated
    <3>1. lastCreated # NULL => pc[lastCreated] = "fresh"
      BY <2>1 DEF LastOK
    <3> QED
      BY <3>1, Constants
  <2> QED
    BY <2>2 DEF Members, InRing, FlushedMembers
<1>2. FlushedRing.next[u] = ring.next[u]
  <2>1. CASE lastCreated = NULL
    BY <2>1 DEF FlushedRing
  <2>2. CASE lastCreated # NULL
    <3>1. lastCreated \in Thread
      BY <2>2, CallOK DEF TypeOK
    <3>2. current \in Members /\ Members \in SUBSET Thread /\ Cycle(ring, Members)
      BY CallOK DEF Members, InRing, Running
    <3> QED
      BY <1>1, <2>2, <3>1, <3>2, CallOK, Types, NextFrame DEF FlushedRing
  <2> QED
    BY <2>1, <2>2
<1>3. Remove(FlushedRing, current).next[u] = FlushedRing.next[u]
  BY <1>1, CallOK, NextFrame
<1> QED
  BY <1>1, <1>2, <1>3

(* A switch to a ready thread.                                                *)
LEMMA SwitchUndisturbed ==
  ASSUME IInv, phase = "running", pc[current] = "user", NEW n \in FlushedMembers \ {current},
         NEW rsps, \A u \in Thread \ {current} : rsps[u] = rsp[u], DOMAIN rsps = Thread,
         NEW bases, NEW pool, Load(n, rsps, bases, pool),
         ring' \in {FlushedRing, Remove(FlushedRing, current)},
         NEW place \in Pc \ {"parked", "woken"}, pc' = [pc EXCEPT ![current] = place]
  PROVE  Undisturbed
<1>1. current' = n /\ rsp' = [rsps EXCEPT ![n] = "stale"]
  BY DEF Load
<1>2. ASSUME NEW u \in Thread, pc[u] = "parked"
      PROVE  rsp'[u] = rsp[u] /\ ring'.next[u] = ring.next[u] /\ u # current'
  BY <1>1, <1>2, FlushedNext
<1>3. \A u \in Thread : u # current => pc'[u] = pc[u]
  BY CallOK
<1>4. pc'[current] = place
  BY CallOK
<1> QED
  BY <1>2, <1>3, <1>4 DEF Undisturbed

(* A step that writes neither the list nor the running thread.                *)
LEMMA SameListUndisturbed ==
  ASSUME NobodyRunsParked, current \in Thread, UNCHANGED <<current, ring>>,
         \A u \in Thread : pc[u] = "parked" => rsp'[u] = rsp[u],
         \A u \in Thread : pc'[u] # pc[u] => {pc[u], pc'[u]} \cap {"parked", "woken"} = {}
  PROVE  Undisturbed
BY DEF Undisturbed, NobodyRunsParked

(* A thread is run inline, or hands back its place, with the list L.          *)
LEMMA PlaceUndisturbed ==
  ASSUME IInv, phase = "running", pc[current] = "user",
         NEW S \in SUBSET FlushedMembers, NEW L \in Links(Thread), Cycle(L, S), current \in S,
         \A u \in Thread : pc[u] = "parked" => L.next[u] = ring.next[u],
         NEW t \in Thread \ S, ring' = Replace(L, current, t), current' = t,
         pc[t] \notin {"parked", "woken"}, \A u \in Thread \ {t} : rsp'[u] = rsp[u],
         NEW here \in Pc \ {"parked", "woken"}, NEW there \in Pc \ {"parked", "woken"},
         pc' = [pc EXCEPT ![current] = here, ![t] = there]
  PROVE  Undisturbed
<1>1. ASSUME NEW u \in Thread, pc[u] = "parked"
      PROVE  rsp'[u] = rsp[u] /\ ring'.next[u] = ring.next[u] /\ u # current'
  <2>1. u # t /\ u \notin S
    BY <1>1, FlushedNext
  <2>2. Replace(L, current, t).next[u] = L.next[u]
    BY <2>1, NextFrame, CallOK
  <2> QED
    BY <1>1, <2>1, <2>2
<1>2. \A u \in Thread : pc'[u] = IF u = t THEN there ELSE IF u = current THEN here ELSE pc[u]
  BY CallOK
<1> QED
  BY <1>1, <1>2 DEF Undisturbed

LEMMA InlineUndisturbed ==
  ASSUME IInv, NEW t \in Thread, JoinInlineLast(t) \/ JoinInlineFlushed(t)
  PROVE  Undisturbed
<1>1. phase = "running" /\ pc[current] = "user"
  BY JoiningOK DEF JoinInlineLast, JoinInlineFlushed
<1>2. pc' = [pc EXCEPT ![current] = "join", ![t] = "user"] /\ current' = t
  BY DEF JoinInlineLast, JoinInlineFlushed, InlineRun
<1>3. {"join", "user"} \subseteq Pc \ {"parked", "woken"}
  BY DEF Pc
<1>4. CASE JoinInlineLast(t)
  <2>1. lastCreated = t /\ ring' = Replace(ring, current, t) /\ rsp' = rsp
    BY <1>4 DEF JoinInlineLast, InlineRun
  <2>2. LastOK /\ Cycle(ring, Members) /\ t # NULL
    BY <1>1, CallOK, Constants DEF Running
  <2>3. pc[t] = "fresh" /\ t \in Thread \ Members /\ current \in Members
    BY <1>1, <2>1, <2>2, CallOK DEF LastOK, Members, InRing
  <2>4. Members \in SUBSET FlushedMembers
    BY <1>1, CallOK DEF Members, InRing, FlushedMembers
  <2> QED
    BY <1>1, <1>2, <1>3, <2>1, <2>2, <2>3, <2>4, CallOK, Types, PlaceUndisturbed
<1>5. CASE JoinInlineFlushed(t)
  <2> DEFINE L == Remove(FlushedRing, t)
  <2>1. /\ lastCreated # t /\ pc[t] = "fresh" /\ func[t] /\ ring' = Replace(L, current, t)
        /\ rsp' = [rsp EXCEPT ![t] = "null"]
    BY <1>5 DEF JoinInlineFlushed, InlineRun, Unelected
  <2>2. t \in FlushedMembers /\ t # current
    BY <1>1, <2>1, CallOK DEF FlushedMembers
  <2>3. ~Alone(FlushedRing, t)
    BY <1>1, <2>2, CallOK, AloneCycle
  <2>4. L \in Links(Thread) /\ Cycle(L, FlushedMembers \ {t})
    BY <1>1, <2>2, <2>3, CallOK, RemoveCycle
  <2>5. \A u \in Thread : pc[u] = "parked" => L.next[u] = ring.next[u]
    BY <1>1, <2>2, FlushedNext, CallOK, NextFrame
  <2>6. current \in FlushedMembers \ {t} /\ t \notin FlushedMembers \ {t}
    BY <1>1, <2>2, CallOK
  <2>7. \A u \in Thread \ {t} : rsp'[u] = rsp[u]
    BY <1>1, <2>1, CallOK
  <2> HIDE DEF L
  <2>8. FlushedMembers \ {t} \in SUBSET FlushedMembers /\ pc[t] \notin {"parked", "woken"}
    BY <2>1
  <2> QED
    BY <1>1, <1>2, <1>3, <2>1, <2>4, <2>5, <2>6, <2>7, <2>8, PlaceUndisturbed
<1> QED
  BY <1>4, <1>5

LEMMA HandbackUndisturbed ==
  ASSUME IInv, ExitInline \/ ExitToWaiter
  PROVE  Undisturbed
<1>1. phase = "running" /\ pc[current] = "user"
  BY DEF ExitInline, ExitToWaiter, Exiting, Calling
<1>2. PICK t \in Thread :
        /\ pc[t] = "join" /\ t # current /\ current' = t /\ ring' = Replace(ring, current, t)
        /\ \A u \in Thread \ {t} : rsp'[u] = rsp[u]
  <2>1. JoinsOK /\ TypeOK /\ current \in Thread
    BY <1>1, CallOK DEF Running
  <2>2. CASE ExitInline
    <3>1. inliner[current] # NULL /\ current' = inliner[current] /\ rsp' = rsp
          /\ ring' = Replace(ring, current, inliner[current])
      BY <2>2 DEF ExitInline
    <3> QED
      BY <1>1, <2>1, <3>1 DEF JoinsOK, TypeOK
  <2>3. CASE ExitToWaiter
    <3>1. waiting[current] # NULL /\ current' = waiting[current]
          /\ ring' = Replace(ring, current, waiting[current])
          /\ rsp' = [rsp EXCEPT ![waiting[current]] = "stale"]
      BY <2>3 DEF ExitToWaiter, HasJoiner, SwitchTo, Load
    <3>2. waiting[current] \in Thread /\ DOMAIN rsp = Thread
      BY <2>1, <3>1 DEF TypeOK
    <3>3. pc[waiting[current]] = "join" /\ waiting[current] # current
      BY <1>1, <2>1, <3>1 DEF JoinsOK
    <3> QED
      BY <3>1, <3>2, <3>3
  <2> QED
    BY <2>2, <2>3
<1>3. /\ Cycle(ring, Members) /\ current \in Members /\ Members \in SUBSET FlushedMembers
      /\ t \notin Members /\ ring \in Links(Thread) /\ {"done", "join"} \subseteq Pc \ {"parked", "woken"}
  BY <1>1, <1>2, CallOK, Types DEF Running, Members, InRing, FlushedMembers, Pc
<1>4. pc' = [pc EXCEPT ![current] = "done", ![t] = "join"]
  <2>1. pc' = [pc EXCEPT ![current] = "done"]
    BY DEF ExitInline, ExitToWaiter
  <2> QED
    BY <1>1, <1>2, <2>1, CallOK
<1> QED
  BY <1>1, <1>2, <1>3, <1>4, PlaceUndisturbed

(* Every step of MonoThread after which the process runs on.                  *)
LEMMA ThreadsUndisturbed ==
  ASSUME ClientAsserts, IInv, phase = "running" => NobodyRunsParked, Next \/ Ended, phase' = "running"
  PROVE  Undisturbed
<1>1. CASE UNCHANGED vars
  <2>1. phase = "running" /\ UNCHANGED <<current, ring, rsp, pc>>
    BY <1>1 DEF vars
  <2> QED
    BY <2>1, Types, SameListUndisturbed DEF IInv
<1>2. CASE Create
  <2>1. /\ phase = "running" /\ pc[current] = "user" /\ ring' = FlushedRing /\ current' = current
        /\ pc' = [pc EXCEPT ![Alloc(slots)] = "fresh"] /\ rsp' = [rsp EXCEPT ![Alloc(slots)] = "null"]
        /\ ~Exhausted(slots, ThreadCap)
    BY <1>2 DEF Create, Calling
  <2>2. pc[Alloc(slots)] = "free" /\ Alloc(slots) \in Thread
    <3>1. Alloc(slots) \in Thread /\ Alloc(slots) \notin HandedOut(slots)
      BY <2>1, CallOK, Constants, AllocArena DEF Running, SlotsOK
    <3> QED
      BY <2>1, <3>1, CallOK DEF Running, SlotsOK, Live
  <2>3. \A u \in Thread : pc[u] = "parked" => ring'.next[u] = ring.next[u] /\ u # current
    BY <2>1, FlushedNext
  <2> QED
    BY <2>1, <2>2, <2>3, CallOK DEF Undisturbed
<1>3. CASE CreateFails
  BY <1>3 DEF CreateFails, Fail
<1>4. ASSUME NEW t \in Thread, NEW p, SetPriority(t, p) PROVE Undisturbed
  <2>1. phase = "running" /\ UNCHANGED <<current, ring, rsp, pc>>
    BY <1>4 DEF SetPriority, Calling
  <2> QED
    BY <2>1, Types, SameListUndisturbed DEF IInv
<1>5. CASE YieldKeeps
  <2>1. /\ phase = "running" /\ pc[current] = "user" /\ ring' = FlushedRing
        /\ UNCHANGED <<current, rsp, pc>>
    BY <1>5 DEF YieldKeeps, Calling, Flush
  <2> QED
    BY <2>1, FlushedNext DEF Undisturbed
<1>6. CASE YieldSwitches
  <2>1. /\ phase = "running" /\ pc[current] = "user" /\ ~Alone(FlushedRing, current)
        /\ ring' = FlushedRing /\ pc' = [pc EXCEPT ![current] = "yield"]
        /\ Load(YieldNext(FlushedRing), Saved, stackBase, stacks)
    BY <1>6 DEF YieldSwitches, Calling, Flush, Keeps, NobodyReady
  <2>2. YieldNext(FlushedRing) \in FlushedMembers \ {current} /\ "yield" \in Pc \ {"parked", "woken"}
    BY <2>1, Elected DEF Pc
  <2>3. DOMAIN Saved = Thread /\ \A u \in Thread \ {current} : Saved[u] = rsp[u]
    BY <2>1, CallOK DEF Saved
  <2> QED
    BY <2>1, <2>2, <2>3, CallOK, SwitchUndisturbed
<1>7. ASSUME NEW t \in Thread, phase = "running", current \in Thread, pc[current] \in {"user", "join"},
             pc[t] = "done", Cleanup(t)
      PROVE  Undisturbed
  <2>1. pc \in [Thread -> Pc] /\ rsp \in [Thread -> {"null", "saved", "stale"}]
    BY DEF IInv, TypeOK
  <2>2. /\ UNCHANGED <<current, ring>> /\ pc' = [pc EXCEPT ![t] = "free", ![current] = "user"]
        /\ \A u \in Thread \ {t} : rsp'[u] = rsp[u]
    BY <1>7, <2>1 DEF Cleanup
  <2>3. \A u \in Thread : pc'[u] # pc[u] => {pc[u], pc'[u]} \cap {"parked", "woken"} = {}
    BY <1>7, <2>1, <2>2
  <2> QED
    BY <1>7, <2>2, <2>3, SameListUndisturbed
<1>8. ASSUME NEW t \in Thread, Join(t) PROVE Undisturbed
  <2>1. CASE JoinFinished(t)
    BY <1>7, <2>1, CallOK DEF JoinFinished, Joining, Calling
  <2>2. CASE JoinDeadlock(t)
    <3>1. phase = "running" /\ UNCHANGED <<current, ring, rsp, pc>>
      BY <2>2 DEF JoinDeadlock, Joining, Calling
    <3> QED
      BY <3>1, Types, SameListUndisturbed DEF IInv
  <2>3. CASE JoinWait(t)
    <3>1. /\ phase = "running" /\ pc[current] = "user" /\ ~Alone(FlushedRing, current)
          /\ ring' = Remove(FlushedRing, current) /\ pc' = [pc EXCEPT ![current] = "join"]
          /\ Load(PickNext(FlushedRing), Saved, stackBase, stacks)
      BY <2>3 DEF JoinWait, Waited, Accepted, Joining, Calling, NobodyReady, WithoutCurrent,
                  ContextSwitch, SwitchTo
    <3>2. PickNext(FlushedRing) \in FlushedMembers \ {current} /\ "join" \in Pc \ {"parked", "woken"}
      BY <3>1, Elected DEF Pc
    <3>3. DOMAIN Saved = Thread /\ \A u \in Thread \ {current} : Saved[u] = rsp[u]
      BY <3>1, CallOK DEF Saved
    <3> QED
      BY <3>1, <3>2, <3>3, CallOK, SwitchUndisturbed
  <2>4. CASE JoinWaitFails(t)
    BY <2>4 DEF JoinWaitFails, Fail
  <2> QED
    BY <1>8, <2>1, <2>2, <2>3, <2>4, InlineUndisturbed DEF Join
<1>9. CASE Resume
  <2>1. CASE YieldReturn \/ ThreadEntry
    <3>1. /\ phase = "running" /\ UNCHANGED <<current, ring, rsp>>
          /\ pc' = [pc EXCEPT ![current] = "user"] /\ pc[current] \in {"yield", "fresh"}
      BY <2>1 DEF YieldReturn, ThreadEntry, Resumed
    <3>2. \A u \in Thread : pc'[u] # pc[u] => {pc[u], pc'[u]} \cap {"parked", "woken"} = {}
      BY <3>1 DEF IInv, TypeOK
    <3> QED
      BY <3>1, <3>2, Types, SameListUndisturbed DEF IInv
  <2>2. CASE JoinReturn
    <3>1. phase = "running" /\ pc[current] = "join" /\ Cleanup(target[current])
      BY <2>2 DEF JoinReturn, Resumed
    <3>2. /\ current \in Thread /\ target[current] \in Thread
          /\ pc[target[current]] = "done"
      BY <3>1, Types DEF IInv, Running, ResumedOK
    <3> QED
      BY <1>7, <3>1, <3>2
  <2> QED
    BY <1>9, <2>1, <2>2 DEF Resume
<1>10. CASE Finish
  <2>1. CASE ExitSwitches
    <3>1. /\ phase = "running" /\ pc[current] = "user" /\ ~Alone(FlushedRing, current)
          /\ ring' = Remove(FlushedRing, current) /\ pc' = [pc EXCEPT ![current] = "done"]
          /\ Load(PickNext(FlushedRing), rsp, [stackBase EXCEPT ![current] = NULL], PoolAtExit)
      BY <2>1 DEF ExitSwitches, ExitUnjoined, Exiting, Calling, NobodyReady, WithoutCurrent, SwitchTo
    <3>2. PickNext(FlushedRing) \in FlushedMembers \ {current} /\ "done" \in Pc \ {"parked", "woken"}
      BY <3>1, Elected DEF Pc
    <3>3. \A u \in Thread \ {current} : rsp[u] = rsp[u]
      OBVIOUS
    <3> QED
      BY <3>1, <3>2, <3>3, CallOK, SwitchUndisturbed
  <2>2. CASE ExitLast \/ MainReturns
    BY <2>2 DEF ExitLast, MainReturns
  <2> QED
    BY <1>10, <2>1, <2>2, HandbackUndisturbed DEF Finish, Exit
<1> QED
  BY <1>1, <1>2, <1>3, <1>4, <1>5, <1>6, <1>8, <1>9, <1>10 DEF Next, Ended, Operate, YieldDisabled

-------------------------------------------------------------------------------
(* The inductive invariant: that of the threads; a parked thread has saved    *)
(* its registers and does not run; sched_next threads the parked threads into *)
(* the queue of the object they wait for; a mutex has an owner while it is    *)
(* locked; a negative count says how many wait for the semaphore; the flags   *)
(* of the signals say who waits for which.                                    *)
Owners == holders \cup {t \in Thread : pc[t] = "woken" /\ blockedOn[t] = "mutex"}

SyncTypes ==
  /\ locked \in BOOLEAN /\ count \in Int /\ holders \in SUBSET Thread
  /\ blockedOn \in [Thread -> {"none", "mutex", "sem", "sig"}]
  /\ pendingSigs \in [Thread -> SUBSET Sig] /\ waitMask \in [Thread -> SUBSET Sig]
  /\ sigWaiting \in [Thread -> BOOLEAN]

ParkedOK == \A t \in Thread : pc[t] = "parked" => t # current /\ rsp[t] = "saved"
Queued == /\ IsQueue(ring.next, mutexQ, BlockedOn("mutex"))
          /\ IsQueue(ring.next, semQ, BlockedOn("sem"))
Owned == IF locked THEN \E o \in Thread : Owners = {o} ELSE Owners = {}
Signalled == \A t \in Thread :
               /\ sigWaiting[t] <=> t \in BlockedOn("sig")
               /\ sigWaiting[t] => pendingSigs[t] \cap waitMask[t] = {}

Waits == ParkedOK /\ Queued /\ Owned /\ SemCounted /\ Signalled

SInv == IInv /\ SyncTypes /\ (phase = "running" => Waits)

(* thread_mutex_lock may switch to a thread that has no stack yet.  What is    *)
(* left of the invariant then, and what such a step does.                     *)
Gone == phase = "crashed" /\ TypeOK /\ StackPartition

GoesAstray ==
  /\ Gone' /\ pc'[current] = "parked" /\ blockedOn'[current] = "mutex"
  /\ pc[current'] = "fresh" /\ func[current']

SyncInv == SInv \/ Gone

LEMMA SyncInitOK == SyncInit => SInv
<1> SUFFICES ASSUME SyncInit PROVE SInv
  OBVIOUS
<1>1. IInv
  BY InitOK DEF SyncInit
<1>2. SyncTypes
  <2>1. SemInit \in Int
    BY SyncAssumption
  <2> QED
    BY <2>1 DEF SyncInit, SyncTypes
<1>3. \A t \in Thread : pc[t] \notin {"parked", "woken"}
  BY DEF SyncInit, Init
<1>4. BlockedOn("mutex") = {} /\ BlockedOn("sem") = {} /\ BlockedOn("sig") = {} /\ Owners = {}
  BY <1>3 DEF BlockedOn, Owners, SyncInit
<1>5. SemCounted
  BY <1>4, FS_EmptySet, SyncAssumption DEF SyncInit, SemCounted
<1>6. Waits
  BY <1>3, <1>4, <1>5, QueueEmpty DEF SyncInit, Waits, ParkedOK, Queued, Owned, Signalled
<1> QED
  BY <1>1, <1>2, <1>6 DEF SInv

(* What every call finds.                                                     *)
LEMMA SyncCallOK ==
  ASSUME SInv, phase = "running", pc[current] = "user"
  PROVE  /\ IInv /\ SyncTypes /\ Waits /\ current \in Thread /\ pc \in [Thread -> Pc]
         /\ ring \in Links(Thread) /\ current \in Members /\ Members \in SUBSET Thread
         /\ Cycle(ring, Members) /\ TypeOK /\ Running
         /\ \A t \in Thread : pc[t] = "parked" => t \notin Members
BY CallOK, Types DEF SInv, Waits, ParkedOK, Members, InRing, Running

(* A step that leaves the parked and the woken threads where they are, and    *)
(* the fields of the objects.                                                 *)
LEMMA UndisturbedWaits ==
  ASSUME Waits, Undisturbed, UNCHANGED <<locked, mutexQ, count, semQ, blockedOn, holders>>,
         Signalled'
  PROVE  Waits'
<1>1. \A o : BlockedOn(o)' = BlockedOn(o)
  BY DEF Undisturbed, BlockedOn
<1>2. Owners' = Owners
  BY DEF Undisturbed, Owners
<1>3. ParkedOK'
  BY DEF Undisturbed, Waits, ParkedOK
<1>4. \A t \in BlockedOn("mutex") \cup BlockedOn("sem") : ring'.next[t] = ring.next[t]
  BY DEF Undisturbed, BlockedOn
<1>5. Queued'
  BY <1>1, <1>4, QueueFrame DEF Waits, Queued
<1>6. Owned'
  BY <1>2 DEF Waits, Owned
<1>7. SemCounted'
  BY <1>1 DEF Waits, SemCounted
<1> QED
  BY <1>3, <1>5, <1>6, <1>7 DEF Waits

(* A process that runs after a step ran before it.                            *)
LEMMA RanBefore == ASSUME Next \/ Ended, phase' = "running" PROVE phase = "running"
BY DEF Next, Ended, vars, Create, Operate, CreateFails, SetPriority, YieldDisabled, YieldKeeps,
       YieldSwitches, Calling, Join, JoinFinished, JoinDeadlock, JoinInlineLast, JoinInlineFlushed,
       JoinWait, JoinWaitFails, Waited, Accepted, Joining, Resume, YieldReturn, ThreadEntry,
       JoinReturn, Resumed, Finish, Exit, ExitInline, ExitToWaiter, ExitLast, ExitSwitches,
       ExitUnjoined, Exiting, MainReturns

(* The steps of the threads.                                                  *)
LEMMA ThreadStepOK == ASSUME ClientAsserts, SInv, ThreadStep \/ (Ended /\ UNCHANGED syncVars) PROVE SInv'
<1>1. (Next \/ Ended) /\ UNCHANGED syncVars
  BY DEF ThreadStep, Next
<1>2. IInv'
  BY <1>1, StepOK DEF SInv
<1>3. SyncTypes'
  BY <1>1 DEF SInv, SyncTypes, syncVars, sigVars
<1>4. ASSUME phase' = "running" PROVE Waits'
  <2>1. phase = "running" /\ Waits
    BY <1>1, <1>4, RanBefore DEF SInv
  <2>2. Undisturbed
    BY <1>1, <1>4, <2>1, ThreadsUndisturbed DEF SInv, Waits, ParkedOK, NobodyRunsParked
  <2>3. BlockedOn("sig")' = BlockedOn("sig")
    BY <1>1, <2>2 DEF Undisturbed, BlockedOn, syncVars
  <2>4. Signalled'
    BY <1>1, <2>1, <2>3 DEF Waits, Signalled, syncVars, sigVars
  <2> QED
    BY <1>1, <2>1, <2>2, <2>4, UndisturbedWaits DEF syncVars
<1> QED
  BY <1>2, <1>3, <1>4 DEF SInv

LEMMA CreateResetsOK == ASSUME ClientAsserts, SInv, CreateResets PROVE SInv'
<1> DEFINE t == Alloc(slots)
<1>1. /\ Create /\ UNCHANGED <<locked, mutexQ, count, semQ, blockedOn, holders>>
      /\ pendingSigs' = [pendingSigs EXCEPT ![t] = {}]
      /\ waitMask' = [waitMask EXCEPT ![t] = {}]
      /\ sigWaiting' = [sigWaiting EXCEPT ![t] = FALSE]
  BY DEF CreateResets
<1>2. /\ phase = "running" /\ pc[current] = "user" /\ ~Exhausted(slots, ThreadCap)
      /\ phase' = phase /\ pc' = [pc EXCEPT ![t] = "fresh"]
  BY <1>1 DEF Create, Calling
<1>3. IInv' /\ Waits /\ SyncTypes
  BY <1>1, <1>2, CreateStep DEF SInv
<1>4. t \in Thread
  BY <1>2, CallOK, Constants, AllocArena DEF SInv, Running, SlotsOK
<1> HIDE DEF t
<1>5. SyncTypes'
  BY <1>1, <1>3, <1>4 DEF SyncTypes
<1>6. Undisturbed
  BY <1>1, <1>2, <1>3, ThreadsUndisturbed DEF SInv, Waits, ParkedOK, NobodyRunsParked, Next
<1>7. BlockedOn("sig")' = BlockedOn("sig") /\ t \notin BlockedOn("sig")'
  BY <1>1, <1>2, <1>4, <1>6, SyncCallOK DEF Undisturbed, BlockedOn
<1>8. Signalled'
  BY <1>1, <1>3, <1>4, <1>7 DEF Waits, Signalled, SyncTypes
<1>9. Waits'
  BY <1>1, <1>3, <1>6, <1>8, UndisturbedWaits
<1> QED
  BY <1>3, <1>5, <1>9 DEF SInv

-------------------------------------------------------------------------------
(* A blocking call elects without a flush.                                    *)
LEMMA ElectedInRing ==
  ASSUME IInv, phase = "running", pc[current] = "user", current \in Members,
         Members \in SUBSET Thread, ~Alone(ring, current)
  PROVE  /\ PickNext(ring) \in Members \ {current} /\ PickNext(ring) \in Live
         /\ pc[PickNext(ring)] \in {"fresh", "yield", "woken"}
         /\ pc[PickNext(ring)] = "fresh" => func[PickNext(ring)]
         /\ \/ rsp[PickNext(ring)] = "saved"
            \/ /\ rsp[PickNext(ring)] = "null" /\ stackBase[PickNext(ring)] = NULL
               /\ pc[PickNext(ring)] = "fresh"
<1> DEFINE n == PickNext(ring)
<1>1. ring \in Links(Thread) /\ Cycle(ring, Members) /\ FramesOK
  BY CallOK, Types DEF Running
<1>2. n \in Members \ {current}
  <2>1. CASE UsePriority
    <3>1. \A u \in Members : prio[u] \in Int
      <4>1. \A u \in Thread : prio[u] \in PriorityMin .. PriorityMax
        BY CallOK DEF TypeOK
      <4> QED
        BY <4>1, BuildAssumption
    <3> QED
      BY <1>1, <2>1, <3>1, Constants, PickHighestCycle DEF PickNext
  <2>2. CASE ~UsePriority
    BY <1>1, <2>2, AloneCycle DEF PickNext
  <2> QED
    BY <2>1, <2>2
<1> HIDE DEF n
<1>3. /\ n \in Live /\ pc[n] \in {"fresh", "yield", "woken"} /\ (pc[n] = "fresh" => func[n])
  BY <1>2 DEF Members, InRing, Live
<1>4. rsp[n] = "saved" \/ (rsp[n] = "null" /\ stackBase[n] = NULL /\ pc[n] = "fresh")
  BY <1>1, <1>2, <1>3 DEF FramesOK
<1> QED
  BY <1>2, <1>3, <1>4 DEF n

(* The running thread parks, and n goes on.                                   *)
LEMMA ParksOK ==
  ASSUME IInv, phase = "running", pc[current] = "user", NEW n \in Members \ {current},
         pc[n] \in {"fresh", "yield", "woken"}, pc[n] = "fresh" => func[n],
         pc' = [pc EXCEPT ![current] = "parked"],
         ring' \in Links(Thread), Cycle(ring', Members \ {current}),
         current' = n, rsp' = [[rsp EXCEPT ![current] = "saved"] EXCEPT ![n] = "stale"],
         phase' \in {"running", "aborted"},
         stackBase' \in Bases, Parted(stacks', stackBase', Live, pendingDead),
         \A u \in Thread \ {n} : stackBase'[u] = stackBase[u],
         UNCHANGED <<lastCreated, inlineExec, func, waiting, target, inliner, prio, slots, pendingDead>>
  PROVE  IInv'
<1>1. /\ n \in Thread /\ n # current /\ current \in Thread /\ pc \in [Thread -> Pc]
      /\ rsp \in [Thread -> {"null", "saved", "stale"}] /\ Running
  BY CallOK DEF Members
<1>2. \A u \in Thread : pc'[u] = IF u = current THEN "parked" ELSE pc[u]
  BY <1>1
<1>3. \A u \in Thread : rsp'[u] = IF u = n THEN "stale" ELSE IF u = current THEN "saved" ELSE rsp[u]
  BY <1>1
<1>4. pc' \in [Thread -> Pc] /\ rsp' \in [Thread -> {"null", "saved", "stale"}]
  BY <1>1 DEF Pc
<1>5. TypeOK'
  <2>1. stacks' \in [free : Seq(Stack), next : 0 .. StackCap]
    BY DEF Parted, ArenaOK, Stack
  <2> QED
    BY <1>1, <1>4, <2>1, CallOK, Constants DEF TypeOK, Links, NULL, Phase, Bases
<1>6. Live' = Live /\ Members' = Members \ {current}
  BY <1>1, <1>2 DEF Live, Members, InRing
<1>7. SlotsOK' /\ InlineOK' /\ Cycle(ring, Members)'
  BY <1>1, <1>6 DEF Running, SlotsOK, InlineOK
<1>8. LastOK' /\ FramesOK' /\ ResumedOK'
  <2>1. LastOK'
    BY <1>1, <1>2, Constants DEF Running, LastOK
  <2>2. FramesOK'
    BY <1>1, <1>2, <1>3 DEF Running, FramesOK
  <2>3. ResumedOK'
    BY <1>1, <1>2 DEF ResumedOK
  <2> QED
    BY <2>1, <2>2, <2>3
<1>9. JoinsOK'
  <2>1. JoinsOK /\ waiting \in [Thread -> Thread \cup {NULL}] /\ inliner \in [Thread -> Thread \cup {NULL}]
    BY <1>1, CallOK DEF Running, TypeOK
  <2> QED
    BY <1>1, <1>2, <1>3, <2>1 DEF JoinsOK
<1> QED
  BY <1>1, <1>5, <1>6, <1>7, <1>8, <1>9, Assemble DEF Running

(* A thread that parks becomes the last of a wait queue, and the other queue  *)
(* stays as it was.                                                           *)
LEMMA EntersQueue ==
  ASSUME NEW c \in Thread, NEW S \in SUBSET Thread, c \in S, ring \in Links(Thread),
         Cycle(ring, S), ~Alone(ring, c),
         NEW q, NEW Q, IsQueue(ring.next, q, Q), NEW r, NEW R, IsQueue(ring.next, r, R),
         Q \cap R = {}, Q \cap S = {}, R \cap S = {},
         NEW M, NEW p, M = WqAppend(Remove(ring, c), q, c).ring,
         p = WqAppend(Remove(ring, c), q, c).queue
  PROVE  /\ M \in Links(Thread) /\ Cycle(M, S \ {c})
         /\ IsQueue(M.next, p, Q \cup {c}) /\ IsQueue(M.next, r, R)
<1> DEFINE L == Remove(ring, c)
<1>1. L \in Links(Thread) /\ Cycle(L, S \ {c})
  BY RemoveCycle
<1>2. \A x \in Thread \ S : L.next[x] = ring.next[x]
  BY NextFrame
<1>3. Q \in SUBSET Thread /\ R \in SUBSET Thread
  BY QueueEnds
<1> HIDE DEF L
<1>4. IsQueue(L.next, q, Q) /\ IsQueue(L.next, r, R)
  <2>1. (\A x \in Q : L.next[x] = ring.next[x]) /\ (\A x \in R : L.next[x] = ring.next[x])
    BY <1>2, <1>3
  <2> QED
    BY <2>1, QueueFrame
<1>5. M = WqAppend(L, q, c).ring /\ p = WqAppend(L, q, c).queue /\ c \notin Q
  BY DEF L
<1>6. /\ M \in Links(Thread) /\ M.prev = L.prev
      /\ \A x \in Thread \ (Q \cup {c}) : M.next[x] = L.next[x]
      /\ IsQueue(M.next, p, Q \cup {c})
  BY <1>1, <1>4, <1>5, AppendQueue, ZenonT(60)
<1>7. Cycle(M, S \ {c})
  <2>1. \A x \in S \ {c} : M.next[x] = L.next[x] /\ M.prev[x] = L.prev[x]
    BY <1>6
  <2> QED
    BY <1>1, <2>1, CycleLocal
<1>8. IsQueue(M.next, r, R)
  <2>1. \A x \in R : M.next[x] = L.next[x]
    BY <1>3, <1>6
  <2> QED
    BY <1>4, <2>1, QueueFrame
<1> QED
  BY <1>6, <1>7, <1>8

(* What Block does to the sets of the blocked and of the owners.              *)
LEMMA BlockSets ==
  ASSUME SInv, phase = "running", pc[current] = "user",
         NEW object \in {"mutex", "sem", "sig"}, Block(object)
  PROVE  /\ BlockedOn(object)' = BlockedOn(object) \cup {current}
         /\ \A o \in {"mutex", "sem", "sig"} \ {object} : BlockedOn(o)' = BlockedOn(o)
         /\ holders' = holders => Owners' = Owners
         /\ \A o \in {"mutex", "sem", "sig"} : BlockedOn(o) \in SUBSET Thread /\ BlockedOn(o) \cap Members = {}
         /\ \A o, p \in {"mutex", "sem", "sig"} : o # p => BlockedOn(o) \cap BlockedOn(p) = {}
         /\ \A t \in Thread : pc'[t] = "parked" <=> pc[t] = "parked" \/ t = current
         /\ blockedOn' \in [Thread -> {"none", "mutex", "sem", "sig"}]
<1>1. /\ pc' = [pc EXCEPT ![current] = "parked"] /\ blockedOn' = [blockedOn EXCEPT ![current] = object]
      /\ current \in Thread /\ DOMAIN pc = Thread
      /\ blockedOn \in [Thread -> {"none", "mutex", "sem", "sig"}]
      /\ \A t \in Thread : pc[t] = "parked" => t \notin Members
  BY SyncCallOK DEF Block, SyncTypes
<1>2. \A t \in Thread : /\ pc'[t] = IF t = current THEN "parked" ELSE pc[t]
                        /\ blockedOn'[t] = IF t = current THEN object ELSE blockedOn[t]
  BY <1>1
<1>3. \A o, t : t \in BlockedOn(o) <=> t \in Thread /\ pc[t] = "parked" /\ blockedOn[t] = o
  BY DEF BlockedOn
<1>4. \A o, t : t \in BlockedOn(o)' <=> t \in Thread /\ pc'[t] = "parked" /\ blockedOn'[t] = o
  BY DEF BlockedOn
<1>5. BlockedOn(object)' = BlockedOn(object) \cup {current}
  BY <1>1, <1>2, <1>3, <1>4
<1>6. ASSUME NEW o \in {"mutex", "sem", "sig"} \ {object} PROVE BlockedOn(o)' = BlockedOn(o)
  <2>1. current \notin BlockedOn(o) /\ current \notin BlockedOn(o)'
    BY <1>1, <1>2, <1>3, <1>4, <1>6
  <2>2. \A t \in Thread \ {current} : t \in BlockedOn(o)' <=> t \in BlockedOn(o)
    BY <1>2, <1>3, <1>4
  <2>3. BlockedOn(o) \in SUBSET Thread /\ BlockedOn(o)' \in SUBSET Thread
    BY DEF BlockedOn
  <2> QED
    BY <2>1, <2>2, <2>3
<1>7. holders' = holders => Owners' = Owners
  BY <1>1, <1>2 DEF Owners
<1>8. \A o \in {"mutex", "sem", "sig"} : BlockedOn(o) \in SUBSET Thread /\ BlockedOn(o) \cap Members = {}
  BY <1>1, <1>3
<1>9. \A o, p \in {"mutex", "sem", "sig"} : o # p => BlockedOn(o) \cap BlockedOn(p) = {}
  BY <1>3
<1>10. blockedOn' \in [Thread -> {"none", "mutex", "sem", "sig"}]
  BY <1>1
<1> QED
  BY <1>2, <1>5, <1>6, <1>7, <1>8, <1>9, <1>10

(* The state a blocking call leaves: whoever blocks has parked, its frame is  *)
(* saved and another thread runs.                                             *)
LEMMA BlockedState ==
  ASSUME SInv, phase = "running", pc[current] = "user", NEW n \in Members \ {current},
         pc[n] # "parked", current' = n,
         rsp' = [[rsp EXCEPT ![current] = "saved"] EXCEPT ![n] = "stale"],
         \A t \in Thread : pc'[t] = "parked" <=> pc[t] = "parked" \/ t = current
  PROVE  ParkedOK'
<1>1. \A t \in Thread \ {n} : rsp'[t] = IF t = current THEN "saved" ELSE rsp[t]
  BY SyncCallOK DEF TypeOK
<1> QED
  BY <1>1, SyncCallOK DEF Waits, ParkedOK

(* thread_mutex_lock parks.  The thread it elects has saved a frame, or is one *)
(* that has never run.                                                        *)
LEMMA LockParksOK == ASSUME SInv, LockParks PROVE SInv' \/ GoesAstray
<1> DEFINE n == PickNext(ring)
           M == WqAppend(Remove(ring, current), mutexQ, current).ring
           p == WqAppend(Remove(ring, current), mutexQ, current).queue
<1>1. /\ phase = "running" /\ pc[current] = "user" /\ ~Alone(ring, current) /\ Block("mutex")
      /\ locked /\ ring' = M /\ mutexQ' = p /\ current' = n
      /\ rsp' = [rsp EXCEPT ![current] = "saved", ![n] = "stale"]
      /\ phase' = IF rsp[n] = "saved" THEN phase ELSE "crashed"
      /\ UNCHANGED <<lastCreated, inlineExec, func, waiting, target, inliner, stackBase, prio,
                     uf, slots, stacks, pendingDead, locked, count, semQ, sigVars, holders>>
  BY DEF LockParks, Locking, SyncCalling, MustBlock
<1>2. /\ n \in Members \ {current} /\ pc[n] \in {"fresh", "yield", "woken"}
      /\ pc[n] = "fresh" => func[n]
      /\ rsp[n] # "saved" => pc[n] = "fresh" /\ func[n]
  BY <1>1, SyncCallOK, ElectedInRing
<1>3. /\ M \in Links(Thread) /\ Cycle(M, Members \ {current})
      /\ IsQueue(M.next, p, BlockedOn("mutex") \cup {current})
      /\ IsQueue(M.next, semQ, BlockedOn("sem"))
  BY <1>1, SyncCallOK, BlockSets, EntersQueue DEF Waits, Queued
<1> HIDE DEF n, M, p
<1>4. /\ rsp' = [[rsp EXCEPT ![current] = "saved"] EXCEPT ![n] = "stale"]
      /\ pc' = [pc EXCEPT ![current] = "parked"]
  BY <1>1, <1>2, SyncCallOK DEF TypeOK, Block
<1>5. CASE rsp[n] = "saved"
  <2>1. phase' = "running"
    BY <1>1, <1>5
  <2>2. IInv'
    <3>1. stackBase' \in Bases /\ Parted(stacks', stackBase', Live, pendingDead)
      BY <1>1, SyncCallOK, CallOK
    <3>2. \A u \in Thread \ {n} : stackBase'[u] = stackBase[u]
      BY <1>1
    <3>3. IInv
      BY <1>1, SyncCallOK
    <3>4. ring' \in Links(Thread) /\ Cycle(ring', Members \ {current})
      BY <1>1, <1>3
    <3> QED
      BY <1>1, <1>2, <1>4, <2>1, <3>1, <3>2, <3>3, <3>4, ParksOK
  <2>3. SyncTypes'
    BY <1>1, BlockSets DEF SInv, SyncTypes, sigVars
  <2>4. ParkedOK'
    BY <1>1, <1>2, <1>4, BlockSets, BlockedState
  <2>5. Queued'
    BY <1>1, <1>3, BlockSets DEF Queued
  <2>6. Owned' /\ Signalled'
    BY <1>1, SyncCallOK, BlockSets DEF Waits, Owned, Signalled, sigVars
  <2>7. SemCounted'
    BY <1>1, SyncCallOK, BlockSets DEF Waits, SemCounted
  <2> QED
    BY <2>2, <2>3, <2>4, <2>5, <2>6, <2>7 DEF SInv, Waits
<1>6. CASE rsp[n] # "saved"
  <2>1. /\ n \in Thread /\ current \in Thread /\ pc \in [Thread -> Pc] /\ TypeOK
        /\ rsp \in [Thread -> {"null", "saved", "stale"}] /\ stackBase \in Bases
        /\ Parted(stacks, stackBase, Live, pendingDead)
    BY <1>1, <1>2, SyncCallOK, CallOK
  <2>2. pc' \in [Thread -> Pc] /\ rsp' \in [Thread -> {"null", "saved", "stale"}]
    BY <1>4, <2>1 DEF Pc
  <2>3. phase' = "crashed" /\ TypeOK'
    BY <1>1, <1>3, <1>6, <2>1, <2>2, Constants DEF TypeOK, Links, NULL, Phase, Bases
  <2>4. Live' = Live
    BY <1>1, <1>4, <2>1 DEF Live
  <2>5. StackPartition'
    BY <1>1, <2>1, <2>4 DEF StackPartition, Parted
  <2>6. pc'[current] = "parked" /\ blockedOn'[current] = "mutex"
    BY <1>1, <1>4, <2>1, SyncCallOK DEF Block, SyncTypes
  <2>7. pc[current'] = "fresh" /\ func[current']
    BY <1>1, <1>2, <1>6
  <2> QED
    BY <2>3, <2>5, <2>6, <2>7 DEF GoesAstray, Gone
<1> QED
  BY <1>5, <1>6

(* thread_sem_wait and thread_sigwait make a stack for the thread they elect  *)
(* when it has none.                                                          *)
LEMMA SwitchParksOK ==
  ASSUME SInv, phase = "running", pc[current] = "user", ~Alone(ring, current),
         NEW object \in {"sem", "sig"}, Block(object), ContextSwitch(PickNext(ring)),
         ring' \in Links(Thread), Cycle(ring', Members \ {current}),
         UNCHANGED <<lastCreated, inlineExec, func, waiting, target, inliner, prio, slots, pendingDead>>
  PROVE  IInv' /\ ParkedOK'
<1> DEFINE n == PickNext(ring)
<1>1. /\ n \in Members \ {current} /\ n \in Live /\ pc[n] \in {"fresh", "yield", "woken"}
      /\ pc[n] = "fresh" => func[n]
      /\ rsp[n] = "saved" \/ (rsp[n] = "null" /\ stackBase[n] = NULL)
  BY SyncCallOK, ElectedInRing
<1>2. /\ Saved \in [Thread -> {"null", "saved", "stale"}] /\ n \in Thread
      /\ Saved[n] = "saved" \/ (Saved[n] = "null" /\ stackBase[n] = NULL)
  BY <1>1, SyncCallOK, CallOK DEF Saved
<1>3. SwitchTo(n, Saved, stackBase, stacks)
  BY DEF ContextSwitch
<1>4. pc' = [pc EXCEPT ![current] = "parked"]
  BY DEF Block
<1> HIDE DEF n
<1>5. /\ current' = n /\ rsp' = [Saved EXCEPT ![n] = "stale"] /\ phase' \in {"running", "aborted"}
      /\ stackBase' \in Bases /\ Parted(stacks', stackBase', Live, pendingDead)
      /\ \A u \in Thread \ {n} : stackBase'[u] = stackBase[u]
  BY <1>1, <1>2, <1>3, SyncCallOK, CallOK, SwitchOK
<1>6. rsp' = [[rsp EXCEPT ![current] = "saved"] EXCEPT ![n] = "stale"]
  BY <1>5 DEF Saved
<1>7. IInv'
  <2>1. Parted(stacks', stackBase', Live, pendingDead')
    BY <1>5
  <2> QED
    BY <1>1, <1>4, <1>5, <1>6, SyncCallOK, ParksOK
<1>8. ParkedOK'
  <2>1. \A t \in Thread : pc'[t] = "parked" <=> pc[t] = "parked" \/ t = current
    BY BlockSets
  <2>2. pc[n] # "parked"
    BY <1>1
  <2> QED
    BY <1>1, <1>5, <1>6, <2>1, <2>2, BlockedState
<1> QED
  BY <1>7, <1>8

(* A set of blocked threads can be counted.                                   *)
LEMMA CardinalityOfBlocked ==
  IsFiniteSet(BlockedOn("sem")) /\ Cardinality(BlockedOn("sem")) \in Nat
<1>1. BlockedOn("sem") \in SUBSET Thread
  BY DEF BlockedOn
<1> QED
  BY <1>1, Constants, FS_Subset, FS_CardinalityType

LEMMA SemWaitParksOK == ASSUME SInv, SemWaitParks PROVE SInv'
<1> DEFINE M == WqAppend(Remove(ring, current), semQ, current).ring
           p == WqAppend(Remove(ring, current), semQ, current).queue
<1>1. /\ phase = "running" /\ pc[current] = "user" /\ ~Alone(ring, current) /\ Block("sem")
      /\ count' = count - 1 /\ count' < 0 /\ ring' = M /\ semQ' = p /\ ContextSwitch(PickNext(ring))
      /\ UNCHANGED <<lastCreated, inlineExec, func, waiting, target, inliner, prio, uf, slots,
                     pendingDead, locked, mutexQ, sigVars, holders>>
  BY DEF SemWaitParks, SyncCalling, MustBlock
<1>2. /\ M \in Links(Thread) /\ Cycle(M, Members \ {current})
      /\ IsQueue(M.next, p, BlockedOn("sem") \cup {current})
      /\ IsQueue(M.next, mutexQ, BlockedOn("mutex"))
  BY <1>1, SyncCallOK, BlockSets, EntersQueue DEF Waits, Queued
<1> HIDE DEF M, p
<1>3. IInv' /\ ParkedOK'
  BY <1>1, <1>2, SwitchParksOK
<1>4. SyncTypes'
  <2>1. SyncTypes /\ blockedOn' \in [Thread -> {"none", "mutex", "sem", "sig"}]
    BY <1>1, BlockSets DEF SInv
  <2> QED
    BY <1>1, <2>1 DEF SyncTypes, sigVars
<1>5. Queued'
  BY <1>1, <1>2, BlockSets DEF Queued
<1>6. Owned' /\ Signalled'
  BY <1>1, SyncCallOK, BlockSets DEF Waits, Owned, Signalled, sigVars
<1>7. SemCounted'
  <2>1. BlockedOn("sem")' = BlockedOn("sem") \cup {current} /\ current \notin BlockedOn("sem")
    BY <1>1, SyncCallOK, BlockSets
  <2>2. SemCounted /\ count \in Int
    BY <1>1, SyncCallOK DEF Waits, SyncTypes
  <2> QED
    BY <1>1, <2>1, <2>2, CardinalityOfBlocked, FS_AddElement DEF SemCounted
<1> QED
  BY <1>3, <1>4, <1>5, <1>6, <1>7 DEF SInv, Waits

LEMMA SigWaitParksOK ==
  ASSUME SInv, NEW mask \in SUBSET Sig, SigWaitParks(mask) PROVE SInv'
<1>1. /\ phase = "running" /\ pc[current] = "user" /\ ~Alone(ring, current) /\ Block("sig")
      /\ pendingSigs[current] \cap mask = {} /\ ring' = Remove(ring, current)
      /\ waitMask' = [waitMask EXCEPT ![current] = mask]
      /\ sigWaiting' = [sigWaiting EXCEPT ![current] = TRUE]
      /\ ContextSwitch(PickNext(ring))
      /\ UNCHANGED <<lastCreated, inlineExec, func, waiting, target, inliner, prio, uf, slots,
                     pendingDead, locked, mutexQ, count, semQ, pendingSigs, receivedSig, holders>>
  BY DEF SigWaitParks, SyncCalling, MustBlock, SigHit
<1>2. /\ ring' \in Links(Thread) /\ Cycle(ring', Members \ {current})
      /\ \A x \in Thread \ Members : ring'.next[x] = ring.next[x]
  <2>1. /\ ring \in Links(Thread) /\ Cycle(ring, Members) /\ current \in Members
        /\ Members \in SUBSET Thread /\ current \in Thread
    BY <1>1, SyncCallOK
  <2>2. \A x \in Thread \ Members : Remove(ring, current).next[x] = ring.next[x]
    BY <2>1, NextFrame
  <2> QED
    BY <1>1, <2>1, <2>2, RemoveCycle
<1>3. IInv' /\ ParkedOK'
  BY <1>1, <1>2, SwitchParksOK
<1>4. SyncTypes'
  <2>1. SyncTypes /\ blockedOn' \in [Thread -> {"none", "mutex", "sem", "sig"}]
    BY <1>1, BlockSets DEF SInv
  <2> QED
    BY <1>1, <2>1 DEF SyncTypes
<1>5. Queued'
  <2>1. \A o \in {"mutex", "sem"} : BlockedOn(o)' = BlockedOn(o) /\ BlockedOn(o) \in SUBSET (Thread \ Members)
    BY <1>1, BlockSets
  <2>2. \A o \in {"mutex", "sem"} : \A x \in BlockedOn(o) : ring'.next[x] = ring.next[x]
    BY <1>2, <2>1
  <2>3. IsQueue(ring'.next, mutexQ, BlockedOn("mutex")) /\ IsQueue(ring'.next, semQ, BlockedOn("sem"))
    BY <1>1, <2>2, SyncCallOK, QueueFrame DEF Waits, Queued
  <2> QED
    BY <1>1, <2>1, <2>3 DEF Queued
<1>6. Owned'
  BY <1>1, SyncCallOK, BlockSets DEF Waits, Owned
<1>7. Signalled'
  <2>1. BlockedOn("sig")' = BlockedOn("sig") \cup {current} /\ SyncTypes /\ Signalled
    BY <1>1, BlockSets, SyncCallOK DEF Waits
  <2> QED
    BY <1>1, <2>1 DEF Signalled, SyncTypes
<1>8. SemCounted'
  BY <1>1, SyncCallOK, BlockSets DEF Waits, SemCounted
<1> QED
  BY <1>3, <1>4, <1>5, <1>6, <1>7, <1>8 DEF SInv, Waits

-------------------------------------------------------------------------------
(* SYNC_WAKE of a parked thread.                                              *)
LEMMA WakesOK ==
  ASSUME SInv, phase = "running", pc[current] = "user", NEW t \in Thread, pc[t] = "parked",
         Wake(t), SameButRingPc
  PROVE  IInv' /\ ParkedOK'
<1>1. /\ ring' = Enqueue(ring, current, t) /\ pc' = [pc EXCEPT ![t] = "woken"]
      /\ UNCHANGED <<phase, current, lastCreated, inlineExec, rsp, func, waiting,
                     target, inliner, stackBase, prio, uf, slots, stacks, pendingDead>>
  BY DEF Wake, SameButRingPc
<1>2. /\ t # current /\ rsp[t] = "saved" /\ t \notin Members /\ Running /\ TypeOK
      /\ pc \in [Thread -> Pc] /\ current \in Thread
  BY SyncCallOK DEF Waits, ParkedOK
<1>3. \A u \in Thread : pc'[u] = IF u = t THEN "woken" ELSE pc[u]
  BY <1>1, <1>2
<1>4. Live' = Live /\ Members' = Members \cup {t}
  BY <1>1, <1>3 DEF Live, Members, InRing
<1>5. ring' \in Links(Thread) /\ Cycle(ring, Members)'
  BY <1>1, <1>2, <1>4, SyncCallOK, EnqueueCycle
<1>6. pc' \in [Thread -> Pc]
  BY <1>1, <1>2 DEF Pc
<1>7. TypeOK'
  BY <1>1, <1>2, <1>5, <1>6 DEF TypeOK, Links, NULL
<1>8. SlotsOK' /\ InlineOK'
  BY <1>1, <1>2, <1>4 DEF Running, SlotsOK, InlineOK
<1>9. LastOK' /\ FramesOK' /\ ResumedOK'
  BY <1>1, <1>2, <1>3 DEF Running, LastOK, FramesOK, ResumedOK, TypeOK
<1>10. JoinsOK'
  <2>1. JoinsOK /\ waiting \in [Thread -> Thread \cup {NULL}] /\ inliner \in [Thread -> Thread \cup {NULL}]
    BY <1>2 DEF Running, TypeOK
  <2> QED
    BY <1>1, <1>2, <1>3, <2>1, SyncCallOK DEF JoinsOK
<1>11. Parted(stacks', stackBase', Live', pendingDead')
  BY <1>1, <1>4, CallOK, SyncCallOK
<1>12. ParkedOK'
  BY <1>1, <1>3, SyncCallOK DEF Waits, ParkedOK
<1> QED
  BY <1>1, <1>5, <1>7, <1>8, <1>9, <1>10, <1>11, <1>12, Assemble DEF Running

(* What a wakeup does to the sets of the blocked.                             *)
LEMMA WakeSets ==
  ASSUME SInv, phase = "running", pc[current] = "user", NEW t \in Thread, pc[t] = "parked",
         Wake(t), blockedOn' = blockedOn
  PROVE  /\ \A o : BlockedOn(o)' = BlockedOn(o) \ {t}
         /\ \A o : \A x \in BlockedOn(o)' : ring'.next[x] = ring.next[x]
         /\ \A u \in Thread : pc'[u] = IF u = t THEN "woken" ELSE pc[u]
<1>1. ring' = Enqueue(ring, current, t) /\ pc' = [pc EXCEPT ![t] = "woken"]
  BY DEF Wake
<1>2. \A u \in Thread : pc'[u] = IF u = t THEN "woken" ELSE pc[u]
  BY <1>1, SyncCallOK
<1>3. \A o : BlockedOn(o)' = BlockedOn(o) \ {t}
  BY <1>2 DEF BlockedOn
<1>4. \A o : \A x \in BlockedOn(o) \ {t} : x \in Thread \ (Members \cup {t})
  BY SyncCallOK DEF BlockedOn
<1>5. \A x \in Thread \ (Members \cup {t}) : Enqueue(ring, current, t).next[x] = ring.next[x]
  <2>1. ring \in Links(Thread) /\ Cycle(ring, Members) /\ current \in Members /\ Members \in SUBSET Thread
    BY SyncCallOK
  <2> QED
    BY <2>1, NextFrame
<1>6. \A o : \A x \in BlockedOn(o)' : ring'.next[x] = ring.next[x]
  BY <1>1, <1>3, <1>4, <1>5
<1> QED
  BY <1>2, <1>3, <1>6

(* The queue of the object the thread waited for loses its head, and no other *)
(* queue changes.                                                             *)
LEMMA WakeQueues ==
  ASSUME SInv, phase = "running", pc[current] = "user", NEW t \in Thread, pc[t] = "parked",
         Wake(t), blockedOn' = blockedOn,
         NEW o, NEW q, IsQueue(ring.next, q, BlockedOn(o))
  PROVE  /\ t = q.head => IsQueue(ring'.next, WqPop(ring, q), BlockedOn(o)')
         /\ blockedOn[t] # o => IsQueue(ring'.next, q, BlockedOn(o)')
<1>1. /\ BlockedOn(o)' = BlockedOn(o) \ {t} /\ \A x \in BlockedOn(o)' : ring'.next[x] = ring.next[x]
  BY WakeSets
<1>2. ASSUME t = q.head PROVE IsQueue(ring'.next, WqPop(ring, q), BlockedOn(o)')
  <2>1. IsQueue(ring.next, WqPop(ring, q), BlockedOn(o) \ {t})
    BY <1>2, Constants, PopQueue
  <2> QED
    BY <1>1, <2>1, QueueFrame
<1>3. ASSUME blockedOn[t] # o PROVE IsQueue(ring'.next, q, BlockedOn(o)')
  <2>1. BlockedOn(o)' = BlockedOn(o)
    BY <1>1, <1>3 DEF BlockedOn
  <2> QED
    BY <1>1, <2>1, QueueFrame
<1> QED
  BY <1>2, <1>3

-------------------------------------------------------------------------------
(* The calls that touch nothing of the threads.                               *)
LEMMA QuietThreads ==
  ASSUME SInv, UNCHANGED vars, UNCHANGED <<mutexQ, semQ, blockedOn>>
  PROVE  /\ IInv' /\ (phase = "running" => ParkedOK' /\ Queued')
         /\ \A o : BlockedOn(o)' = BlockedOn(o)
<1>1. /\ UNCHANGED phase /\ UNCHANGED Parts /\ prio' = prio /\ pc' = pc /\ rsp' = rsp
      /\ ring' = ring /\ current' = current
  BY DEF vars, Parts
<1>2. IInv'
  BY <1>1, PartsOK DEF SInv, IInv, TypeOK
<1>3. \A o : BlockedOn(o)' = BlockedOn(o)
  BY <1>1 DEF BlockedOn
<1>4. phase = "running" => ParkedOK' /\ Queued'
  BY <1>1, <1>3 DEF SInv, Waits, ParkedOK, Queued
<1> QED
  BY <1>2, <1>3, <1>4

LEMMA LockOK == ASSUME SInv, Lock PROVE SInv'
<1>1. /\ phase = "running" /\ pc[current] = "user" /\ ~locked /\ locked' = TRUE
      /\ holders' = holders \cup {current} /\ UNCHANGED vars
      /\ UNCHANGED <<mutexQ, count, semQ, blockedOn, sigVars>>
  BY DEF Lock, Locking, SyncCalling
<1>2. /\ IInv' /\ ParkedOK' /\ Queued' /\ \A o : BlockedOn(o)' = BlockedOn(o)
      /\ current \in Thread /\ SyncTypes /\ Waits
  BY <1>1, QuietThreads, SyncCallOK
<1>3. SyncTypes'
  BY <1>1, <1>2 DEF SyncTypes, sigVars
<1>4. Owners' = {current}
  BY <1>1, <1>2 DEF Waits, Owned, Owners, vars
<1>5. Owned' /\ Signalled' /\ SemCounted'
  BY <1>1, <1>2, <1>4 DEF Waits, Owned, Signalled, SemCounted, sigVars
<1> QED
  BY <1>2, <1>3, <1>5 DEF SInv, Waits

LEMMA SemWaitOK == ASSUME SInv, SemWait PROVE SInv'
<1>1. /\ phase = "running" /\ pc[current] = "user" /\ count' = count - 1 /\ count' >= 0 /\ UNCHANGED vars
      /\ UNCHANGED <<locked, mutexQ, semQ, blockedOn, sigVars, holders>>
  BY DEF SemWait, SyncCalling
<1>2. /\ IInv' /\ ParkedOK' /\ Queued' /\ (\A o : BlockedOn(o)' = BlockedOn(o)) /\ SyncTypes /\ Waits
  BY <1>1, QuietThreads, SyncCallOK
<1>3. SyncTypes'
  BY <1>1, <1>2 DEF SyncTypes, sigVars
<1>4. Owned' /\ Signalled'
  BY <1>1, <1>2 DEF Waits, Owned, Owners, Signalled, sigVars, vars
<1>5. SemCounted'
  BY <1>1, <1>2 DEF Waits, SemCounted, SyncTypes
<1> QED
  BY <1>2, <1>3, <1>4, <1>5 DEF SInv, Waits

LEMMA SigWaitOK == ASSUME SInv, NEW mask, SigWait(mask) PROVE SInv'
<1> DEFINE s == Min(SigHit(mask))
<1>1. /\ phase = "running" /\ pc[current] = "user" /\ UNCHANGED vars
      /\ pendingSigs' = [pendingSigs EXCEPT ![current] = @ \ {s}]
      /\ UNCHANGED <<locked, mutexQ, count, semQ, blockedOn, waitMask, sigWaiting, receivedSig, holders>>
  BY DEF SigWait, SyncCalling
<1> HIDE DEF s
<1>2. /\ IInv' /\ ParkedOK' /\ Queued' /\ (\A o : BlockedOn(o)' = BlockedOn(o)) /\ SyncTypes /\ Waits
  BY <1>1, QuietThreads, SyncCallOK
<1>3. \A t \in Thread : pendingSigs'[t] \in SUBSET pendingSigs[t]
  BY <1>1, <1>2 DEF SyncTypes
<1>4. SyncTypes'
  BY <1>1, <1>2 DEF SyncTypes
<1>5. Owned' /\ Signalled' /\ SemCounted'
  BY <1>1, <1>2, <1>3 DEF Waits, Owned, Owners, Signalled, SemCounted, vars
<1> QED
  BY <1>2, <1>4, <1>5 DEF SInv, Waits

(* A call returns -1, and the client stops.                                   *)
LEMMA SyncFailOK ==
  ASSUME ClientAsserts, SInv, phase = "running", SyncFail, count' \in Int,
         UNCHANGED <<locked, mutexQ, semQ, blockedOn, sigVars, holders>>
  PROVE  SInv'
<1>1. phase' = "asserted" /\ UNCHANGED Parts /\ prio' = prio
  BY DEF SyncFail, Fail, Parts
<1>2. IInv'
  BY <1>1, PartsOK DEF SInv, IInv, TypeOK
<1>3. SyncTypes'
  BY DEF SInv, SyncTypes, sigVars
<1> QED
  BY <1>1, <1>2, <1>3 DEF SInv

-------------------------------------------------------------------------------
(* thread_mutex_unlock: the mutex is free, or the first waiter owns it.       *)
LEMMA UnlockOK == ASSUME SInv, Unlock PROVE SInv'
<1>1. /\ phase = "running" /\ pc[current] = "user" /\ current \in holders
      /\ holders' = holders \ {current} /\ locked' = (mutexQ.head # NULL)
      /\ mutexQ' = WqPop(ring, mutexQ) /\ SameButRingPc
      /\ UNCHANGED <<count, semQ, blockedOn, sigVars>>
  BY DEF Unlock, SyncCalling, UnlockFrees
<1>2. SyncTypes /\ Waits /\ current \in Thread
  BY <1>1, SyncCallOK
<1>3. Owners = {current} /\ {t \in Thread : pc[t] = "woken" /\ blockedOn[t] = "mutex"} = {}
  <2>1. current \in Owners
    BY <1>1 DEF Owners
  <2>2. Owners = {current}
    BY <1>2, <2>1 DEF Waits, Owned
  <2> QED
    BY <1>1, <2>2 DEF Owners
<1>4. holders' = {}
  BY <1>1, <1>3 DEF Owners
<1>5. SyncTypes'
  BY <1>1, <1>2 DEF SyncTypes, sigVars
<1>6. CASE mutexQ.head = NULL
  <2>1. UNCHANGED vars /\ mutexQ' = mutexQ /\ ~locked'
    BY <1>1, <1>6 DEF Unlock, SameButRingPc, vars, WqPop
  <2>2. IInv' /\ ParkedOK' /\ Queued' /\ \A o : BlockedOn(o)' = BlockedOn(o)
    BY <1>1, <2>1, QuietThreads
  <2>3. Owners' = {}
    BY <1>1, <1>3, <1>4, <2>1 DEF Owners, vars
  <2>4. Owned' /\ Signalled' /\ SemCounted'
    BY <1>1, <1>2, <2>1, <2>2, <2>3 DEF Waits, Owned, Signalled, SemCounted, sigVars
  <2> QED
    BY <1>5, <2>2, <2>4 DEF SInv, Waits
<1>7. CASE mutexQ.head # NULL
  <2> DEFINE t == mutexQ.head
  <2>1. Wake(t) /\ locked'
    BY <1>1, <1>7 DEF Unlock
  <2>2. t \in BlockedOn("mutex")
    BY <1>2, <1>7, QueueEnds DEF Waits, Queued
  <2>3. t \in Thread /\ pc[t] = "parked" /\ blockedOn[t] = "mutex"
    BY <2>2 DEF BlockedOn
  <2>4. IInv' /\ ParkedOK'
    BY <1>1, <2>1, <2>3, WakesOK
  <2>5. /\ \A u \in Thread : pc'[u] = IF u = t THEN "woken" ELSE pc[u]
        /\ (\A o : BlockedOn(o)' = BlockedOn(o) \ {t}) /\ blockedOn' = blockedOn
    BY <1>1, <2>1, <2>3, WakeSets
  <2>6. Queued'
    BY <1>1, <1>2, <2>1, <2>3, <2>5, WakeQueues DEF Waits, Queued
  <2>7. Owners' = {t}
    BY <1>3, <1>4, <2>3, <2>5 DEF Owners
  <2>8. Owned'
    BY <2>1, <2>3, <2>7 DEF Owned
  <2>9. Signalled' /\ SemCounted'
    <3>1. t \notin BlockedOn("sig") /\ t \notin BlockedOn("sem")
      BY <2>3 DEF BlockedOn
    <3>2. BlockedOn("sig")' = BlockedOn("sig") /\ BlockedOn("sem")' = BlockedOn("sem")
      BY <2>5, <3>1
    <3> QED
      BY <1>1, <1>2, <3>2 DEF Waits, Signalled, SemCounted, sigVars
  <2> QED
    BY <1>5, <2>4, <2>6, <2>8, <2>9 DEF SInv, Waits
<1> QED
  BY <1>6, <1>7

(* A wakeup that is not for the mutex.                                        *)
LEMMA WakeOthers ==
  ASSUME SInv, phase = "running", pc[current] = "user", NEW t \in Thread, pc[t] = "parked",
         Wake(t), SameButRingPc, blockedOn[t] # "mutex", UNCHANGED <<locked, mutexQ, blockedOn, holders>>
  PROVE  IInv' /\ ParkedOK' /\ Owned' /\ IsQueue(ring'.next, mutexQ', BlockedOn("mutex")')
<1>1. \A u \in Thread : pc'[u] = IF u = t THEN "woken" ELSE pc[u]
  BY WakeSets
<1>2. Owners' = Owners
  BY <1>1 DEF Owners
<1>3. IsQueue(ring'.next, mutexQ', BlockedOn("mutex")')
  BY WakeQueues, SyncCallOK DEF Waits, Queued
<1>4. Owned'
  BY <1>2, SyncCallOK DEF Waits, Owned
<1> QED
  BY <1>3, <1>4, WakesOK

LEMMA SemPostOK == ASSUME SInv, SemPost PROVE SInv'
<1>1. /\ phase = "running" /\ pc[current] = "user" /\ count' = count + 1 /\ SameButRingPc
      /\ semQ' = IF count' <= 0 THEN WqPop(ring, semQ) ELSE semQ
      /\ IF count' <= 0 /\ semQ.head # NULL THEN Wake(semQ.head) ELSE UNCHANGED <<ring, pc>>
      /\ UNCHANGED <<locked, mutexQ, blockedOn, sigVars, holders>>
  BY DEF SemPost, SyncCalling, WakesOne
<1>2. SyncTypes /\ Waits
  BY <1>1, SyncCallOK
<1>3. SyncTypes'
  BY <1>1, <1>2 DEF SyncTypes, sigVars
<1>4. CASE ~(count' <= 0 /\ semQ.head # NULL)
  <2>1. UNCHANGED vars /\ semQ' = semQ
    BY <1>1, <1>4 DEF SameButRingPc, vars, WqPop
  <2>2. IInv' /\ ParkedOK' /\ Queued' /\ \A o : BlockedOn(o)' = BlockedOn(o)
    BY <1>1, <2>1, QuietThreads
  <2>3. Owned' /\ Signalled'
    BY <1>1, <1>2, <2>1, <2>2 DEF Waits, Owned, Owners, Signalled, sigVars, vars
  <2>4. count >= 0
    <3>1. semQ.head = NULL => BlockedOn("sem") = {}
      BY <1>2, QueueEnds DEF Waits, Queued
    <3>2. CASE semQ.head = NULL
      BY <1>2, <3>1, <3>2, FS_EmptySet DEF Waits, SemCounted, SyncTypes
    <3>3. CASE semQ.head # NULL
      BY <1>1, <1>2, <1>4, <3>3 DEF SyncTypes
    <3> QED
      BY <3>2, <3>3
  <2>5. SemCounted'
    BY <1>1, <1>2, <2>2, <2>4 DEF Waits, SemCounted, SyncTypes
  <2> QED
    BY <1>3, <2>2, <2>3, <2>5 DEF SInv, Waits
<1>5. CASE count' <= 0 /\ semQ.head # NULL
  <2> DEFINE t == semQ.head
  <2>1. Wake(t) /\ semQ' = WqPop(ring, semQ)
    BY <1>1, <1>5
  <2>2. t \in BlockedOn("sem")
    BY <1>2, <1>5, QueueEnds DEF Waits, Queued
  <2>3. t \in Thread /\ pc[t] = "parked" /\ blockedOn[t] = "sem"
    BY <2>2 DEF BlockedOn
  <2>4. IInv' /\ ParkedOK' /\ Owned' /\ IsQueue(ring'.next, mutexQ', BlockedOn("mutex")')
    BY <1>1, <2>1, <2>3, WakeOthers
  <2>5. IsQueue(ring'.next, semQ', BlockedOn("sem")')
    BY <1>1, <1>2, <2>1, <2>3, WakeQueues DEF Waits, Queued
  <2>6. /\ BlockedOn("sig")' = BlockedOn("sig") \ {t} /\ t \notin BlockedOn("sig")
        /\ BlockedOn("sem")' = BlockedOn("sem") \ {t}
    BY <1>1, <2>1, <2>3, WakeSets DEF BlockedOn
  <2>7. Signalled'
    BY <1>1, <1>2, <2>6 DEF Waits, Signalled, sigVars
  <2>8. SemCounted'
    <3>1. Cardinality(BlockedOn("sem")') = Cardinality(BlockedOn("sem")) - 1
      BY <2>2, <2>6, CardinalityOfBlocked, FS_RemoveElement
    <3> QED
      BY <1>1, <1>2, <1>5, <3>1 DEF Waits, SemCounted, SyncTypes
  <2> QED
    BY <1>3, <2>4, <2>5, <2>7, <2>8 DEF SInv, Waits, Queued
<1> QED
  BY <1>4, <1>5

(* thread_kill of a thread that waits for the signal, or of another.          *)
LEMMA KillOK == ASSUME SInv, NEW t \in Thread, NEW s \in Sig, Kill(t, s) PROVE SInv'
<1>1. /\ phase = "running" /\ pc[current] = "user" /\ SameButRingPc
      /\ UNCHANGED <<locked, mutexQ, count, semQ, blockedOn, holders>>
  BY DEF Kill, SyncCalling
<1>2. SyncTypes /\ Waits
  BY <1>1, SyncCallOK
<1>3. CASE Answers(t, s)
  <2>1. /\ pendingSigs' = [pendingSigs EXCEPT ![t] = @ \ {s}]
        /\ sigWaiting' = [sigWaiting EXCEPT ![t] = FALSE]
        /\ waitMask' = [waitMask EXCEPT ![t] = {}] /\ Wake(t) /\ sigWaiting[t]
    BY <1>3 DEF Kill, Answers
  <2>2. pc[t] = "parked" /\ blockedOn[t] = "sig"
    BY <1>2, <2>1 DEF Waits, Signalled, BlockedOn
  <2>3. IInv' /\ ParkedOK' /\ Owned' /\ IsQueue(ring'.next, mutexQ', BlockedOn("mutex")')
    BY <1>1, <2>1, <2>2, WakeOthers
  <2>4. IsQueue(ring'.next, semQ', BlockedOn("sem")')
    BY <1>1, <1>2, <2>1, <2>2, WakeQueues DEF Waits, Queued
  <2>5. \A o : BlockedOn(o)' = BlockedOn(o) \ {t}
    BY <1>1, <2>1, <2>2, WakeSets
  <2>6. SyncTypes'
    BY <1>1, <1>2, <2>1 DEF SyncTypes
  <2>7. Signalled'
    BY <1>2, <2>1, <2>5 DEF Waits, Signalled, SyncTypes
  <2>8. SemCounted'
    <3>1. BlockedOn("sem")' = BlockedOn("sem")
      BY <2>2, <2>5 DEF BlockedOn
    <3> QED
      BY <1>1, <1>2, <3>1 DEF Waits, SemCounted
  <2> QED
    BY <2>3, <2>4, <2>6, <2>7, <2>8 DEF SInv, Waits, Queued
<1>4. CASE ~Answers(t, s)
  <2>1. /\ pendingSigs' = [pendingSigs EXCEPT ![t] = @ \cup {s}]
        /\ UNCHANGED <<receivedSig, sigWaiting, waitMask, ring, pc>>
    BY <1>4 DEF Kill
  <2>2. UNCHANGED vars
    BY <1>1, <2>1 DEF SameButRingPc, vars
  <2>3. IInv' /\ ParkedOK' /\ Queued' /\ \A o : BlockedOn(o)' = BlockedOn(o)
    BY <1>1, <2>2, QuietThreads
  <2>4. SyncTypes'
    BY <1>1, <1>2, <2>1 DEF SyncTypes
  <2>5. Owned'
    BY <1>1, <1>2, <2>1 DEF Waits, Owned, Owners
  <2>6. Signalled'
    BY <1>2, <1>4, <2>1, <2>3 DEF Waits, Signalled, SyncTypes, Answers
  <2>7. SemCounted'
    BY <1>1, <1>2, <2>3 DEF Waits, SemCounted
  <2> QED
    BY <2>3, <2>4, <2>5, <2>6, <2>7 DEF SInv, Waits
<1> QED
  BY <1>3, <1>4

(* A blocked call returns in the thread that was woken.                       *)
LEMMA SyncReturnOK == ASSUME SInv, SyncReturn PROVE SInv'
<1>1. /\ phase = "running" /\ pc[current] = "woken" /\ current \in Thread
      /\ pc \in [Thread -> Pc] /\ Running /\ TypeOK /\ SyncTypes /\ Waits
      /\ Parted(stacks, stackBase, Live, pendingDead)
  BY Types DEF SInv, IInv, SyncReturn, Waits, ParkedOK, TypeOK
<1>2. /\ pc' = [pc EXCEPT ![current] = "user"] /\ blockedOn' = [blockedOn EXCEPT ![current] = "none"]
      /\ holders' = IF blockedOn[current] = "mutex" THEN holders \cup {current} ELSE holders
      /\ UNCHANGED <<phase, current, ring, lastCreated, inlineExec, rsp, func, waiting, target,
                     inliner, stackBase, prio, uf, slots, stacks, pendingDead,
                     locked, mutexQ, count, semQ, sigVars>>
  BY DEF SyncReturn
<1>3. \A t \in Thread : /\ pc'[t] = IF t = current THEN "user" ELSE pc[t]
                        /\ blockedOn'[t] = IF t = current THEN "none" ELSE blockedOn[t]
  BY <1>1, <1>2 DEF SyncTypes
<1>4. Live' = Live /\ Members' = Members
  BY <1>1, <1>2, <1>3 DEF Live, Members, InRing
<1>5. TypeOK' /\ Parted(stacks', stackBase', Live', pendingDead')
  BY <1>1, <1>2, <1>4 DEF TypeOK, Pc
<1>6. SlotsOK' /\ Cycle(ring, Members)' /\ InlineOK'
  BY <1>1, <1>2, <1>4 DEF Running, SlotsOK, InlineOK
<1>7. LastOK' /\ FramesOK' /\ JoinsOK' /\ ResumedOK'
  <2>1. LastOK' /\ FramesOK' /\ ResumedOK'
    BY <1>1, <1>2, <1>3, Constants DEF Running, LastOK, FramesOK, ResumedOK, TypeOK
  <2>2. JoinsOK /\ waiting \in [Thread -> Thread \cup {NULL}] /\ inliner \in [Thread -> Thread \cup {NULL}]
    BY <1>1 DEF Running, TypeOK
  <2>3. JoinsOK'
    BY <1>1, <1>2, <1>3, <2>2 DEF JoinsOK
  <2> QED
    BY <2>1, <2>3
<1>8. IInv'
  BY <1>1, <1>2, <1>5, <1>6, <1>7, Assemble DEF Running
<1>9. SyncTypes'
  BY <1>1, <1>2 DEF SyncTypes, sigVars
<1>10. \A o : BlockedOn(o)' = BlockedOn(o)
  BY <1>1, <1>3 DEF BlockedOn
<1>11. ParkedOK'
  BY <1>1, <1>2, <1>3 DEF Waits, ParkedOK
<1>12. Queued' /\ Signalled' /\ SemCounted'
  BY <1>1, <1>2, <1>10 DEF Waits, Queued, Signalled, SemCounted, sigVars
<1>13. Owners' = Owners
  BY <1>1, <1>2, <1>3 DEF Owners
<1>14. Owned'
  BY <1>1, <1>2, <1>13 DEF Waits, Owned
<1> QED
  BY <1>8, <1>9, <1>11, <1>12, <1>14 DEF SInv, Waits

-------------------------------------------------------------------------------
(* SInv is inductive, but for the switch of a lock that goes astray.          *)
LEMMA SyncStepOK ==
  ASSUME ClientAsserts, SInv, [SyncNext \/ (Ended /\ UNCHANGED syncVars)]_allVars
  PROVE  SInv' \/ GoesAstray
<1>1. CASE UNCHANGED allVars
  <2>1. UNCHANGED vars /\ UNCHANGED syncVars /\ phase' = phase
    BY <1>1 DEF allVars, vars
  <2>2. /\ IInv' /\ (phase = "running" => ParkedOK' /\ Queued')
        /\ \A o : BlockedOn(o)' = BlockedOn(o)
    BY <2>1, QuietThreads DEF syncVars
  <2>3. SyncTypes'
    BY <2>1 DEF SInv, SyncTypes, syncVars, sigVars
  <2>4. phase = "running" => Owned' /\ Signalled' /\ SemCounted'
    BY <2>1, <2>2 DEF SInv, Waits, Owned, Owners, Signalled, SemCounted, syncVars, sigVars, vars
  <2> QED
    BY <2>1, <2>2, <2>3, <2>4 DEF SInv, Waits
<1>2. CASE LockFails \/ \E mask \in (SUBSET Sig) \ {{}} : SigWaitFails(mask)
  <2>1. phase = "running" /\ SyncFail /\ UNCHANGED syncVars
    BY <1>2 DEF LockFails, SigWaitFails, Locking, SyncCalling
  <2>2. count' \in Int
    BY <2>1 DEF SInv, SyncTypes, syncVars
  <2> QED
    BY <2>1, <2>2, SyncFailOK DEF syncVars
<1>3. CASE SemWaitFails
  <2>1. /\ phase = "running" /\ SyncFail /\ count' = count - 1
        /\ UNCHANGED <<locked, mutexQ, semQ, blockedOn, sigVars, holders>>
    BY <1>3 DEF SemWaitFails, SyncCalling
  <2>2. count' \in Int
    BY <2>1 DEF SInv, SyncTypes
  <2> QED
    BY <2>1, <2>2, SyncFailOK
<1>4. CASE \E mask \in (SUBSET Sig) \ {{}} : SigWait(mask) \/ SigWaitParks(mask)
  BY <1>4, SigWaitOK, SigWaitParksOK
<1>5. CASE \E t \in Thread, s \in Sig : Kill(t, s)
  BY <1>5, KillOK
<1> QED
  BY <1>1, <1>2, <1>3, <1>4, <1>5, LockOK, LockParksOK, UnlockOK, SemWaitOK, SemWaitParksOK,
     SemPostOK, SyncReturnOK, CreateResetsOK, ThreadStepOK DEF SyncNext

(* A process that has ended stays as it is.                                   *)
LEMMA GoneOK ==
  ASSUME Gone, [SyncNext \/ (Ended /\ UNCHANGED syncVars)]_allVars
  PROVE  Gone' /\ UNCHANGED vars
<1>1. UNCHANGED vars
  <2>1. CASE UNCHANGED allVars
    BY <2>1 DEF allVars
  <2>2. CASE Ended
    BY <2>2 DEF Ended
  <2>3. CASE SyncNext
    <3>1. phase = "running"
      BY <2>3 DEF SyncNext, Lock, LockFails, LockParks, Locking, Unlock, SemWait, SemWaitFails,
             SemWaitParks, SemPost, Kill, SigWait, SigWaitFails, SigWaitParks, SyncCalling, SyncReturn,
             CreateResets, ThreadStep, Create, Operate, CreateFails, SetPriority, YieldDisabled,
             YieldKeeps, YieldSwitches, Calling, Join, JoinFinished, JoinDeadlock, JoinInlineLast,
             JoinInlineFlushed, JoinWait, JoinWaitFails, Waited, Accepted, Joining, Resume,
             YieldReturn, ThreadEntry, JoinReturn, Resumed, Finish, Exit, ExitInline, ExitToWaiter,
             ExitLast, ExitSwitches, ExitUnjoined, Exiting, MainReturns
    <3> QED
      BY <3>1 DEF Gone
  <2> QED
    BY <2>1, <2>2, <2>3
<1>2. UNCHANGED <<phase, current, ring, lastCreated, inlineExec, pc, rsp, func, waiting, target,
                  inliner, stackBase, prio, slots, stacks, pendingDead>>
  BY <1>1 DEF vars
<1>3. TypeOK'
  BY <1>2 DEF Gone, TypeOK
<1>4. StackPartition'
  BY <1>2 DEF Gone, StackPartition, Live
<1> QED
  BY <1>1, <1>2, <1>3, <1>4 DEF Gone

(* For a client that stops at the first -1, whatever it creates, joins, locks *)
(* and waits for, the invariant holds in every state the process reaches,     *)
(* those apart that follow a lock gone astray.                                *)
THEOREM SyncInvariance ==
  ASSUME ClientAsserts
  PROVE  SyncSpec => []SyncInv
<1>1. SyncInit => SyncInv
  BY SyncInitOK DEF SyncInv
<1>2. SyncInv /\ [SyncNext \/ (Ended /\ UNCHANGED syncVars)]_allVars => SyncInv'
  BY SyncStepOK, GoneOK DEF SyncInv, GoesAstray
<1> QED
  BY <1>1, <1>2, PTL DEF SyncSpec

(* thread_sync.c:141: a process crashes only in thread_mutex_lock, as it      *)
(* parks and elects a thread that has never run.                              *)
THEOREM CrashesCorrect ==
  ASSUME ClientAsserts
  PROVE  SyncSpec => CrashOnlyInLock
<1> DEFINE OnlyInLock == phase = "running" /\ phase' = "crashed" =>
              /\ pc'[current] = "parked" /\ blockedOn'[current] = "mutex"
              /\ pc[current'] = "fresh" /\ func[current']
<1>1. SyncInv /\ [SyncNext \/ (Ended /\ UNCHANGED syncVars)]_allVars => [OnlyInLock]_allVars
  <2> SUFFICES ASSUME SyncInv, [SyncNext \/ (Ended /\ UNCHANGED syncVars)]_allVars,
                      phase = "running", phase' = "crashed"
               PROVE  GoesAstray
    BY DEF GoesAstray
  <2>1. SInv
    BY DEF SyncInv, Gone
  <2>2. ~SInv'
    BY DEF SInv, IInv
  <2> QED
    BY <2>1, <2>2, SyncStepOK
<1> QED
  BY <1>1, SyncInvariance, PTL DEF SyncSpec, CrashOnlyInLock

(* Parking and waking keep the promises of the threads: the list is one cycle *)
(* of the running and the ready threads, no stack is lost or shared, and a    *)
(* joiner comes back to a thread that has finished.                           *)
THEOREM SyncKeepsThreads ==
  ASSUME ClientAsserts
  PROVE  SyncSpec => [](RingOK /\ StackPartition /\ JoinAwaitsFinish)
<1>1. SyncInv => RingOK /\ StackPartition /\ JoinAwaitsFinish
  BY DEF SyncInv, Gone, SInv, IInv, Running, ResumedOK, RingOK, JoinAwaitsFinish
<1> QED
  BY <1>1, SyncInvariance, PTL

(* A locked mutex has one owner, the holder or the waiter that unlock chose,  *)
(* and a free one has none.                                                   *)
THEOREM MutexCorrect ==
  ASSUME ClientAsserts
  PROVE  SyncSpec => []OneOwner
<1>1. SyncInv => OneOwner
  <2> SUFFICES ASSUME SInv, phase = "running" PROVE Cardinality(Owners) = IF locked THEN 1 ELSE 0
    BY DEF SyncInv, Gone, OneOwner, Owners
  <2>1. CASE locked
    <3>1. PICK o \in Thread : Owners = {o}
      BY <2>1 DEF SInv, Waits, Owned
    <3> QED
      BY <2>1, <3>1, FS_Singleton
  <2>2. CASE ~locked
    BY <2>2, FS_EmptySet DEF SInv, Waits, Owned
  <2> QED
    BY <2>1, <2>2
<1> QED
  BY <1>1, SyncInvariance, PTL

(* thread_sync.c:49-51: sched_next threads the waiters of each object into a  *)
(* chain from its head to its tail, although the run list uses the same field,*)
(* and a negative count is the number of threads in the semaphore's.          *)
THEOREM QueuesCorrect ==
  ASSUME ClientAsserts
  PROVE  SyncSpec => []QueuesOK
<1>1. SyncInv => QueuesOK
  <2> SUFFICES ASSUME SInv, phase = "running" PROVE QueueOK(mutexQ, "mutex") /\ QueueOK(semQ, "sem")
    BY DEF SyncInv, Gone, SInv, Waits, QueuesOK
  <2>1. ring \in Links(Thread)
    BY Types DEF SInv, IInv
  <2>2. ASSUME NEW q, NEW o, IsQueue(ring.next, q, BlockedOn(o)) PROVE QueueOK(q, o)
    <3>1. Chain(q) = BlockedOn(o)
      BY <2>1, <2>2, ChainOf
    <3>2. /\ q.head = NULL <=> BlockedOn(o) = {}
          /\ q.tail = NULL <=> BlockedOn(o) = {}
          /\ BlockedOn(o) # {} => q.tail \in BlockedOn(o) /\ ring.next[q.tail] = NULL
      BY <2>2, QueueEnds
    <3> QED
      BY <3>1, <3>2 DEF QueueOK
  <2> QED
    BY <2>2 DEF SInv, Waits, Queued
<1> QED
  BY <1>1, SyncInvariance, PTL

(* No wakeup is lost between thread_kill and thread_sigwait.                  *)
THEOREM SignalsCorrect ==
  ASSUME ClientAsserts
  PROVE  SyncSpec => []NoLostSignal
<1>1. SyncInv => NoLostSignal
  BY DEF SyncInv, Gone, SInv, Waits, Signalled, NoLostSignal
<1> QED
  BY <1>1, SyncInvariance, PTL
=============================================================================
