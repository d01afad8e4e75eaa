--------------------------- MODULE RunQueuesProofs ---------------------------
(* RunQueues for any number of workers and threads: a thread is in one place  *)
(* at a time, and the queues implement AbstractScheduler.                     *)
EXTENDS RunQueues, FiniteSetTheorems, SequenceTheorems, WellFoundedInduction, TLAPS

(* Who has a thread in hand: a worker that runs it or pushes it after its     *)
(* switch, or one of its queues.                                              *)
Kind == {"current", "after", "deque", "injector"}

Holds(k, w, t) ==
  \/ k = "current" /\ current[w] = t
  \/ k = "after" /\ after[w].arg = t
  \/ k = "deque" /\ t \in Range(deque[w])
  \/ k = "injector" /\ t \in Range(injector[w])

(* Nobody has t, except perhaps one.                                          *)
Absent(t, k, w) == \A j \in Kind, v \in Worker : Holds(j, v, t) => j = k /\ v = w

Disjoint == \A t \in Thread, k \in Kind, w \in Worker : Holds(k, w, t) => Absent(t, k, w)

Injective == \A w \in Worker : IsInjective(deque[w]) /\ IsInjective(injector[w])

(* What a worker has in hand follows from where it is.                        *)
InLoop == {"after", "pop", "drain", "flag", "steal", "announce", "lock", "check", "wait",
           "woken", "clear"}
ShapeAt(w) ==
  /\ at[w] = "user" => current[w] # NULL
  /\ at[w] \in InLoop => current[w] = NULL
  /\ at[w] = "after" => after[w].cb # "none" /\ after[w].arg # NULL
  /\ at[w] # "after" => after[w] = NoCallback
  /\ at[w] = "steal" => peer[w] \in Worker

Shape == \A w \in Worker : ShapeAt(w)

IInv == TypeOK /\ Shape /\ Injective /\ Disjoint

-------------------------------------------------------------------------------
(* Sequences without repetition.                                              *)
LEMMA Appended ==
  ASSUME NEW S, NEW s \in Seq(S), NEW x \in S
  PROVE  /\ Append(s, x) \in Seq(S)
         /\ Range(Append(s, x)) = Range(s) \cup {x}
         /\ IsInjective(s) /\ x \notin Range(s) => IsInjective(Append(s, x))
<1> DEFINE u == Append(s, x)
<1>1. /\ u \in Seq(S) /\ Len(u) = Len(s) + 1 /\ u[Len(s) + 1] = x
      /\ \A i \in 1 .. Len(s) : u[i] = s[i]
  OBVIOUS
<1>2. DOMAIN s = 1 .. Len(s) /\ DOMAIN u = 1 .. Len(s) + 1 /\ Len(s) \in Nat
  BY <1>1
<1> HIDE DEF u
<1>3. Range(u) = Range(s) \cup {x}
  BY <1>1, <1>2 DEF Range
<1>4. IsInjective(s) /\ x \notin Range(s) => IsInjective(u)
  BY <1>1, <1>2 DEF Range, IsInjective
<1> QED
  BY <1>1, <1>3, <1>4 DEF u

LEMMA TailTaken ==
  ASSUME NEW S, NEW s \in Seq(S), s # <<>>, IsInjective(s)
  PROVE  /\ Head(s) \in Range(s) /\ Head(s) \in S
         /\ Tail(s) \in Seq(S) /\ IsInjective(Tail(s))
         /\ Range(Tail(s)) = Range(s) \ {Head(s)}
<1> DEFINE u == Tail(s)
<1>1. /\ u \in Seq(S) /\ Len(s) \in Nat \ {0} /\ Len(u) = Len(s) - 1
      /\ \A i \in 1 .. Len(s) - 1 : u[i] = s[i + 1]
      /\ Head(s) = s[1] /\ s[1] \in S
  OBVIOUS
<1>2. DOMAIN s = 1 .. Len(s) /\ DOMAIN u = 1 .. Len(s) - 1
  BY <1>1
<1> HIDE DEF u
<1>3. IsInjective(u)
  BY <1>1, <1>2 DEF IsInjective
<1>4. Range(u) \subseteq Range(s) \ {s[1]}
  <2> SUFFICES ASSUME NEW i \in 1 .. Len(s) - 1 PROVE u[i] \in Range(s) \ {s[1]}
    BY <1>2 DEF Range
  <2> QED
    BY <1>1, <1>2 DEF Range, IsInjective
<1>5. Range(s) \ {s[1]} \subseteq Range(u)
  <2> SUFFICES ASSUME NEW i \in 1 .. Len(s), s[i] # s[1] PROVE s[i] \in Range(u)
    BY <1>2 DEF Range
  <2>1. i - 1 \in 1 .. Len(s) - 1 /\ u[i - 1] = s[(i - 1) + 1] /\ (i - 1) + 1 = i
    BY <1>1
  <2> QED
    BY <1>2, <2>1 DEF Range
<1>6. s[1] \in Range(s)
  BY <1>1, <1>2 DEF Range
<1>7. Range(u) = Range(s) \ {s[1]}
  BY <1>4, <1>5
<1> QED
  BY <1>1, <1>3, <1>6, <1>7 DEF u

LEMMA LastTaken ==
  ASSUME NEW S, NEW s \in Seq(S), s # <<>>, IsInjective(s)
  PROVE  /\ Last(s) \in Range(s) /\ Last(s) \in S
         /\ Front(s) \in Seq(S) /\ IsInjective(Front(s))
         /\ Range(Front(s)) = Range(s) \ {Last(s)}
<1> DEFINE u == SubSeq(s, 1, Len(s) - 1)
<1>1. /\ u \in Seq(S) /\ Len(s) \in Nat \ {0} /\ Len(u) = Len(s) - 1
      /\ \A i \in 1 .. Len(s) - 1 : u[i] = s[i]
      /\ s[Len(s)] \in S
  <2>1. Len(s) \in Nat \ {0} /\ s[Len(s)] \in S /\ DOMAIN s = 1 .. Len(s)
    OBVIOUS
  <2>2. \A i \in 1 .. Len(s) - 1 : s[i] \in S
    BY <2>1
  <2>3. /\ u \in Seq(S) /\ Len(u) = (IF 1 <= Len(s) - 1 THEN Len(s) - 1 - 1 + 1 ELSE 0)
        /\ \A i \in 1 .. Len(s) - 1 - 1 + 1 : u[i] = s[1 + i - 1]
    BY <2>1, <2>2, SubSeqProperties
  <2> QED
    BY <2>1, <2>3
<1>2. DOMAIN s = 1 .. Len(s) /\ DOMAIN u = 1 .. Len(s) - 1
  BY <1>1
<1> HIDE DEF u
<1>3. IsInjective(u)
  BY <1>1, <1>2 DEF IsInjective
<1>4. Range(u) = Range(s) \ {s[Len(s)]}
  BY <1>1, <1>2 DEF Range, IsInjective
<1> QED
  <2>1. s[Len(s)] \in Range(s)
    BY <1>1, <1>2 DEF Range
  <2> QED
    BY <1>1, <1>3, <1>4, <2>1 DEF u, Front, Last

LEMMA NullIsNone == NULL \notin Thread /\ Main \in Thread
BY WorkersAssumption DEF NULL, Main

(* Nowhere says the same of the places of RunQueues.                          *)
LEMMA NowhereAbsent ==
  ASSUME NEW t \in Thread, Nowhere(t), NEW k \in Kind, NEW w \in Worker
  PROVE  ~ Holds(k, w, t)
<1>1. current[w] # t
  <2> SUFFICES ASSUME current[w] = t PROVE FALSE
    OBVIOUS
  <2>1. <<"current", w>> \in Places(t)
    BY DEF Places
  <2> QED
    BY <2>1 DEF Nowhere
<1>2. after[w].arg # t
  <2> SUFFICES ASSUME after[w].arg = t PROVE FALSE
    OBVIOUS
  <2>1. <<"after", w>> \in Places(t)
    BY DEF Places
  <2> QED
    BY <2>1 DEF Nowhere
<1>3. t \notin Range(deque[w])
  <2> SUFFICES ASSUME NEW i \in DOMAIN deque[w], deque[w][i] = t PROVE FALSE
    BY DEF Range
  <2> DEFINE Part(v) == {<<"deque", v, h>> : h \in {j \in DOMAIN deque[v] : deque[v][j] = t}}
  <2>1. <<"deque", w, i>> \in Part(w)
    OBVIOUS
  <2>2. <<"deque", w, i>> \in UNION {Part(v) : v \in Worker}
    BY <2>1
  <2>3. Places(t) # {}
    BY <2>2 DEF Places
  <2> QED
    BY <2>3 DEF Nowhere
<1>4. t \notin Range(injector[w])
  <2> SUFFICES ASSUME NEW i \in DOMAIN injector[w], injector[w][i] = t PROVE FALSE
    BY DEF Range
  <2> DEFINE Part(v) ==
        {<<"injector", v, h>> : h \in {j \in DOMAIN injector[v] : injector[v][j] = t}}
  <2>1. <<"injector", w, i>> \in Part(w)
    OBVIOUS
  <2>2. <<"injector", w, i>> \in UNION {Part(v) : v \in Worker}
    BY <2>1
  <2>3. Places(t) # {}
    BY <2>2 DEF Places
  <2> QED
    BY <2>3 DEF Nowhere
<1> QED
  BY <1>1, <1>2, <1>3, <1>4 DEF Holds

(* A step that brings t to one place, and takes threads from the others.      *)
LEMMA Moved ==
  ASSUME Disjoint, NEW t \in Thread, NEW k \in Kind, NEW w \in Worker, Absent(t, k, w)',
         \A s \in Thread, j \in Kind, v \in Worker : Holds(j, v, s)' => Holds(j, v, s) \/ s = t
  PROVE  Disjoint'
<1> SUFFICES ASSUME NEW s \in Thread, NEW i \in Kind, NEW u \in Worker, Holds(i, u, s)',
                    NEW j \in Kind, NEW v \in Worker, Holds(j, v, s)'
             PROVE  j = i /\ v = u
  BY DEF Disjoint, Absent
<1>1. CASE s = t
  BY <1>1 DEF Absent
<1>2. CASE s # t
  BY <1>2 DEF Disjoint, Absent
<1> QED
  BY <1>1, <1>2

-------------------------------------------------------------------------------
(* What the steps do to the threads in hand.  A push brings to a queue a      *)
(* thread that was nowhere, or that the callback of its worker had.           *)
FromCallback(w, t) ==
  /\ Absent(t, "after", w)
  /\ \/ after' = after /\ after[w].arg # t
     \/ after' = [after EXCEPT ![w] = NoCallback]

LEMMA CallbackGone ==
  ASSUME TypeOK, NEW w \in Worker, NEW t \in Thread, FromCallback(w, t)
  PROVE  \A v \in Worker : after'[v].arg # t /\ after'[v].arg \in {after[v].arg, NULL}
<1>1. \A v \in Worker : v # w => after[v].arg # t
  BY DEF FromCallback, Absent, Holds, Kind
<1> QED
  BY <1>1, NullIsNone DEF TypeOK, FromCallback, NoCallback

LEMMA Pushed ==
  ASSUME IInv, NEW w \in Worker, NEW t \in Thread, FromCallback(w, t),
         deque' = [deque EXCEPT ![w] = Append(@, t)], UNCHANGED <<current, injector>>
  PROVE  /\ deque' \in [Worker -> Seq(Thread)] /\ Injective' /\ Disjoint'
         /\ Queued' = Queued \cup {t}
<1>1. /\ t \notin Range(deque[w])
      /\ \A v \in Worker : /\ current[v] # t /\ t \notin Range(injector[v])
                           /\ t \notin Range(deque[v])
  BY DEF FromCallback, Absent, Holds, Kind
<1>2. /\ \A v \in Worker : deque[v] \in Seq(Thread) /\ IsInjective(deque[v])
      /\ \A v \in Worker \ {w} : deque'[v] = deque[v]
      /\ deque'[w] = Append(deque[w], t)
      /\ \A v \in Worker : IsInjective(injector'[v])
      /\ deque' = [v \in Worker |-> deque'[v]]
  BY DEF IInv, TypeOK, Injective
<1>3. /\ deque'[w] \in Seq(Thread) /\ IsInjective(deque'[w])
      /\ Range(deque'[w]) = Range(deque[w]) \cup {t}
  BY <1>1, <1>2, Appended
<1>4. Disjoint'
  <2>1. \A v \in Worker : after'[v].arg # t /\ after'[v].arg \in {after[v].arg, NULL}
    BY CallbackGone DEF IInv
  <2>2. Absent(t, "deque", w)'
    BY <1>1, <1>2, <2>1 DEF Absent, Holds, Kind
  <2>3. ASSUME NEW s \in Thread, NEW j \in Kind, NEW v \in Worker, Holds(j, v, s)'
        PROVE  Holds(j, v, s) \/ s = t
    BY <1>2, <1>3, <2>1, <2>3, NullIsNone DEF Holds, Kind
  <2> QED
    BY <2>2, <2>3, Moved DEF IInv, Kind
<1>5. Queued' = Queued \cup {t}
  BY <1>2, <1>3 DEF Queued
<1>6. deque' \in [Worker -> Seq(Thread)] /\ Injective'
  BY <1>2, <1>3 DEF Injective
<1> QED
  BY <1>4, <1>5, <1>6

LEMMA Injected ==
  ASSUME IInv, NEW w \in Worker, NEW x \in Worker, NEW t \in Thread, FromCallback(w, t),
         injector' = [injector EXCEPT ![x] = Append(@, t)], UNCHANGED <<current, deque>>
  PROVE  /\ injector' \in [Worker -> Seq(Thread)] /\ Injective' /\ Disjoint'
         /\ Queued' = Queued \cup {t}
<1>1. \A v \in Worker : current[v] # t /\ t \notin Range(injector[v]) /\ t \notin Range(deque[v])
  BY DEF FromCallback, Absent, Holds, Kind
<1>2. /\ \A v \in Worker : injector[v] \in Seq(Thread) /\ IsInjective(injector[v])
      /\ \A v \in Worker \ {x} : injector'[v] = injector[v]
      /\ injector'[x] = Append(injector[x], t)
      /\ \A v \in Worker : IsInjective(deque'[v])
      /\ injector' = [v \in Worker |-> injector'[v]]
  BY DEF IInv, TypeOK, Injective
<1>3. /\ injector'[x] \in Seq(Thread) /\ IsInjective(injector'[x])
      /\ Range(injector'[x]) = Range(injector[x]) \cup {t}
  BY <1>1, <1>2, Appended
<1>4. Disjoint'
  <2>1. \A v \in Worker : after'[v].arg # t /\ after'[v].arg \in {after[v].arg, NULL}
    BY CallbackGone DEF IInv
  <2>2. Absent(t, "injector", x)'
    BY <1>1, <1>2, <2>1 DEF Absent, Holds, Kind
  <2>3. ASSUME NEW s \in Thread, NEW j \in Kind, NEW v \in Worker, Holds(j, v, s)'
        PROVE  Holds(j, v, s) \/ s = t
    BY <1>2, <1>3, <2>1, <2>3, NullIsNone DEF Holds, Kind
  <2> QED
    BY <2>2, <2>3, Moved DEF IInv, Kind
<1>5. Queued' = Queued \cup {t}
  BY <1>2, <1>3 DEF Queued
<1>6. injector' \in [Worker -> Seq(Thread)] /\ Injective'
  BY <1>2, <1>3 DEF Injective
<1> QED
  BY <1>4, <1>5, <1>6

(* A switch gives the thread of w, or one that was nowhere, to the callback.  *)
LEMMA Switched ==
  ASSUME IInv, NEW w \in Worker, NEW c, UNCHANGED <<deque, injector>>,
         current' = [current EXCEPT ![w] = NULL], after' = [after EXCEPT ![w] = c],
         \/ c.arg = NULL
         \/ c.arg \in Thread /\ Absent(c.arg, "current", w)
  PROVE  Injective' /\ Disjoint' /\ Queued' = Queued
<1>1. /\ \A v \in Worker \ {w} : current'[v] = current[v] /\ after'[v] = after[v]
      /\ current'[w] = NULL /\ after'[w] = c
  BY DEF IInv, TypeOK
<1>2. Injective' /\ Queued' = Queued
  BY DEF IInv, Injective, Queued
<1>3. ASSUME NEW s \in Thread, NEW j \in Kind, NEW v \in Worker, Holds(j, v, s)'
      PROVE  Holds(j, v, s) \/ s = c.arg
  BY <1>1, <1>3, NullIsNone DEF Holds, Kind
<1>4. CASE c.arg = NULL
  <2>1. ASSUME NEW s \in Thread, NEW j \in Kind, NEW v \in Worker, Holds(j, v, s)'
        PROVE  Holds(j, v, s)
    BY <1>3, <1>4, <2>1, NullIsNone
  <2> QED
    BY <1>2, <2>1 DEF IInv, Disjoint, Absent
<1>5. CASE c.arg \in Thread /\ Absent(c.arg, "current", w)
  <2>1. Absent(c.arg, "after", w)'
    BY <1>1, <1>5, NullIsNone DEF Absent, Holds, Kind
  <2> QED
    BY <1>2, <1>3, <1>5, <2>1, Moved DEF IInv, Kind
<1> QED
  BY <1>4, <1>5

(* A pop, a drain or a steal gives a thread of a queue to w.                  *)
TakenFrom(k, x, t) ==
  \A v \in Worker :
    /\ Range(deque'[v]) = Range(deque[v]) \ (IF k = "deque" /\ v = x THEN {t} ELSE {})
    /\ Range(injector'[v]) = Range(injector[v]) \ (IF k = "injector" /\ v = x THEN {t} ELSE {})

LEMMA Taken ==
  ASSUME IInv, NEW w \in Worker, NEW t \in Thread, NEW k \in {"deque", "injector"},
         NEW x \in Worker, Holds(k, x, t), UNCHANGED after,
         current[w] = NULL, current' = [current EXCEPT ![w] = t],
         TakenFrom(k, x, t)
  PROVE  Disjoint' /\ t \in Queued /\ Queued' = Queued \ {t}
<1>1. Absent(t, k, x)
  BY DEF IInv, Disjoint, Kind
<1>2. (\A v \in Worker \ {w} : current'[v] = current[v]) /\ current'[w] = t
  BY DEF IInv, TypeOK
<1>3. Absent(t, "current", w)'
  BY <1>1, <1>2 DEF Absent, Holds, Kind, TakenFrom
<1>4. ASSUME NEW s \in Thread, NEW j \in Kind, NEW v \in Worker, Holds(j, v, s)'
      PROVE  Holds(j, v, s) \/ s = t
  BY <1>2, <1>4 DEF Holds, Kind, TakenFrom
<1>5. Disjoint'
  BY <1>3, <1>4, Moved DEF IInv, Kind
<1>6. t \in Queued
  BY DEF Holds, Queued
<1>7. \A v \in Worker :
        Range(deque'[v]) \cup Range(injector'[v]) = (Range(deque[v]) \cup Range(injector[v])) \ {t}
  BY <1>1 DEF Absent, Holds, Kind, TakenFrom
<1>8. Queued' = Queued \ {t}
  BY <1>7 DEF Queued
<1> QED
  BY <1>5, <1>6, <1>8

-------------------------------------------------------------------------------
LEMMA MinIn ==
  ASSUME NEW S \in SUBSET Worker, S # {} PROVE Min(S) \in S
<1> DEFINE T == {0 .. k : k \in S}
<1>1. Worker \subseteq Nat /\ IsFiniteSet(Worker) /\ \A k \in Worker : 0 .. k \subseteq Worker
  BY WorkersAssumption, FS_Interval DEF Worker
<1>2. T \subseteq FiniteSubsetsOf(Worker) /\ T # {}
  <2>1. FiniteSubsetsOf(Worker) = SUBSET Worker
    BY <1>1, FS_FiniteSubsetsOfFinite
  <2>2. \A k \in S : 0 .. k \in FiniteSubsetsOf(Worker)
    BY <1>1, <2>1
  <2>3. PICK k \in S : TRUE
    OBVIOUS
  <2>4. 0 .. k \in T
    OBVIOUS
  <2> QED
    BY <2>2, <2>4
<1>3. PICK u \in T : \A v \in T : <<v, u>> \notin StrictSubsetOrdering(Worker)
  BY <1>2, FS_StrictSubsetOrderingWellFounded, WFMin
<1>4. PICK x \in S : u = 0 .. x
  OBVIOUS
<1>5. ASSUME NEW y \in S, y < x PROVE FALSE
  <2>1. 0 .. y \in T /\ 0 .. y \in SUBSET Worker /\ u \in SUBSET Worker
    BY <1>1, <1>4
  <2>2. 0 .. y \subseteq u /\ x \in u /\ x \notin 0 .. y
    BY <1>1, <1>4, <1>5
  <2> QED
    BY <1>3, <2>1, <2>2 DEF StrictSubsetOrdering
<1>6. \A y \in S : x =< y
  BY <1>1, <1>5
<1> QED
  BY <1>6 DEF Min

LEMMA NextWorker ==
  ASSUME NEW i \in Nat PROVE (i + 1) % NWorkers \in Worker
BY WorkersAssumption DEF Worker

LEMMA WorkerIsNat == NWorkers \in Nat \ {0} /\ Worker \subseteq 0 .. NWorkers /\ 0 \in Worker
BY WorkersAssumption DEF Worker

LEMMA Gone ==
  ASSUME TypeOK, NEW w \in Worker, NEW p \in Place, Go(w, p)
  PROVE  at' \in [Worker -> Place] /\ at'[w] = p /\ \A v \in Worker \ {w} : at'[v] = at[v]
BY DEF TypeOK, Go

LEMMA Signalled ==
  ASSUME TypeOK, NEW w \in Worker, NEW v, NEW back \in Place, back # "wait", SignalTo(w, v, back)
  PROVE  /\ at' \in [Worker -> Place] /\ at'[w] = back
         /\ \A u \in Worker \ {w} : at'[u] = at[u] \/ (at[u] = "wait" /\ at'[u] = "woken")
<1>1. "woken" \in Place
  BY DEF Place
<1> QED
  BY <1>1 DEF TypeOK, SignalTo

(* A step of w keeps the shape of the others, and may wake one.               *)
LEMMA ShapeKept ==
  ASSUME Shape, NEW w \in Worker, ShapeAt(w)',
         \A v \in Worker \ {w} : /\ at'[v] = at[v] \/ (at[v] = "wait" /\ at'[v] = "woken")
                                 /\ current'[v] = current[v] /\ after'[v] = after[v]
                                 /\ peer'[v] = peer[v]
  PROVE  Shape'
<1> SUFFICES ASSUME NEW v \in Worker, v # w PROVE ShapeAt(v)'
  BY DEF Shape
<1> QED
  BY DEF Shape, ShapeAt, InLoop

Hands == <<current, after, deque, injector>>

(* Steps that leave every thread where it is.                                 *)
Quiet(w) ==
  \/ WakeOne(w) \/ WakeSpecific(w) \/ Signal(w) \/ Broadcast(w) \/ Shutdown(w)
  \/ StealFails(w) \/ Continue(w) \/ Announce(w) \/ LookAgain(w) \/ Sleep(w)
  \/ SpuriousWakeup(w) \/ GetUp(w) \/ Clear(w)

LEMMA QuietHands ==
  ASSUME IInv, UNCHANGED Hands PROVE Injective' /\ Disjoint' /\ Queued' = Queued
BY DEF Hands, IInv, Injective, Disjoint, Absent, Holds, Queued

LEMMA BackShape ==
  ASSUME NEW w \in Worker
  PROVE  Back(w) \in {"user", "pop"} /\ (Back(w) = "user" <=> current[w] # NULL)
BY DEF Back

LEMMA QuietStep ==
  ASSUME IInv, NEW w \in Worker, Quiet(w)
  PROVE  IInv' /\ UNCHANGED Hands /\ Queued' = Queued
<1> USE DEF Queues
<1>1. UNCHANGED Hands
  BY DEF Quiet, Hands, WakeOne, WakeSpecific, Signal, Broadcast, Shutdown, StealFails, Continue,
         Announce, LookAgain, Sleep, SpuriousWakeup, GetUp, Clear
<1>2. Injective' /\ Disjoint' /\ Queued' = Queued
  BY <1>1, QuietHands
<1>3. TypeOK /\ ShapeAt(w) /\ Shape
  BY DEF IInv, Shape
<1> DEFINE Kept ==
      /\ at' \in [Worker -> Place] /\ ShapeAt(w)'
      /\ peer' \in [Worker -> 0 .. NWorkers] /\ \A v \in Worker \ {w} : peer'[v] = peer[v]
      /\ \A v \in Worker \ {w} : at'[v] = at[v] \/ (at[v] = "wait" /\ at'[v] = "woken")
      /\ idle' \subseteq Worker /\ pushRR' = pushRR /\ shutdown' \in BOOLEAN
<1>4. Kept
  <2>1. CASE WakeOne(w)
    <3>1. CASE idle \ {w} = {}
      BY <1>1, <1>3, <2>1, <3>1, Gone, BackShape, ZenonT(60)
         DEF WakeOne, At, ShapeAt, TypeOK, Place, InLoop, Hands
    <3>2. CASE idle \ {w} # {}
      <4>1. idle \ {w} \in SUBSET Worker
        BY <1>3 DEF TypeOK
      <4>2. Min(idle \ {w}) \in 0 .. NWorkers
        BY <3>2, <4>1, MinIn, WorkerIsNat
      <4> QED
        BY <1>1, <1>3, <2>1, <3>2, <4>2, Gone, ZenonT(60)
           DEF WakeOne, At, ShapeAt, TypeOK, Place, InLoop, Hands
    <3> QED
      BY <3>1, <3>2
  <2>2. CASE WakeSpecific(w)
    <3>1. PICK p \in {"signal", Back(w)} : Go(w, p)
      BY <2>2 DEF WakeSpecific
    <3>2. p \in Place /\ at[w] = "wake specific"
      BY <2>2, BackShape DEF Place, WakeSpecific, At
    <3> QED
      BY <1>1, <1>3, <2>2, <3>1, <3>2, Gone, BackShape, ZenonT(60)
         DEF WakeSpecific, ShapeAt, TypeOK, InLoop, Hands
  <2>3. CASE Signal(w)
    <3>1. Back(w) \in Place /\ Back(w) # "wait" /\ at[w] = "signal" /\ SignalTo(w, peer[w], Back(w))
      BY <2>3, BackShape DEF Place, Signal, At
    <3> QED
      BY <1>1, <1>3, <2>3, <3>1, Signalled, BackShape DEF Signal, ShapeAt, TypeOK, InLoop, Hands
  <2>4. CASE Broadcast(w)
    <3>1. CASE peer[w] < NWorkers
      <4>1. at[w] = "shutdown" /\ "shutdown" \in Place /\ SignalTo(w, peer[w], "shutdown")
        BY <2>4, <3>1 DEF Broadcast, At, Place
      <4>2. /\ peer' \in [Worker -> 0 .. NWorkers] /\ \A v \in Worker \ {w} : peer'[v] = peer[v]
            /\ UNCHANGED <<idle, pushRR, shutdown>>
        <5>1. peer' = [peer EXCEPT ![w] = @ + 1] /\ UNCHANGED <<idle, pushRR, shutdown>>
          BY <2>4, <3>1 DEF Broadcast
        <5>2. peer[w] + 1 \in 0 .. NWorkers /\ peer \in [Worker -> 0 .. NWorkers]
          BY <1>3, <3>1, WorkerIsNat DEF TypeOK
        <5> QED
          BY <5>1, <5>2
      <4> QED
        BY <1>1, <1>3, <4>1, <4>2, Signalled DEF ShapeAt, TypeOK, InLoop, Hands
    <3>2. CASE ~ (peer[w] < NWorkers)
      <4>1. /\ at[w] = "shutdown" /\ "pause" \in Place /\ Go(w, "pause")
            /\ peer' = [peer EXCEPT ![w] = w] /\ UNCHANGED <<idle, pushRR, shutdown>>
        BY <2>4, <3>2 DEF Broadcast, At, Place
      <4>2. peer' \in [Worker -> 0 .. NWorkers] /\ \A v \in Worker \ {w} : peer'[v] = peer[v]
        BY <1>3, <4>1, WorkerIsNat DEF TypeOK
      <4> QED
        BY <1>1, <1>3, <4>1, <4>2, Gone DEF ShapeAt, TypeOK, InLoop, Hands
    <3> QED
      BY <3>1, <3>2
  <2>5. CASE Shutdown(w)
    BY <1>1, <1>3, <2>5, Gone, WorkerIsNat DEF Shutdown, At, ShapeAt, TypeOK, Place, InLoop, Hands
  <2>6. CASE StealFails(w)
    <3>1. (peer[w] + 1) % NWorkers \in Worker
      BY <1>3, NextWorker, WorkerIsNat DEF TypeOK
    <3> QED
      BY <1>1, <1>3, <2>6, <3>1, Gone, WorkerIsNat
         DEF StealFails, At, ShapeAt, TypeOK, Place, InLoop, Hands
  <2>7. CASE Continue(w)
    <3>1. (w + 1) % NWorkers \in Worker
      BY NextWorker, WorkerIsNat
    <3>2. PICK p \in {"drain", "flag", "pause", "announce", "steal"} : Go(w, p)
      BY <2>7 DEF Continue
    <3>3. p \in Place /\ at[w] \in {"pop", "drain", "flag"}
      BY <2>7 DEF Place, Continue, At
    <3>4. /\ peer' \in [Worker -> 0 .. NWorkers] /\ \A v \in Worker \ {w} : peer'[v] = peer[v]
          /\ at[w] = "flag" => peer'[w] \in Worker
      BY <1>3, <2>7, <3>1, WorkerIsNat DEF Continue, At, TypeOK
    <3>5. at'[w] = "steal" => at[w] = "flag"
      <4> SUFFICES ASSUME at[w] # "flag" PROVE at'[w] # "steal"
        OBVIOUS
      <4>1. Go(w, "drain") \/ Go(w, "flag")
        BY <2>7 DEF Continue, At
      <4> QED
        BY <1>3, <4>1, Gone DEF Place
    <3> QED
      BY <1>1, <1>3, <2>7, <3>2, <3>3, <3>4, <3>5, Gone
         DEF Continue, ShapeAt, TypeOK, InLoop, Hands, Place
  <2>8. CASE Announce(w) \/ LookAgain(w) \/ Sleep(w) \/ SpuriousWakeup(w) \/ GetUp(w) \/ Clear(w)
    BY <1>1, <1>3, <2>8, Gone
       DEF Announce, LookAgain, Sleep, SpuriousWakeup, GetUp, Clear, At, ShapeAt, TypeOK, Place,
           InLoop, Hands
  <2> QED
    BY <2>1, <2>2, <2>3, <2>4, <2>5, <2>6, <2>7, <2>8 DEF Quiet
<1>5. TypeOK'
  BY <1>1, <1>3, <1>4 DEF TypeOK, Hands
<1>6. Shape'
  BY <1>1, <1>3, <1>4, ShapeKept DEF Hands
<1> QED
  BY <1>1, <1>2, <1>5, <1>6 DEF IInv

-------------------------------------------------------------------------------
(* The steps that move a thread, each with what AbstractScheduler says of it. *)
LEMMA SchedulerNowhere ==
  ASSUME NEW t \in Thread, Nowhere(t) PROVE Scheduler!Nowhere(t)
<1>1. \A w \in Worker : /\ current[w] # t /\ after[w].arg # t
                        /\ t \notin Range(deque[w]) /\ t \notin Range(injector[w])
  BY NowhereAbsent DEF Holds, Kind
<1> QED
  BY <1>1, NullIsNone DEF Scheduler!Nowhere, Queued

LEMMA LocalPushed ==
  ASSUME IInv, NEW w \in Worker, NEW t \in Thread, NEW back \in {"user", "pop"},
         LocalPush(w, t, back)
  PROVE  /\ at' \in [Worker -> Place] /\ at'[w] \in {"wake one", back}
         /\ \A v \in Worker \ {w} : at'[v] = at[v]
<1>1. PICK p \in {"wake one", back} : Go(w, p)
  BY DEF LocalPush
<1> QED
  BY <1>1, Gone DEF IInv, Place

LEMMA MakeReadyStep ==
  ASSUME IInv, NEW w \in Worker, NEW t \in Thread, MakeReady(w, t)
  PROVE  IInv' /\ Scheduler!MakeReady(w)
<1>1. /\ at[w] = "user" /\ Nowhere(t) /\ LocalPush(w, t, "user")
      /\ UNCHANGED <<current, after, injector, idle, pushRR, shutdown, peer>>
  BY DEF MakeReady, LocalPush, At
<1>2. FromCallback(w, t)
  BY <1>1, NowhereAbsent DEF FromCallback, Absent, Holds, Kind
<1>3. deque' \in [Worker -> Seq(Thread)] /\ Injective' /\ Disjoint' /\ Queued' = Queued \cup {t}
  BY <1>1, <1>2, Pushed DEF LocalPush
<1>4. /\ at' \in [Worker -> Place] /\ at'[w] \in {"wake one", "user"}
      /\ \A v \in Worker \ {w} : at'[v] = at[v]
  BY <1>1, LocalPushed
<1>5. TypeOK'
  BY <1>1, <1>3, <1>4 DEF IInv, TypeOK
<1>6. Shape'
  <2>1. ShapeAt(w)'
    BY <1>1, <1>4 DEF IInv, Shape, ShapeAt, InLoop
  <2> QED
    BY <1>1, <1>4, <2>1, ShapeKept DEF IInv
<1>7. Scheduler!MakeReady(w)
  <2>1. {t} \in SUBSET Scheduler!Wakeable
    BY <1>1, SchedulerNowhere DEF Scheduler!Wakeable
  <2>2. current[w] # NULL
    BY <1>1 DEF IInv, Shape, ShapeAt
  <2> QED
    BY <1>1, <1>3, <2>1, <2>2 DEF Scheduler!MakeReady
<1> QED
  BY <1>3, <1>5, <1>6, <1>7 DEF IInv

(* What the callbacks of schedule, schedule_park and schedule_exit have.      *)
Callback(w, c) ==
  \/ c = NoCallback
  \/ c = [cb |-> "balance", arg |-> current[w]]
  \/ \E t \in Thread : Nowhere(t) /\ c = [cb |-> "push", arg |-> t]

LEMMA SwitchOutStep ==
  ASSUME IInv, NEW w \in Worker, NEW c, Callback(w, c), SwitchOut(w, c)
  PROVE  IInv' /\ Scheduler!Leave(w)
<1>1. /\ at[w] = "user" /\ current' = [current EXCEPT ![w] = NULL]
      /\ after' = [after EXCEPT ![w] = c]
      /\ UNCHANGED <<deque, injector, idle, pushRR, shutdown, peer>>
      /\ Go(w, IF c = NoCallback THEN "pop" ELSE "after")
  BY DEF SwitchOut, At, Queues
<1>2. current[w] \in Thread /\ current[w] # NULL
  BY <1>1 DEF IInv, TypeOK, Shape, ShapeAt
<1>3. /\ c \in [cb : {"none", "push", "balance"}, arg : Thread \cup {NULL}]
      /\ c # NoCallback => c.cb # "none" /\ c.arg \in Thread
      /\ c = NoCallback => c.arg = NULL
  BY <1>2, NullIsNone DEF Callback, NoCallback
<1>4. c # NoCallback => Absent(c.arg, "current", w)
  <2>1. CASE c = [cb |-> "balance", arg |-> current[w]]
    BY <1>2, <2>1 DEF IInv, Disjoint, Holds, Kind
  <2>2. ASSUME NEW t \in Thread, Nowhere(t), c = [cb |-> "push", arg |-> t]
        PROVE  Absent(c.arg, "current", w)
    BY <2>2, NowhereAbsent DEF Absent
  <2> QED
    BY <2>1, <2>2 DEF Callback
<1>5. Injective' /\ Disjoint' /\ Queued' = Queued
  BY <1>1, <1>3, <1>4, Switched
<1>6. /\ at' \in [Worker -> Place] /\ at'[w] = (IF c = NoCallback THEN "pop" ELSE "after")
      /\ \A v \in Worker \ {w} : at'[v] = at[v]
  BY <1>1, Gone DEF IInv, Place
<1>7. TypeOK'
  BY <1>1, <1>3, <1>6 DEF IInv, TypeOK
<1>8. Shape'
  <2>1. /\ current'[w] = NULL /\ after'[w] = c
        /\ \A v \in Worker \ {w} : current'[v] = current[v] /\ after'[v] = after[v]
    BY <1>1 DEF IInv, TypeOK
  <2>2. ShapeAt(w)'
    BY <1>3, <1>6, <2>1, NullIsNone DEF ShapeAt, InLoop
  <2> QED
    BY <1>1, <1>6, <2>1, <2>2, ShapeKept DEF IInv
<1>9. Scheduler!Leave(w)
  <2>1. c.arg \in {current[w], NULL} \cup (Scheduler!Wakeable \ {})
    BY <1>2, SchedulerNowhere DEF Callback, NoCallback, Scheduler!Wakeable
  <2>2. [v \in Worker |-> [me |-> NULL, next |-> after'[v].arg]]
          = [[v \in Worker |-> [me |-> NULL, next |-> after[v].arg]]
               EXCEPT ![w] = [me |-> NULL, next |-> c.arg]]
    BY <1>1 DEF IInv, TypeOK
  <2>3. {} \in SUBSET Scheduler!Wakeable /\ Queued' = Queued \cup {}
    BY <1>5
  <2>4. NULL \in {current[w], NULL}
    OBVIOUS
  <2> QED
    BY <1>1, <1>2, <2>1, <2>2, <2>3, <2>4 DEF Scheduler!Leave
<1> QED
  BY <1>5, <1>7, <1>8, <1>9 DEF IInv

LEMMA AfterSwitchStep ==
  ASSUME IInv, NEW w \in Worker, AfterSwitch(w)
  PROVE  IInv' /\ Scheduler!Push(w)
<1> DEFINE t == after[w].arg
<1>1. /\ at[w] = "after" /\ after' = [after EXCEPT ![w] = NoCallback]
      /\ UNCHANGED <<current, idle, shutdown>>
  BY DEF AfterSwitch, At
<1>2. /\ t \in Thread /\ current[w] = NULL
      /\ pushRR \in Worker /\ pushRR + 1 \in Nat
  BY <1>1, WorkersAssumption DEF IInv, TypeOK, Shape, ShapeAt, InLoop, Worker
<1>3. FromCallback(w, t)
  BY <1>1, <1>2 DEF IInv, Disjoint, FromCallback, Holds, Kind
<1>4. pushRR' \in Worker
  <2>1. pushRR \in Nat
    BY <1>2 DEF Worker
  <2>2. NextTarget \in Worker
    BY <2>1, NextWorker DEF NextTarget
  <2> QED
    BY <1>2, <2>2 DEF AfterSwitch
<1> DEFINE Moves ==
      /\ deque' \in [Worker -> Seq(Thread)] /\ injector' \in [Worker -> Seq(Thread)]
      /\ Injective' /\ Disjoint' /\ Queued' = Queued \cup {t}
      /\ at' \in [Worker -> Place] /\ at'[w] \in {"wake one", "wake specific", "pop"}
      /\ \A v \in Worker \ {w} : at'[v] = at[v] /\ peer'[v] = peer[v]
      /\ peer' \in [Worker -> 0 .. NWorkers]
<1>5. Moves
  <2>1. CASE LocalPush(w, t, "pop")
    <3>1. deque' = [deque EXCEPT ![w] = Append(@, t)] /\ UNCHANGED <<injector, peer>>
      BY <2>1 DEF LocalPush
    <3>2. deque' \in [Worker -> Seq(Thread)] /\ Injective' /\ Disjoint' /\ Queued' = Queued \cup {t}
      BY <1>1, <1>2, <1>3, <3>1, Pushed
    <3>3. /\ at' \in [Worker -> Place] /\ at'[w] \in {"wake one", "pop"}
          /\ \A v \in Worker \ {w} : at'[v] = at[v]
      BY <1>2, <2>1, LocalPushed
    <3> HIDE DEF t
    <3> QED
      BY <3>1, <3>2, <3>3 DEF IInv, TypeOK
  <2>2. CASE InjectorPush(w, pushRR, t)
    <3>1. /\ injector' = [injector EXCEPT ![pushRR] = Append(@, t)] /\ UNCHANGED deque
          /\ peer' = [peer EXCEPT ![w] = pushRR] /\ Go(w, "wake specific")
      BY <2>2 DEF InjectorPush
    <3>2. /\ injector' \in [Worker -> Seq(Thread)] /\ Injective' /\ Disjoint'
          /\ Queued' = Queued \cup {t}
      BY <1>1, <1>2, <1>3, <3>1, Injected
    <3>3. /\ at' \in [Worker -> Place] /\ at'[w] = "wake specific"
          /\ \A v \in Worker \ {w} : at'[v] = at[v]
      BY <3>1, Gone DEF IInv, Place
    <3> HIDE DEF t
    <3> QED
      BY <1>2, <3>1, <3>2, <3>3, WorkerIsNat DEF IInv, TypeOK
  <2> QED
    BY <2>1, <2>2 DEF AfterSwitch
<1> HIDE DEF t
<1>6. TypeOK'
  BY <1>1, <1>4, <1>5 DEF IInv, TypeOK, NoCallback
<1>7. Shape'
  <2>1. /\ current'[w] = NULL /\ after'[w] = NoCallback
        /\ \A v \in Worker \ {w} : current'[v] = current[v] /\ after'[v] = after[v]
    BY <1>1, <1>2 DEF IInv, TypeOK
  <2>2. ShapeAt(w)'
    BY <1>5, <2>1 DEF ShapeAt, InLoop
  <2> QED
    BY <1>5, <2>1, <2>2, ShapeKept DEF IInv
<1>8. Scheduler!Push(w)
  <2>1. [v \in Worker |-> [me |-> NULL, next |-> after'[v].arg]]
          = [[v \in Worker |-> [me |-> NULL, next |-> after[v].arg]]
               EXCEPT ![w] = Scheduler!Nobody]
    BY <1>1 DEF IInv, TypeOK, NoCallback, Scheduler!Nobody
  <2>2. t # NULL /\ after[w].arg = t
    BY <1>2, NullIsNone DEF t
  <2> QED
    BY <1>1, <1>5, <2>1, <2>2 DEF Scheduler!Push, Scheduler!Nobody
<1> QED
  BY <1>5, <1>6, <1>7, <1>8 DEF IInv

(* A worker gets a thread from its deque, its injector or another deque.      *)
LEMMA RunStep ==
  ASSUME IInv, NEW w \in Worker, NEW t \in Thread, NEW k \in {"deque", "injector"},
         NEW x \in Worker, Holds(k, x, t), at[w] \in {"pop", "drain", "steal"}, Run(w, t),
         deque' \in [Worker -> Seq(Thread)], injector' \in [Worker -> Seq(Thread)], Injective',
         peer' = peer \/ peer' = [peer EXCEPT ![w] = w],
         TakenFrom(k, x, t)
  PROVE  IInv' /\ Scheduler!Take(w)
<1>1. /\ current' = [current EXCEPT ![w] = t] /\ Go(w, "user")
      /\ UNCHANGED <<after, idle, pushRR, shutdown>>
  BY DEF Run
<1>2. current[w] = NULL /\ after[w] = NoCallback
  BY DEF IInv, Shape, ShapeAt, InLoop
<1>3. Disjoint' /\ t \in Queued /\ Queued' = Queued \ {t}
  BY <1>1, <1>2, Taken
<1>4. /\ at' \in [Worker -> Place] /\ at'[w] = "user"
      /\ \A v \in Worker \ {w} : at'[v] = at[v]
  BY <1>1, Gone DEF IInv, Place
<1>5. TypeOK'
  BY <1>1, <1>4, WorkerIsNat DEF IInv, TypeOK
<1>6. Shape'
  <2>1. /\ current'[w] = t /\ after'[w] = NoCallback
        /\ \A v \in Worker \ {w} : /\ current'[v] = current[v] /\ after'[v] = after[v]
                                   /\ peer'[v] = peer[v]
    BY <1>1, <1>2 DEF IInv, TypeOK
  <2>2. ShapeAt(w)'
    BY <1>4, <2>1, NullIsNone DEF ShapeAt, InLoop
  <2> QED
    BY <1>4, <2>1, <2>2, ShapeKept DEF IInv
<1>7. Scheduler!Take(w)
  <2>1. /\ [v \in Worker |-> [me |-> NULL, next |-> after[v].arg]][w] = Scheduler!Nobody
        /\ UNCHANGED [v \in Worker |-> [me |-> NULL, next |-> after[v].arg]]
    BY <1>1, <1>2 DEF Scheduler!Nobody, NoCallback
  <2> QED
    BY <1>1, <1>2, <1>3, <2>1 DEF Scheduler!Take
<1> QED
  BY <1>3, <1>5, <1>6, <1>7 DEF IInv

LEMMA PopStep ==
  ASSUME IInv, NEW w \in Worker, Pop(w) PROVE IInv' /\ Scheduler!Take(w)
<1> DEFINE t == Last(deque[w])
<1>1. /\ at[w] = "pop" /\ deque[w] # <<>> /\ deque' = [deque EXCEPT ![w] = Front(@)]
      /\ Run(w, t) /\ UNCHANGED <<injector, peer>>
  BY DEF Pop, At
<1>2. /\ deque[w] \in Seq(Thread) /\ IsInjective(deque[w])
      /\ deque \in [Worker -> Seq(Thread)] /\ injector \in [Worker -> Seq(Thread)] /\ Injective
  BY DEF IInv, TypeOK, Injective
<1>3. /\ t \in Range(deque[w]) /\ t \in Thread
      /\ Front(deque[w]) \in Seq(Thread) /\ IsInjective(Front(deque[w]))
      /\ Range(Front(deque[w])) = Range(deque[w]) \ {t}
  BY <1>1, <1>2, LastTaken
<1> HIDE DEF t
<1>4. deque'[w] = Front(deque[w]) /\ \A v \in Worker \ {w} : deque'[v] = deque[v]
  BY <1>1, <1>2
<1>5. deque' \in [Worker -> Seq(Thread)] /\ Injective'
  BY <1>1, <1>2, <1>3, <1>4 DEF Injective
<1>6. TakenFrom("deque", w, t)
  BY <1>1, <1>3, <1>4 DEF TakenFrom
<1>7. Holds("deque", w, t)
  BY <1>3 DEF Holds
<1> QED
  BY <1>1, <1>2, <1>3, <1>5, <1>6, <1>7, RunStep

LEMMA DrainStep ==
  ASSUME IInv, NEW w \in Worker, Drain(w) PROVE IInv' /\ Scheduler!Take(w)
<1> DEFINE t == Head(injector[w])
<1>1. /\ at[w] = "drain" /\ injector[w] # <<>> /\ injector' = [injector EXCEPT ![w] = Tail(@)]
      /\ Run(w, t) /\ UNCHANGED <<deque, peer>>
  BY DEF Drain, At
<1>2. /\ injector[w] \in Seq(Thread) /\ IsInjective(injector[w])
      /\ deque \in [Worker -> Seq(Thread)] /\ injector \in [Worker -> Seq(Thread)] /\ Injective
  BY DEF IInv, TypeOK, Injective
<1>3. /\ t \in Range(injector[w]) /\ t \in Thread
      /\ Tail(injector[w]) \in Seq(Thread) /\ IsInjective(Tail(injector[w]))
      /\ Range(Tail(injector[w])) = Range(injector[w]) \ {t}
  BY <1>1, <1>2, TailTaken
<1> HIDE DEF t
<1>4. injector'[w] = Tail(injector[w]) /\ \A v \in Worker \ {w} : injector'[v] = injector[v]
  BY <1>1, <1>2
<1>5. injector' \in [Worker -> Seq(Thread)] /\ Injective'
  BY <1>1, <1>2, <1>3, <1>4 DEF Injective
<1>6. TakenFrom("injector", w, t)
  BY <1>1, <1>3, <1>4 DEF TakenFrom
<1>7. Holds("injector", w, t)
  BY <1>3 DEF Holds
<1> QED
  BY <1>1, <1>2, <1>3, <1>5, <1>6, <1>7, RunStep

LEMMA StealStep ==
  ASSUME IInv, NEW w \in Worker, Steal(w) PROVE IInv' /\ Scheduler!Take(w)
<1> DEFINE x == peer[w]  t == Head(deque[x])
<1>1. /\ at[w] = "steal" /\ deque[x] # <<>> /\ deque' = [deque EXCEPT ![x] = Tail(@)]
      /\ Run(w, t) /\ UNCHANGED injector /\ peer' = [peer EXCEPT ![w] = w]
  BY DEF Steal, At
<1>2. x \in Worker
  BY <1>1 DEF IInv, Shape, ShapeAt
<1> HIDE DEF x
<1>3. /\ deque[x] \in Seq(Thread) /\ IsInjective(deque[x])
      /\ deque \in [Worker -> Seq(Thread)] /\ injector \in [Worker -> Seq(Thread)] /\ Injective
  BY <1>2 DEF IInv, TypeOK, Injective
<1>4. /\ t \in Range(deque[x]) /\ t \in Thread
      /\ Tail(deque[x]) \in Seq(Thread) /\ IsInjective(Tail(deque[x]))
      /\ Range(Tail(deque[x])) = Range(deque[x]) \ {t}
  BY <1>1, <1>3, TailTaken
<1> HIDE DEF t
<1>5. deque'[x] = Tail(deque[x]) /\ \A v \in Worker \ {x} : deque'[v] = deque[v]
  BY <1>1, <1>2, <1>3
<1>6. deque' \in [Worker -> Seq(Thread)] /\ Injective'
  BY <1>1, <1>2, <1>3, <1>4, <1>5 DEF Injective
<1>7. TakenFrom("deque", x, t)
  BY <1>1, <1>4, <1>5 DEF TakenFrom
<1>8. Holds("deque", x, t)
  BY <1>4 DEF Holds
<1> QED
  BY <1>1, <1>2, <1>3, <1>4, <1>6, <1>7, <1>8, RunStep

-------------------------------------------------------------------------------
LEMMA InitInv == Init => IInv /\ Scheduler!Init
<1> SUFFICES ASSUME Init PROVE IInv /\ Scheduler!Init
  OBVIOUS
<1>1. \A w \in Worker : /\ current[w] = (IF w = 0 THEN Main ELSE NULL) /\ after[w] = NoCallback
                        /\ deque[w] = <<>> /\ injector[w] = <<>>
                        /\ at[w] = (IF w = 0 THEN "user" ELSE "pop")
  BY DEF Init
<1>2. TypeOK
  BY NullIsNone, WorkerIsNat DEF Init, TypeOK, Place, NoCallback
<1>3. Shape
  BY <1>1, NullIsNone DEF Shape, ShapeAt, InLoop
<1>4. \A w \in Worker : /\ Range(deque[w]) = {} /\ Range(injector[w]) = {}
                        /\ IsInjective(deque[w]) /\ IsInjective(injector[w])
  BY <1>1 DEF Range, IsInjective
<1>5. Injective /\ Disjoint /\ Queued = {}
  <2>1. ASSUME NEW t \in Thread, NEW k \in Kind, NEW w \in Worker, Holds(k, w, t)
        PROVE  k = "current" /\ w = 0
    BY <1>1, <1>4, <2>1, NullIsNone DEF Holds, NoCallback
  <2>2. Disjoint
    BY <2>1 DEF Disjoint, Absent
  <2> QED
    BY <1>4, <2>2 DEF Injective, Queued
<1>6. Scheduler!Init
  <2>1. current = [v \in Worker |-> IF v = 0 THEN Main ELSE NULL] /\ 0 \in Worker /\ Main \in Thread
    BY NullIsNone, WorkerIsNat DEF Init
  <2>2. [w \in Worker |-> [me |-> NULL, next |-> after[w].arg]]
          = [w \in Worker |-> Scheduler!Nobody]
    BY <1>1 DEF NoCallback, Scheduler!Nobody
  <2> QED
    BY <1>5, <2>1, <2>2 DEF Scheduler!Init
<1> QED
  BY <1>2, <1>3, <1>5, <1>6 DEF IInv

LEMMA NextInv ==
  ASSUME IInv, [Next \/ Stopped]_vars
  PROVE  IInv' /\ [Scheduler!Next]_(Scheduler!vars)
<1>1. ASSUME UNCHANGED Hands, Queued' = Queued PROVE UNCHANGED Scheduler!vars
  BY <1>1 DEF Scheduler!vars, Hands
<1>2. CASE UNCHANGED vars
  <2>1. UNCHANGED Hands /\ Queued' = Queued
    BY <1>2 DEF vars, Hands, Queued
  <2>2. TypeOK' /\ Shape'
    BY <1>2 DEF vars, IInv, TypeOK, Shape, ShapeAt
  <2> QED
    BY <1>1, <2>1, <2>2, QuietHands DEF IInv
<1>3. ASSUME NEW w \in Worker, Quiet(w) PROVE IInv' /\ UNCHANGED Scheduler!vars
  BY <1>1, <1>3, QuietStep
<1>4. ASSUME NEW w \in Worker, NEW t \in Thread, MakeReady(w, t)
      PROVE  IInv' /\ Scheduler!Next
  BY <1>4, MakeReadyStep DEF Scheduler!Next
<1>5. ASSUME NEW w \in Worker, Yield(w) \/ Block(w) \/ \E t \in Thread : ExitWaking(w, t)
      PROVE  IInv' /\ Scheduler!Next
  <2>1. PICK c : Callback(w, c) /\ SwitchOut(w, c)
    BY <1>5 DEF Yield, Block, ExitWaking, Callback
  <2> QED
    BY <2>1, SwitchOutStep DEF Scheduler!Next
<1>6. ASSUME NEW w \in Worker, AfterSwitch(w) PROVE IInv' /\ Scheduler!Next
  BY <1>6, AfterSwitchStep DEF Scheduler!Next
<1>7. ASSUME NEW w \in Worker, Pop(w) \/ Drain(w) \/ Steal(w) PROVE IInv' /\ Scheduler!Next
  BY <1>7, PopStep, DrainStep, StealStep DEF Scheduler!Next
<1>8. CASE Next
  <2>1. PICK w \in Worker : Loop(w) \/ SpuriousWakeup(w) \/ Ready(w) \/ Block(w) \/ Shutdown(w)
    BY <1>8 DEF Next
  <2>2. \/ Quiet(w) \/ (\E t \in Thread : MakeReady(w, t))
        \/ (Yield(w) \/ Block(w) \/ \E t \in Thread : ExitWaking(w, t))
        \/ AfterSwitch(w) \/ (Pop(w) \/ Drain(w) \/ Steal(w))
    BY <2>1 DEF Loop, Ready, Quiet
  <2> QED
    BY <1>3, <1>4, <1>5, <1>6, <1>7, <2>2
<1> QED
  BY <1>2, <1>8 DEF Stopped

(* The inductive invariant of the queues: where each worker is fixes what it  *)
(* has in hand, and no thread is in two hands (scheduler_mn.c:84-395).        *)
THEOREM Invariance == Spec => []IInv
<1>1. Init => IInv
  BY InitInv
<1>2. IInv /\ [Next \/ Stopped]_vars => IInv'
  BY NextInv
<1> QED
  BY <1>1, <1>2, PTL DEF Spec

(* Every variable of the scheduler keeps its type, the number of the worker   *)
(* to steal from or to signal included (scheduler_mn.c:114-135, 296-320).     *)
THEOREM TypeCorrect == Spec => []TypeOK
<1>1. IInv => TypeOK
  BY DEF IInv
<1> QED
  BY <1>1, Invariance, PTL

(* A thread is not in two places: queued twice, queued while it runs, or run  *)
(* by two workers, for any number of workers (scheduler_mn.c:206-330).        *)
THEOREM OnePlaceCorrect == Spec => []OnePlace
<1>1. IInv => OnePlace
  <2> SUFFICES ASSUME IInv, NEW t \in Thread PROVE Cardinality(Places(t)) <= 1
    BY DEF OnePlace
  <2> DEFINE Entry(p) ==
               \/ \E w \in Worker : p = <<"current", w>> /\ Holds("current", w, t)
               \/ \E w \in Worker : p = <<"after", w>> /\ Holds("after", w, t)
               \/ \E w \in Worker : \E i \in DOMAIN deque[w] :
                    p = <<"deque", w, i>> /\ deque[w][i] = t /\ Holds("deque", w, t)
               \/ \E w \in Worker : \E i \in DOMAIN injector[w] :
                    p = <<"injector", w, i>> /\ injector[w][i] = t /\ Holds("injector", w, t)
  <2>1. ASSUME NEW p \in Places(t) PROVE Entry(p)
    <3>1. \/ \E w \in Worker : p = <<"current", w>> /\ current[w] = t
          \/ \E w \in Worker : p = <<"after", w>> /\ after[w].arg = t
          \/ \E w \in Worker : \E i \in DOMAIN deque[w] : p = <<"deque", w, i>> /\ deque[w][i] = t
          \/ \E w \in Worker : \E i \in DOMAIN injector[w] :
               p = <<"injector", w, i>> /\ injector[w][i] = t
      BY <2>1 DEF Places
    <3> QED
      BY <3>1 DEF Holds, Range
  <2>2. \A j, k \in Kind, v, w \in Worker : Holds(j, v, t) /\ Holds(k, w, t) => j = k /\ v = w
    BY DEF IInv, Disjoint, Absent
  <2>3. \A w \in Worker : /\ \A i, j \in DOMAIN deque[w] : deque[w][i] = deque[w][j] => i = j
                          /\ \A i, j \in DOMAIN injector[w] :
                               injector[w][i] = injector[w][j] => i = j
    BY DEF IInv, Injective, IsInjective
  <2>4. \A p, q \in Places(t) : p = q
    BY <2>1, <2>2, <2>3 DEF Kind
  <2>5. CASE Places(t) = {}
    BY <2>5, FS_EmptySet
  <2>6. CASE Places(t) # {}
    <3>1. PICK p : Places(t) = {p}
      BY <2>4, <2>6
    <3> QED
      BY <3>1, FS_Singleton
  <2> QED
    BY <2>5, <2>6
<1> QED
  BY <1>1, Invariance, PTL

(* The workers, their deques and their injectors are a scheduler: whatever    *)
(* the steals and the wakeups, a thread made ready is run once, and none is   *)
(* lost (scheduler_mn.c:206-330).                                             *)
THEOREM Implements == Spec => SchedulerSpec
<1>1. Init => Scheduler!Init
  BY InitInv
<1>2. IInv /\ [Next \/ Stopped]_vars => [Scheduler!Next]_(Scheduler!vars)
  BY NextInv
<1> QED
  BY <1>1, <1>2, Invariance, PTL DEF Spec, SchedulerSpec, Scheduler!Spec

-------------------------------------------------------------------------------
(* The announcement of a worker that goes to sleep: its bit is set until it   *)
(* is up again, and what comes between its last look and its wakeup comes     *)
(* with somebody on the way to wake it.                                       *)
Drowsy == {"lock", "check", "wait", "woken", "clear"}

Bits == \A w \in Worker : at[w] \in Drowsy => w \in idle

Unlost(w) == at[w] \in {"check", "wait"} /\ injector[w] # <<>> => \E v \in Worker : Waking(v, w)

WakeInv == Bits /\ \A w \in Worker : Unlost(w)

LEMMA InitWake == Init => WakeInv
BY DEF Init, WakeInv, Bits, Drowsy, Unlost

(* A step of u that brings nothing to an injector, by what it changes.        *)
WakeKept(u) ==
  /\ \A v \in Worker \ {u} : /\ at'[v] = at[v] \/ (at[v] = "wait" /\ at'[v] = "woken")
                             /\ peer'[v] = peer[v] /\ injector'[v] = injector[v]
                             /\ v \in idle => v \in idle'
  /\ at'[u] \in Drowsy => u \in idle'
  /\ at'[u] \in {"check", "wait"} =>
       injector'[u] = injector[u] /\ (at[u] = "check" \/ injector[u] = <<>>)
  /\ at[u] \in {"wake specific", "signal"} =>
       \/ at'[u] = "signal" /\ peer'[u] = peer[u]
       \/ \A w \in Worker : w = peer[u] => at'[w] \notin {"check", "wait"}

LEMMA WakeStep ==
  ASSUME WakeInv, NEW u \in Worker, WakeKept(u) PROVE WakeInv'
<1>1. Bits'
  BY DEF WakeInv, Bits, Drowsy, WakeKept
<1> SUFFICES ASSUME NEW w \in Worker, at'[w] \in {"check", "wait"}, injector'[w] # <<>>
             PROVE  \E v \in Worker : Waking(v, w)'
  BY <1>1 DEF WakeInv, Unlost
<1>2. at[w] \in {"check", "wait"} /\ injector[w] # <<>>
  BY DEF WakeKept
<1>3. PICK v \in Worker : Waking(v, w)
  BY <1>2 DEF WakeInv, Unlost
<1>4. CASE v # u
  BY <1>3, <1>4 DEF WakeKept, Waking
<1>5. CASE v = u
  BY <1>3, <1>5 DEF WakeKept, Waking
<1> QED
  BY <1>4, <1>5

LEMMA QuietWake ==
  ASSUME IInv, WakeInv, NEW u \in Worker, Quiet(u) PROVE WakeKept(u)
<1> USE DEF Queues
<1>1. injector' = injector
  BY QuietStep DEF Hands
<1>2. TypeOK /\ Bits /\ \A w \in Worker : Unlost(w)
  BY DEF IInv, WakeInv
<1>3. CASE WakeOne(u)
  <2>1. PICK p \in {"signal", Back(u)} : Go(u, p)
    BY <1>3 DEF WakeOne
  <2>2. /\ p \in Place /\ p \notin Drowsy /\ at[u] = "wake one" /\ idle' = idle
        /\ \A v \in Worker \ {u} : peer'[v] = peer[v]
    BY <1>2, <1>3, BackShape DEF WakeOne, At, TypeOK, Place, Drowsy
  <2> QED
    BY <1>1, <1>2, <2>1, <2>2, Gone DEF WakeKept, Drowsy
<1>4. CASE WakeSpecific(u)
  <2>1. PICK p \in {"signal", Back(u)} : Go(u, p) /\ (peer[u] \in idle => p = "signal")
    BY <1>4 DEF WakeSpecific, Announced
  <2>2. p \in Place /\ p \notin Drowsy /\ at[u] = "wake specific" /\ UNCHANGED <<idle, peer>>
    BY <1>4, BackShape DEF WakeSpecific, At, Place, Drowsy
  <2>3. \A w \in Worker : w = peer[u] /\ w \notin idle => at'[w] \notin {"check", "wait"}
    BY <1>2, <2>1, <2>2, Gone DEF Bits, Drowsy
  <2> QED
    BY <1>1, <1>2, <2>1, <2>2, <2>3, Gone DEF WakeKept, Drowsy
<1>5. CASE Signal(u) \/ (Broadcast(u) /\ peer[u] < NWorkers)
  <2>1. PICK back \in {"user", "pop", "shutdown"} : SignalTo(u, peer[u], back)
    BY <1>5, BackShape DEF Signal, Broadcast
  <2>2. /\ back \in Place /\ back # "wait" /\ back \notin Drowsy
        /\ at[u] \in {"signal", "shutdown"} /\ idle' = idle
        /\ \A v \in Worker \ {u} : peer'[v] = peer[v]
    BY <1>2, <1>5 DEF Signal, Broadcast, At, TypeOK, Place, Drowsy
  <2>3. \A w \in Worker : w = peer[u] => at'[w] \notin {"check", "wait"}
    BY <1>2, <2>1, <2>2 DEF SignalTo, IdleLockFree, TypeOK, Drowsy
  <2> QED
    BY <1>1, <1>2, <2>1, <2>2, <2>3, Signalled DEF WakeKept, Drowsy
<1>6. CASE \/ Broadcast(u) /\ ~ (peer[u] < NWorkers)
           \/ Shutdown(u) \/ StealFails(u) \/ Continue(u)
  <2>1. PICK p \in {"pause", "shutdown", "steal", "announce", "drain", "flag"} : Go(u, p)
    BY <1>6 DEF Broadcast, Shutdown, StealFails, Continue
  <2>2. /\ p \in Place /\ p \notin Drowsy /\ at[u] \notin {"wake specific", "signal"}
        /\ idle' = idle
        /\ \A v \in Worker \ {u} : peer'[v] = peer[v]
    BY <1>2, <1>6 DEF Broadcast, Shutdown, StealFails, Continue, At, TypeOK, Place, Drowsy
  <2> QED
    BY <1>1, <1>2, <2>1, <2>2, Gone DEF WakeKept, Drowsy
<1>7. CASE Announce(u) \/ LookAgain(u) \/ Sleep(u) \/ SpuriousWakeup(u) \/ GetUp(u) \/ Clear(u)
  <2>1. /\ at[u] \notin {"wake specific", "signal"} /\ peer' = peer
        /\ \A v \in Worker \ {u} : at'[v] = at[v] /\ (v \in idle => v \in idle')
    BY <1>2, <1>7, Gone
       DEF Announce, LookAgain, Sleep, SpuriousWakeup, GetUp, Clear, At, TypeOK, Place
  <2>2. /\ at'[u] \in Drowsy => u \in idle'
        /\ at'[u] \in {"check", "wait"} => at[u] = "check" \/ injector[u] = <<>>
    BY <1>2, <1>7, Gone
       DEF Announce, LookAgain, Sleep, SpuriousWakeup, GetUp, Clear, At, TypeOK, Place, Bits,
           Drowsy, NothingCame
  <2> QED
    BY <1>1, <2>1, <2>2 DEF WakeKept
<1> QED
  BY <1>3, <1>4, <1>5, <1>6, <1>7 DEF Quiet

LEMMA BusyWake ==
  ASSUME IInv, NEW u \in Worker, NEW p \in {"user", "pop", "after", "wake one"},
         at[u] \in {"user", "after", "pop", "drain", "steal"}, Go(u, p), idle' = idle,
         \A v \in Worker \ {u} : peer'[v] = peer[v] /\ injector'[v] = injector[v]
  PROVE  WakeKept(u)
<1>1. p \in Place /\ p \notin Drowsy
  BY DEF Place, Drowsy
<1>2. at'[u] = p /\ \A v \in Worker \ {u} : at'[v] = at[v]
  BY <1>1, Gone DEF IInv
<1>3. /\ at'[u] \notin Drowsy /\ at'[u] \notin {"check", "wait"}
      /\ at[u] \notin {"wake specific", "signal"}
  BY <1>1, <1>2
<1> QED
  BY <1>2, <1>3 DEF WakeKept

LEMMA NextWake ==
  ASSUME IInv, WakeInv, [Next \/ Stopped]_vars PROVE WakeInv'
<1>1. CASE UNCHANGED vars
  BY <1>1 DEF vars, WakeInv, Bits, Unlost, Waking
<1>2. CASE Next
  <2> PICK u \in Worker : Loop(u) \/ SpuriousWakeup(u) \/ Ready(u) \/ Block(u) \/ Shutdown(u)
    BY <1>2 DEF Next
  <2>1. CASE Quiet(u)
    BY <2>1, QuietWake, WakeStep
  <2>2. ASSUME NEW t \in Thread, MakeReady(u, t) PROVE WakeInv'
    <3>1. PICK p \in {"user", "wake one"} : Go(u, p)
      BY <2>2 DEF MakeReady, LocalPush
    <3> QED
      BY <2>2, <3>1, BusyWake, WakeStep DEF MakeReady, LocalPush, At
  <2>3. CASE Yield(u) \/ Block(u) \/ \E t \in Thread : ExitWaking(u, t)
    <3>1. PICK c : SwitchOut(u, c)
      BY <2>3 DEF Yield, Block, ExitWaking
    <3>2. PICK p \in {"pop", "after"} : Go(u, p)
      BY <3>1 DEF SwitchOut
    <3> QED
      BY <3>1, <3>2, BusyWake, WakeStep DEF SwitchOut, At, Queues
  <2>4. CASE AfterSwitch(u)
    <3>1. /\ at[u] = "after" /\ idle' = idle
          /\ LocalPush(u, after[u].arg, "pop") \/ InjectorPush(u, pushRR, after[u].arg)
      BY <2>4 DEF AfterSwitch, At
    <3>2. CASE LocalPush(u, after[u].arg, "pop")
      <4>1. PICK p \in {"pop", "wake one"} : Go(u, p)
        BY <3>2 DEF LocalPush
      <4> QED
        BY <3>1, <3>2, <4>1, BusyWake, WakeStep DEF LocalPush
    <3>3. CASE InjectorPush(u, pushRR, after[u].arg)
      <4>1. /\ at'[u] = "wake specific" /\ \A v \in Worker \ {u} : at'[v] = at[v]
            /\ peer'[u] = pushRR /\ \A v \in Worker \ {u} : peer'[v] = peer[v]
            /\ \A v \in Worker : v # pushRR => injector'[v] = injector[v]
        BY <3>3, Gone DEF IInv, TypeOK, InjectorPush, Place
      <4>2. Bits'
        BY <3>1, <4>1 DEF WakeInv, Bits, Drowsy
      <4>3. ASSUME NEW w \in Worker, at'[w] \in {"check", "wait"}, injector'[w] # <<>>
            PROVE  \E v \in Worker : Waking(v, w)'
        <5>1. CASE w = pushRR
          BY <4>1, <5>1 DEF Waking
        <5>2. CASE w # pushRR
          <6>1. at[w] \in {"check", "wait"} /\ injector[w] # <<>>
            BY <4>1, <4>3, <5>2
          <6>2. PICK v \in Worker : Waking(v, w)
            BY <6>1 DEF WakeInv, Unlost
          <6> QED
            BY <3>1, <4>1, <6>2 DEF Waking
        <5> QED
          BY <5>1, <5>2
      <4> QED
        BY <4>2, <4>3 DEF WakeInv, Unlost
    <3> QED
      BY <3>1, <3>2, <3>3
  <2>5. CASE Pop(u) \/ Drain(u) \/ Steal(u)
    <3>1. /\ at[u] \in {"pop", "drain", "steal"} /\ Go(u, "user") /\ idle' = idle
          /\ \A v \in Worker \ {u} : peer'[v] = peer[v] /\ injector'[v] = injector[v]
      BY <2>5 DEF IInv, TypeOK, Pop, Drain, Steal, Run, At
    <3> QED
      BY <3>1, BusyWake, WakeStep
  <2> QED
    BY <2>1, <2>2, <2>3, <2>4, <2>5 DEF Loop, Ready, Quiet
<1> QED
  BY <1>1, <1>2 DEF Stopped

(* A worker that sleeps on a thread of its injector is about to be woken: the *)
(* bit set before the last look, and the lock held from the look to the       *)
(* sleep, lose no wakeup (scheduler_mn.c:137-160, 336-352).                   *)
THEOREM NoLostInjectionCorrect == Spec => []NoLostInjection
<1>1. Init => WakeInv
  BY InitWake
<1>2. IInv /\ WakeInv /\ [Next \/ Stopped]_vars => WakeInv'
  BY NextWake
<1>3. WakeInv => NoLostInjection
  BY DEF WakeInv, Unlost, NoLostInjection, At
<1> QED
  BY <1>1, <1>2, <1>3, Invariance, PTL DEF Spec
=============================================================================
