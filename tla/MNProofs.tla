------------------------------ MODULE MNProofs ------------------------------
(* The M:N threads and their mutexes, semaphores and signals are correct for  *)
(* any number of workers, descriptors and stacks: first the threads without   *)
(* them, MNThread, then the threads that use them, MNSync.  The forest of     *)
(* joins is never looked into: what is proved holds whatever it answers.      *)
EXTENDS MNSync, FiniteSetTheorems, TLAPS

(* Who has a thread in hand: the worker that runs it, or that saves or pushes *)
(* it after a switch.                                                         *)
Pushes(w, t) == after[w].cb = "push" /\ after[w].arg = t
Hand(w, t) == current[w] = t \/ after[w].me = t \/ Pushes(w, t)

(* What a worker has depends on whether it is on the stack of a thread.       *)
ShapeAt(w) ==
  /\ current[w] # NULL => after[w].cb = "none" /\ foot[w] = NULL
  /\ current[w] = NULL => lastCreated[w] = NULL
  /\ current[w] # NULL /\ pc[current[w]] \in {"join", "exit"} => lastCreated[w] = NULL
  /\ after[w].cb = "none" => after[w].arg = NULL /\ after[w].me = NULL
  /\ after[w].cb = "push" => after[w].arg \in Thread /\ after[w].me \in {after[w].arg, NULL}
  /\ after[w].cb = "unlock" => after[w].me \in Thread
Shape == \A w \in Worker : ShapeAt(w)

(* A thread is in one hand, or in the run queues.                             *)
Sole ==
  \A t \in Thread, w \in Worker : Hand(w, t) =>
    t \notin ready /\ \A v \in Worker : Hand(v, t) => v = w

(* ... and which of them tells where in its code it may be.                   *)
RunningPc(t) ==
  \/ pc[t] \in {"user", "join", "exit", "wait", "reap", "parked", "waker"}
  \/ pc[t] = "fresh" /\ phase = "aborted"
HandPc(w, t) ==
  /\ current[w] = t => RunningPc(t)
  /\ after[w].me = t /\ after[w].cb = "push" => pc[t] = "user"
  /\ after[w].me = t /\ after[w].cb = "unlock" => pc[t] \in {"wait", "parked"}
  /\ Pushes(w, t) /\ after[w].me = NULL => pc[t] = "wait"
Held ==
  /\ \A t \in Thread, w \in Worker : HandPc(w, t)
  /\ \A t \in ready : pc[t] \in {"fresh", "user", "wait", "parked"}

(* The last created thread of a worker has been seen by nobody.               *)
Unseen ==
  \A w \in Worker : lastCreated[w] # NULL =>
    /\ pc[lastCreated[w]] = "fresh" /\ lastCreated[w] \notin ready
    /\ \A v \in Worker : lastCreated[v] = lastCreated[w] => v = w

(* A thread that has not run yet, or not any more, has neither joiner inside  *)
(* it nor stack.                                                              *)
Blank ==
  \A t \in Thread : pc[t] \in Unused \cup {"fresh"} => frame[t] = NoFrame /\ stackBase[t] = NULL

(* Who joins whom.                                                            *)
JoinAt(j) ==
  /\ target[j] # NULL <=> pc[j] \in {"join", "inline", "wait", "reap"}
  /\ target[j] # NULL =>
       /\ pc[target[j]] \notin Unused
       /\ \A i \in Thread : target[i] = target[j] => i = j
  /\ pc[j] = "reap" => pc[target[j]] = "done"
Joins == \A j \in Thread : JoinAt(j)

(* A parked joiner is named by its target until that has finished, ...        *)
Named ==
  /\ \A t \in Thread : waiting[t] # NULL =>
       /\ pc[waiting[t]] = "wait" /\ target[waiting[t]] = t
       /\ pc[t] \notin Unused \cup {"done"}
  /\ \A j \in Thread : pc[j] = "wait" /\ pc[target[j]] # "done" => waiting[target[j]] = j

(* ... what makes it ready comes later, and the lock is that of the target.   *)
ParkedAt(j) ==
  pc[j] = "wait" =>
    /\ j \in ready => pc[target[j]] = "done"
    /\ \A w \in Worker :
         /\ current[w] = j \/ Pushes(w, j) => pc[target[j]] = "done"
         /\ after[w].cb = "unlock" /\ after[w].me = j => after[w].arg = target[j]
Parked == \A j \in Thread : ParkedAt(j)

(* A thread run inline, and the number of those that a worker started.        *)
Inlined(w) == {t \in Thread : frame[t] # NoFrame /\ frame[t].worker = w}
Frames ==
  \A t \in Thread : frame[t] # NoFrame =>
    /\ frame[t].joiner # NULL
    /\ pc[frame[t].joiner] = "inline" /\ target[frame[t].joiner] = t
    /\ pc[t] \notin {"done", "exit"}
Counts == \A w \in Worker : inlineExec[w] = Cardinality(Inlined(w))

(* Without a stack of the arena, main or a thread that has run inline.        *)
Hosted ==
  \A t \in Thread :
    stackBase[t] = NULL /\ pc[t] \notin Unused \cup {"fresh"} /\ frame[t] = NoFrame =>
      t = Main \/ (pc[t] = "done" /\ \E j \in Thread : pc[j] = "reap" /\ target[j] = t)

(* The worker of a finished thread stands on no stack that is in use, ...     *)
OnStack(t) ==
  pc[t] \notin Unused \cup {"fresh", "done"} /\ (stackBase[t] # NULL \/ frame[t] = NoFrame)
Feet ==
  phase # "smashed" => \A t \in Thread, w \in Worker : OnStack(t) => foot[w] # StackOf(t)

(* ... and leaves that of its thread before it pushes the joiner.             *)
Left ==
  \A j \in Thread, w \in Worker :
    pc[j] = "wait" /\ pc[target[j]] = "done" /\ foot[w] = StackOf(target[j]) => Pushes(w, j)

Unfinished == {t \in Thread : pc[t] \notin Unused \cup {"done"}}
Leaving == {w \in Worker : foot[w] # NULL}
Alive == alive = Cardinality(Unfinished) + Cardinality(Leaving)

IInv ==
  /\ TypeOK /\ Shape /\ Sole /\ Held /\ Unseen /\ CreationReachable /\ Blank /\ Joins
  /\ Named /\ Parked /\ Frames /\ Counts /\ Hosted /\ StacksOwned /\ Feet /\ Left /\ Alive

-------------------------------------------------------------------------------
LEMMA Constants ==
  /\ Thread \subseteq Int /\ NULL \notin Thread /\ Main \in Thread /\ NULL \in Int
  /\ NULL \notin Stack /\ HostStack \notin Stack /\ HostStack # NULL
  /\ Worker \subseteq Int /\ 0 \in Worker
BY MNAssumption DEF NULL, Main, HostStack, Worker

LEMMA ReleasedUnused == Released \in {"free", "gone"}
BY DEF Released

(* The type invariant, value by value.                                        *)
LEMMA Types ==
  ASSUME TypeOK
  PROVE  /\ ready \subseteq Thread
         /\ \A w \in Worker :
              /\ current[w] \in Thread \cup {NULL} /\ lastCreated[w] \in Thread \cup {NULL}
              /\ after[w].cb \in {"none", "push", "unlock"}
              /\ after[w].me \in Thread \cup {NULL}
         /\ \A t \in Thread :
              /\ target[t] \in Thread \cup {NULL} /\ waiting[t] \in Thread \cup {NULL}
              /\ frame[t].joiner \in Thread \cup {NULL}
<1>1. \A w \in Worker :
        after[w] \in [cb : {"none", "push", "unlock"}, arg : Int, me : Thread \cup {NULL}]
  BY DEF TypeOK
<1>2. \A t \in Thread : frame[t] \in [joiner : Thread \cup {NULL}, worker : Worker]
  BY DEF TypeOK
<1> QED
  BY <1>1, <1>2 DEF TypeOK

LEMMA Targets ==
  ASSUME IInv, NEW t \in Thread, pc[t] \in {"join", "inline", "wait", "reap"}
  PROVE  target[t] \in Thread
BY Types DEF IInv, Joins, JoinAt

(* What is not where a thread can be had in hand is in no hand.               *)
LEMMA Unheld ==
  ASSUME IInv, phase = "running", NEW t \in Thread,
         pc[t] \in {"free", "gone", "fresh", "inline", "done"}
  PROVE  \A v \in Worker : ~Hand(v, t)
<1> SUFFICES ASSUME NEW v \in Worker PROVE ~Hand(v, t)
  OBVIOUS
<1>1. /\ HandPc(v, t) /\ ShapeAt(v) /\ t # NULL
      /\ after[v].cb \in {"none", "push", "unlock"}
  BY Constants, Types DEF IInv, Shape, Held
<1> QED
  BY <1>1 DEF HandPc, ShapeAt, RunningPc, Hand, Pushes

LEMMA Fresh ==
  ASSUME IInv, phase = "running", NEW w \in Worker, lastCreated[w] # NULL
  PROVE  /\ lastCreated[w] \in Thread /\ pc[lastCreated[w]] = "fresh"
         /\ lastCreated[w] \notin ready
         /\ \A v \in Worker : ~Hand(v, lastCreated[w])
         /\ \A v \in Worker : lastCreated[v] = lastCreated[w] => v = w
BY Types, Unheld DEF IInv, Unseen

(* The thread that makes a call is known to its worker only.                  *)
LEMMA Caller ==
  ASSUME IInv, phase = "running", NEW w \in Worker, current[w] # NULL
  PROVE  /\ current[w] \in Thread /\ current[w] \notin ready
         /\ after[w].cb = "none" /\ foot[w] = NULL
         /\ \A v \in Worker : Hand(v, current[w]) => v = w
         /\ \A v \in Worker : lastCreated[v] # current[w]
         /\ pc[current[w]] \in {"user", "join", "exit", "wait", "reap", "parked", "waker"}
<1>1. /\ current[w] \in Thread /\ ShapeAt(w) /\ HandPc(w, current[w]) /\ Hand(w, current[w])
  BY Types DEF IInv, Shape, Held, Hand
<1> QED
  BY <1>1 DEF IInv, Sole, Unseen, ShapeAt, HandPc, RunningPc

(* Nobody waits for a thread that nobody joins, and so for one that is not in *)
(* use.                                                                       *)
LEMMA NobodyWaits ==
  ASSUME IInv, NEW t \in Thread,
         pc[t] \in Unused \cup {"done"} \/ \A i \in Thread : target[i] # t
  PROVE  waiting[t] = NULL
BY Types DEF IInv, Named

LEMMA NobodyJoins ==
  ASSUME IInv, NEW t \in Thread, pc[t] \in Unused
  PROVE  \A i \in Thread : target[i] # t
BY Constants, Types DEF IInv, Joins, JoinAt

LEMMA NoTarget ==
  ASSUME IInv, NEW t \in Thread, pc[t] \notin {"join", "inline", "wait", "reap"}
  PROVE  target[t] = NULL
BY DEF IInv, Joins, JoinAt

LEMMA IsBlank ==
  ASSUME IInv, NEW t \in Thread, pc[t] \in Unused \cup {"fresh"}
  PROVE  frame[t] = NoFrame /\ stackBase[t] = NULL
BY DEF IInv, Blank

LEMMA NotCreated ==
  ASSUME IInv, NEW t \in Thread, pc[t] # "fresh"
  PROVE  \A v \in Worker : lastCreated[v] # t
BY Constants DEF IInv, Unseen

(* The two sets that alive_count counts, and how they change.                 *)
LEMMA Counted ==
  /\ IsFiniteSet(Unfinished) /\ Cardinality(Unfinished) \in Nat
  /\ IsFiniteSet(Leaving) /\ Cardinality(Leaving) \in Nat
<1>1. IsFiniteSet(Thread) /\ NWorkers - 1 \in Int
  BY MNAssumption
<1>2. IsFiniteSet(Worker)
  BY <1>1, FS_Interval DEF Worker
<1>3. IsFiniteSet(Unfinished) /\ IsFiniteSet(Leaving)
  BY <1>1, <1>2, FS_Subset DEF Unfinished, Leaving
<1> QED
  BY <1>3, FS_CardinalityType

LEMMA InlinedFinite ==
  ASSUME NEW w \in Worker PROVE IsFiniteSet(Inlined(w)) /\ Cardinality(Inlined(w)) \in Nat
BY MNAssumption, FS_Subset, FS_CardinalityType DEF Inlined

LEMMA OneLess ==
  ASSUME NEW S, IsFiniteSet(S), NEW x \in S
  PROVE  Cardinality(S) \in Nat \ {0} /\ Cardinality(S \ {x}) = Cardinality(S) - 1
<1>1. Cardinality(S \ {x}) = Cardinality(S) - 1 /\ IsFiniteSet(S \ {x})
  BY FS_RemoveElement
<1>2. Cardinality(S) \in Nat /\ Cardinality(S \ {x}) \in Nat
  BY <1>1, FS_CardinalityType
<1> QED
  BY <1>1, <1>2

LEMMA OneMore ==
  ASSUME NEW S, IsFiniteSet(S), NEW x, x \notin S
  PROVE  Cardinality(S \cup {x}) = Cardinality(S) + 1
BY FS_AddElement

(* A created thread stays reachable when the worker that keeps it, or the run *)
(* queues, do.                                                                *)
LEMMA Reachable ==
  ASSUME IInv, NEW w \in Worker,
         \A v \in Worker : v # w => lastCreated'[v] = lastCreated[v] /\ current'[v] = current[v],
         \A t \in Thread : pc'[t] = "fresh" =>
           \/ pc[t] = "fresh" /\ (t \in ready => t \in ready')
                /\ (lastCreated[w] = t => t \in ready' \/ lastCreated'[w] = t)
           \/ lastCreated'[w] = t,
         phase = "running",
         lastCreated'[w] # NULL => current'[w] # NULL
  PROVE  CreationReachable'
<1> SUFFICES ASSUME NEW t \in Thread, pc'[t] = "fresh"
             PROVE  t \in ready' \/ \E v \in Worker : lastCreated'[v] = t /\ current'[v] # NULL
  BY DEF CreationReachable
<1>1. CASE lastCreated'[w] = t
  BY <1>1, Constants
<1>2. CASE pc[t] = "fresh" /\ t \in ready /\ t \in ready'
  BY <1>2
<1>3. CASE pc[t] = "fresh" /\ t \notin ready
  <2>1. PICK v \in Worker : lastCreated[v] = t /\ current[v] # NULL
    BY <1>3 DEF IInv, CreationReachable
  <2> QED
    BY <2>1, <1>1, <1>3
<1> QED
  BY <1>1, <1>2, <1>3

LEMMA YieldInv == ASSUME IInv, NEW w \in Worker, Yield(w) PROVE IInv'
<1> DEFINE j == current[w]
<1>1. /\ phase = "running" /\ j \in Thread /\ after[w].cb = "none" /\ foot[w] = NULL
      /\ lastCreated[w] # j
      /\ (\A v \in Worker : Hand(v, j) => v = w) /\ j \notin ready /\ pc[j] = "user"
  BY Constants, Types DEF IInv, Shape, ShapeAt, Unseen, Sole, Hand, Calling, At, Yield
<1>2. UNCHANGED <<phase, foot, inlineExec, pc, target, waiting, frame, uf, stackBase, owned,
                  alive>>
  BY <1>1 DEF Yield, Flush, Leave, joins, arena, workers
<1>3. /\ ready' = Flushed(w)
      /\ lastCreated' = [v \in Worker |-> IF v = w THEN NULL ELSE lastCreated[v]]
      /\ current' = [v \in Worker |-> IF v = w THEN NULL ELSE current[v]]
      /\ after' = [v \in Worker |-> IF v = w THEN [cb |-> "push", arg |-> j, me |-> j]
                                             ELSE after[v]]
  BY <1>1 DEF IInv, TypeOK, Yield, Flush, Leave
<1>4. TypeOK'
  BY <1>1, <1>2, <1>3, Constants DEF IInv, TypeOK, Pc, Phase, Flushed
<1>5. /\ Blank' /\ Joins' /\ Named' /\ Frames' /\ Counts' /\ Hosted'
      /\ StacksOwned' /\ Feet' /\ Alive'
  BY <1>2
     DEF IInv, Blank, Joins, JoinAt, Named, Frames, Counts, Inlined, Hosted, StacksOwned,
         Feet, OnStack, StackOf, Alive, Unfinished, Leaving
<1>6. Shape'
  BY <1>1, <1>2, <1>3, Constants, Types DEF IInv, Shape, ShapeAt, Hand
<1>7. Sole'
  BY <1>1, <1>2, <1>3, Constants, Types, Fresh
     DEF IInv, Sole, Hand, Pushes, Shape, ShapeAt, Flushed
<1>8. Held'
  BY <1>1, <1>2, <1>3, Constants, Types
     DEF IInv, Held, HandPc, RunningPc, Pushes, Unseen, Hand, Flushed
<1>9. Unseen'
  BY <1>1, <1>2, <1>3, Constants, Types DEF IInv, Unseen, Flushed
<1>10. CreationReachable'
  BY <1>1, <1>2, <1>3, Constants, Types, Reachable DEF IInv, Unseen, Flushed
<1>11. Parked'
  <2> SUFFICES ASSUME NEW i \in Thread, pc'[i] = "wait" PROVE ParkedAt(i)'
    BY DEF Parked, ParkedAt
  <2>1. ParkedAt(i) /\ pc[i] = "wait" /\ target'[i] = target[i] /\ target[i] \in Thread
    BY <1>1, <1>2, <1>3, Targets DEF IInv, Parked
  <2>2. i # j /\ i # lastCreated[w]
    BY <1>1, <2>1, Fresh, Constants
  <2>3. /\ i \in ready' => i \in ready
        /\ \A v \in Worker : current'[v] = i => current[v] = i
    BY <1>3, <2>2, Constants DEF Flushed
  <2>4. ASSUME NEW v \in Worker
        PROVE  /\ Pushes(v, i)' => Pushes(v, i)
               /\ after'[v].cb = "unlock" => after'[v] = after[v]
    BY <1>3, <2>2 DEF Pushes
  <2> QED
    BY <1>2, <2>1, <2>3, <2>4 DEF ParkedAt
<1>12. Left'
  <2> SUFFICES ASSUME NEW i \in Thread, NEW v \in Worker, pc'[i] = "wait",
                      pc'[target'[i]] = "done", foot'[v] = StackOf(target[i])'
               PROVE  Pushes(v, i)'
    BY DEF Left
  <2>1. pc[i] = "wait" /\ target'[i] = target[i] /\ target[i] \in Thread
    BY <1>1, <1>2, <1>3, Targets
  <2>2. pc[target[i]] = "done" /\ foot[v] = StackOf(target[i]) /\ foot[v] # NULL
    BY <1>1, <1>2, <1>3, <2>1, Constants DEF StackOf
  <2>3. v # w /\ Pushes(v, i)
    BY <1>1, <2>1, <2>2 DEF IInv, Left
  <2> QED
    BY <1>2, <1>3, <2>3 DEF Pushes
<1> QED
  BY <1>4, <1>5, <1>6, <1>7, <1>8, <1>9, <1>10, <1>11, <1>12 DEF IInv

LEMMA ExitInv == ASSUME IInv, NEW w \in Worker, Exit(w) PROVE IInv'
<1> DEFINE j == current[w]
<1>1. /\ phase = "running" /\ j \in Thread /\ after[w].cb = "none" /\ foot[w] = NULL
      /\ lastCreated[w] # j
      /\ (\A v \in Worker : Hand(v, j) => v = w) /\ j \notin ready
      /\ pc[j] = "user" /\ frame[j] = NoFrame
  BY Constants, Types DEF IInv, Shape, ShapeAt, Unseen, Sole, Hand, Calling, At, Exit
<1>2. UNCHANGED <<phase, current, after, foot, inlineExec, target, waiting, frame, uf,
                  stackBase, owned, alive>>
  BY <1>1 DEF Exit, Flush, joins, arena, workers
<1>3. /\ ready' = Flushed(w)
      /\ lastCreated' = [v \in Worker |-> IF v = w THEN NULL ELSE lastCreated[v]]
      /\ pc' = [u \in Thread |-> IF u = j THEN "exit" ELSE pc[u]]
  BY <1>1 DEF IInv, TypeOK, Exit, Flush
<1>4. TypeOK'
  BY <1>1, <1>2, <1>3, Constants DEF IInv, TypeOK, Pc, Phase, Flushed
<1>5. Counts' /\ StacksOwned'
  BY <1>2 DEF IInv, Counts, Inlined, StacksOwned
<1>6. Shape'
  BY <1>1, <1>2, <1>3, Constants, Types DEF IInv, Shape, ShapeAt, Hand
<1>7. Sole'
  <2> SUFFICES ASSUME NEW t \in Thread, NEW v \in Worker, Hand(v, t)'
               PROVE  t \notin ready' /\ \A u \in Worker : Hand(u, t)' => u = v
    BY DEF Sole
  <2>1. Hand(v, t) /\ lastCreated[w] # t
    BY <1>1, <1>2, <1>3, Constants, Fresh DEF Hand, Pushes
  <2> QED
    BY <1>2, <1>3, <2>1 DEF IInv, Sole, Hand, Pushes, Flushed
<1>8. Held'
  <2>1. ASSUME NEW t \in Thread, NEW v \in Worker PROVE HandPc(v, t)'
    <3>1. HandPc(v, t) /\ (t = j /\ Hand(v, t) => v = w)
      BY <1>1 DEF IInv, Held
    <3>2. t # j => pc'[t] = pc[t]
      BY <1>3
    <3> QED
      BY <1>1, <1>2, <1>3, <3>1, <3>2, Types DEF IInv, HandPc, RunningPc, Hand, Pushes
  <2>2. \A t \in ready' : pc'[t] \in {"fresh", "user", "wait", "parked"}
    BY <1>1, <1>2, <1>3, Fresh, Types DEF IInv, Held, Flushed
  <2> QED
    BY <2>1, <2>2 DEF Held
<1>9. Unseen'
  BY <1>1, <1>2, <1>3, Constants, Types DEF IInv, Unseen, Flushed
<1>10. CreationReachable'
  BY <1>1, <1>2, <1>3, Constants, Types, Reachable DEF IInv, Unseen, Flushed
<1>11. Blank'
  BY <1>1, <1>2, <1>3, Constants, Types DEF IInv, Blank, Unused
<1>12. Joins'
  <2> SUFFICES ASSUME NEW i \in Thread PROVE JoinAt(i)'
    BY DEF Joins
  <2>1. JoinAt(i) /\ target[i] \in Thread \cup {NULL}
    BY Types DEF IInv, Joins
  <2> QED
    BY <1>1, <1>2, <1>3, <2>1, Constants DEF JoinAt, Unused
<1>13. Named'
  BY <1>1, <1>2, <1>3, Constants, Types, Targets DEF IInv, Named, Unused
<1>14. Parked'
  <2> SUFFICES ASSUME NEW i \in Thread, pc'[i] = "wait" PROVE ParkedAt(i)'
    BY DEF Parked, ParkedAt
  <2>1. ParkedAt(i) /\ pc[i] = "wait" /\ target'[i] = target[i] /\ target[i] \in Thread
    BY <1>1, <1>2, <1>3, Targets DEF IInv, Parked
  <2>2. i # j /\ i # lastCreated[w]
    BY <1>1, <2>1, Fresh, Constants
  <2> QED
    BY <1>1, <1>2, <1>3, <2>1, <2>2 DEF ParkedAt, Pushes, Flushed
<1>15. Frames'
  BY <1>1, <1>2, <1>3, Constants, Types DEF IInv, Frames
<1>16. Hosted'
  BY <1>1, <1>2, <1>3, Constants, Types DEF IInv, Hosted, Unused
<1>17. Feet'
  BY <1>1, <1>2, <1>3, Constants, Types DEF IInv, Feet, OnStack, StackOf, Unused
<1>18. Left'
  BY <1>1, <1>2, <1>3, Constants, Types, Targets DEF IInv, Left, StackOf, Pushes
<1>19. Alive'
  BY <1>1, <1>2, <1>3, Constants, Types DEF IInv, Alive, Unfinished, Leaving, Unused
<1> QED
  BY <1>4, <1>5, <1>6, <1>7, <1>8, <1>9, <1>10, <1>11, <1>12, <1>13, <1>14, <1>15, <1>16,
     <1>17, <1>18, <1>19
     DEF IInv

LEMMA JoinInv == ASSUME IInv, NEW w \in Worker, NEW t \in Thread, Join(w, t) PROVE IInv'
<1> DEFINE j == current[w]
<1>1. /\ phase = "running" /\ j \in Thread /\ after[w].cb = "none" /\ foot[w] = NULL
      /\ lastCreated[w] # j
      /\ (\A v \in Worker : Hand(v, j) => v = w) /\ j \notin ready
      /\ pc[j] = "user" /\ pc[t] \notin Unused
      /\ lastCreated[w] # t /\ \A i \in Thread : target[i] # t
  BY Constants, Types DEF IInv, Shape, ShapeAt, Unseen, Sole, Hand, Calling, At, Join, Joining
<1>2. UNCHANGED <<phase, current, after, foot, inlineExec, waiting, frame, uf, stackBase,
                  owned, alive>>
  BY <1>1 DEF Join, Joining, Flush, joins, arena, workers
<1>3. /\ ready' = Flushed(w)
      /\ lastCreated' = [v \in Worker |-> IF v = w THEN NULL ELSE lastCreated[v]]
      /\ pc' = [u \in Thread |-> IF u = j THEN "join" ELSE pc[u]]
      /\ target' = [u \in Thread |-> IF u = j THEN t ELSE target[u]]
  BY <1>1 DEF IInv, TypeOK, Join, Joining, Flush
<1>4. TypeOK'
  BY <1>1, <1>2, <1>3, Constants DEF IInv, TypeOK, Pc, Phase, Flushed
<1>5. Counts' /\ StacksOwned'
  BY <1>2 DEF IInv, Counts, Inlined, StacksOwned
<1>6. Shape'
  BY <1>1, <1>2, <1>3, Constants, Types DEF IInv, Shape, ShapeAt, Hand
<1>7. Sole'
  <2> SUFFICES ASSUME NEW x \in Thread, NEW v \in Worker, Hand(v, x)'
               PROVE  x \notin ready' /\ \A u \in Worker : Hand(u, x)' => u = v
    BY DEF Sole
  <2>1. Hand(v, x) /\ lastCreated[w] # x
    BY <1>1, <1>2, <1>3, Constants, Fresh DEF Hand, Pushes
  <2> QED
    BY <1>2, <1>3, <2>1 DEF IInv, Sole, Hand, Pushes, Flushed
<1>8. Held'
  <2>1. ASSUME NEW x \in Thread, NEW v \in Worker PROVE HandPc(v, x)'
    <3>1. HandPc(v, x) /\ (x = j /\ Hand(v, x) => v = w)
      BY <1>1 DEF IInv, Held
    <3>2. x # j => pc'[x] = pc[x]
      BY <1>3
    <3> QED
      BY <1>1, <1>2, <1>3, <3>1, <3>2, Types DEF IInv, HandPc, RunningPc, Hand, Pushes
  <2>2. \A x \in ready' : pc'[x] \in {"fresh", "user", "wait", "parked"}
    BY <1>1, <1>2, <1>3, Fresh, Types DEF IInv, Held, Flushed
  <2> QED
    BY <2>1, <2>2 DEF Held
<1>9. Unseen'
  BY <1>1, <1>2, <1>3, Constants, Types DEF IInv, Unseen, Flushed
<1>10. CreationReachable'
  BY <1>1, <1>2, <1>3, Constants, Types, Reachable DEF IInv, Unseen, Flushed
<1>11. Blank'
  BY <1>1, <1>2, <1>3, Constants, Types DEF IInv, Blank, Unused
<1>12. Joins'
  <2> SUFFICES ASSUME NEW i \in Thread PROVE JoinAt(i)'
    BY DEF Joins
  <2>1. JoinAt(i) /\ target[i] \in Thread \cup {NULL}
    BY Types DEF IInv, Joins
  <2> QED
    BY <1>1, <1>2, <1>3, <2>1, Constants DEF JoinAt, Unused
<1>13. Named'
  BY <1>1, <1>2, <1>3, Constants, Types, Targets DEF IInv, Named, Unused
<1>14. Parked'
  <2> SUFFICES ASSUME NEW i \in Thread, pc'[i] = "wait" PROVE ParkedAt(i)'
    BY DEF Parked, ParkedAt
  <2>1. ParkedAt(i) /\ pc[i] = "wait" /\ target'[i] = target[i] /\ target[i] \in Thread
    BY <1>1, <1>2, <1>3, Targets DEF IInv, Parked
  <2>2. i # j /\ i # lastCreated[w]
    BY <1>1, <2>1, Fresh, Constants
  <2> QED
    BY <1>1, <1>2, <1>3, <2>1, <2>2 DEF ParkedAt, Pushes, Flushed
<1>15. Frames'
  BY <1>1, <1>2, <1>3, Constants, Types DEF IInv, Frames
<1>16. Hosted'
  BY <1>1, <1>2, <1>3, Constants, Types DEF IInv, Hosted, Unused
<1>17. Feet'
  BY <1>1, <1>2, <1>3, Constants, Types DEF IInv, Feet, OnStack, StackOf, Unused
<1>18. Left'
  BY <1>1, <1>2, <1>3, Constants, Types, Targets DEF IInv, Left, StackOf, Pushes
<1>19. Alive'
  BY <1>1, <1>2, <1>3, Constants, Types DEF IInv, Alive, Unfinished, Leaving, Unused
<1> QED
  BY <1>4, <1>5, <1>6, <1>7, <1>8, <1>9, <1>10, <1>11, <1>12, <1>13, <1>14, <1>15, <1>16,
     <1>17, <1>18, <1>19
     DEF IInv

LEMMA ExitLeaveInv == ASSUME IInv, NEW w \in Worker, ExitLeave(w) PROVE IInv'
<1> DEFINE j == current[w]
<1>1. /\ phase = "running" /\ foot[w] # NULL /\ current[w] = NULL /\ lastCreated[w] = NULL
  BY Constants, Types DEF IInv, Shape, ShapeAt, ExitLeave
<1>2. UNCHANGED <<ready, current, after, lastCreated, inlineExec, pc, target, waiting, frame,
                  uf, stackBase, owned>>
  BY <1>1 DEF ExitLeave, joins, arena, workers
<1>3. /\ alive' = alive - 1 /\ phase' \in {"running", "exited"}
      /\ foot' = [v \in Worker |-> IF v = w THEN NULL ELSE foot[v]]
  BY <1>1 DEF IInv, TypeOK, ExitLeave
<1>4. alive - 1 \in Nat
  <2>1. w \in Leaving
    BY <1>1 DEF Leaving
  <2>2. Cardinality(Leaving) \in Nat \ {0}
    BY <2>1, Counted, OneLess
  <2> QED
    BY <2>2, Counted DEF IInv, Alive
<1>5. TypeOK'
  BY <1>1, <1>2, <1>3, Constants, <1>4 DEF IInv, TypeOK, Pc, Phase
<1>6. /\ Sole' /\ Unseen' /\ Blank' /\ Joins' /\ Named' /\ Parked' /\ Frames'
      /\ Counts' /\ Hosted' /\ StacksOwned'
  BY <1>2
     DEF IInv, Sole, Hand, Pushes, Shape, ShapeAt, Unseen, Blank, Joins, JoinAt, Named,
         Parked, ParkedAt, Frames, Counts, Inlined, Hosted, StacksOwned
<1>7. Shape'
  BY <1>1, <1>2, <1>3, Constants, Types DEF IInv, Shape, ShapeAt
<1>8. Held'
  BY <1>1, <1>2, <1>3, Constants, Types DEF IInv, Held, HandPc, RunningPc, Pushes
<1>9. CreationReachable'
  <2>1. \A t \in Thread : pc'[t] = "fresh" =>
          t \in ready \/ \E v \in Worker : lastCreated[v] = t /\ current[v] # NULL
    BY <1>1, <1>2 DEF IInv, CreationReachable
  <2> QED
    BY <1>2, <2>1 DEF CreationReachable
<1>10. Feet'
  BY <1>1, <1>2, <1>3, Constants, Types DEF IInv, Feet, OnStack, StackOf, Unused
<1>11. Left'
  <2> SUFFICES ASSUME NEW i \in Thread, NEW v \in Worker, pc'[i] = "wait",
                      pc'[target'[i]] = "done", foot'[v] = StackOf(target[i])'
               PROVE  Pushes(v, i)'
    BY DEF Left
  <2>1. pc[i] = "wait" /\ target'[i] = target[i] /\ target[i] \in Thread
    BY <1>1, <1>2, <1>3, Targets
  <2>2. pc[target[i]] = "done" /\ foot[v] = StackOf(target[i])
    BY <1>1, <1>2, <1>3, <2>1, Constants DEF StackOf
  <2> QED
    BY <1>2, <1>3, <2>1, <2>2 DEF IInv, Left, Pushes
<1>12. Alive'
  <2>1. Leaving' = Leaving \ {w} /\ Unfinished' = Unfinished /\ w \in Leaving
    BY <1>1, <1>2, <1>3 DEF Leaving, Unfinished
  <2>2. Cardinality(Leaving \ {w}) = Cardinality(Leaving) - 1
    BY <2>1, Counted, OneLess
  <2> QED
    BY <1>3, <2>1, <2>2, Counted DEF IInv, Alive
<1> QED
  BY <1>5, <1>6, <1>7, <1>8, <1>9, <1>10, <1>11, <1>12 DEF IInv

LEMMA MainReturnsInv == ASSUME IInv, NEW w \in Worker, MainReturns(w) PROVE IInv'
<1> DEFINE j == current[w]
<1>1. phase = "running"
  BY Constants, Types DEF IInv, MainReturns, Calling, At
<1>2. UNCHANGED <<ready, current, after, foot, lastCreated, inlineExec, pc, target, waiting,
                  frame, uf, stackBase, owned, alive>>
  BY <1>1 DEF MainReturns, joins, arena, workers
<1>3. phase' = "returned"
  BY <1>1 DEF IInv, TypeOK, MainReturns
<1>4. TypeOK'
  BY <1>1, <1>2, <1>3, Constants DEF IInv, TypeOK, Pc, Phase
<1>5. /\ Shape' /\ Sole' /\ Unseen' /\ Blank' /\ Joins' /\ Named' /\ Parked'
      /\ Frames' /\ Counts' /\ Hosted' /\ StacksOwned' /\ Left' /\ Alive'
  BY <1>2
     DEF IInv, Shape, ShapeAt, Sole, Hand, Pushes, Unseen, Blank, Joins, JoinAt, Named,
         Parked, ParkedAt, Frames, Counts, Inlined, Hosted, StacksOwned, Left, StackOf, Alive,
         Unfinished, Leaving
<1>6. Held'
  BY <1>1, <1>2, <1>3, Constants, Types DEF IInv, Held, HandPc, RunningPc, Pushes
<1>7. CreationReachable'
  BY <1>1, <1>2, <1>3, Constants, Types DEF IInv, Unseen, CreationReachable
<1>8. Feet'
  BY <1>1, <1>2, <1>3, Constants, Types DEF IInv, Feet, OnStack, StackOf, Unused
<1> QED
  BY <1>4, <1>5, <1>6, <1>7, <1>8 DEF IInv

LEMMA AfterSwitchInv == ASSUME IInv, NEW w \in Worker, AfterSwitch(w) PROVE IInv'
<1> DEFINE j == current[w]
<1>1. /\ phase = "running" /\ current[w] = NULL /\ foot[w] = NULL /\ lastCreated[w] = NULL
  BY Constants, Types DEF IInv, AfterSwitch, InLoop, Shape, ShapeAt
<1>2. UNCHANGED <<phase, current, foot, lastCreated, inlineExec, pc, target, waiting, frame,
                  uf, stackBase, owned, alive>>
  BY <1>1 DEF AfterSwitch, joins, arena, workers
<1>3. /\ ready' = IF after[w].cb = "push" THEN ready \cup {after[w].arg} ELSE ready
      /\ after' = [v \in Worker |-> IF v = w THEN [cb |-> "none", arg |-> NULL, me |-> NULL]
                                             ELSE after[v]]
  BY <1>1 DEF IInv, TypeOK, AfterSwitch, NoCallback
<1>4. TypeOK'
  BY <1>1, <1>2, <1>3, Constants DEF IInv, TypeOK, Pc, Phase, Shape, ShapeAt
<1>5. /\ Blank' /\ Joins' /\ Named' /\ Frames' /\ Counts' /\ Hosted'
      /\ StacksOwned' /\ Feet' /\ Alive'
  BY <1>2
     DEF IInv, Blank, Joins, JoinAt, Named, Frames, Counts, Inlined, Hosted, StacksOwned,
         Feet, OnStack, StackOf, Alive, Unfinished, Leaving
<1>6. Shape'
  BY <1>1, <1>2, <1>3, Constants, Types DEF IInv, Shape, ShapeAt
<1>7. Sole'
  BY <1>1, <1>2, <1>3, Constants, Types DEF IInv, Sole, Hand, Pushes, Shape, ShapeAt
<1>8. Held'
  <2>1. ASSUME NEW t \in Thread, NEW v \in Worker PROVE HandPc(v, t)'
    <3>1. HandPc(v, t)
      BY DEF IInv, Held
    <3>2. CASE v = w
      BY <1>1, <1>2, <1>3, <3>2, Constants DEF HandPc, Pushes
    <3>3. CASE v # w
      BY <1>2, <1>3, <3>1, <3>3 DEF HandPc, RunningPc, Pushes
    <3> QED
      BY <3>2, <3>3
  <2>2. after[w].cb = "push" =>
          after[w].arg \in Thread /\ pc[after[w].arg] \in {"user", "wait"}
    BY Constants DEF IInv, Shape, ShapeAt, Held, HandPc, Pushes
  <2> QED
    BY <1>2, <1>3, <2>1, <2>2 DEF IInv, Held
<1>9. Unseen'
  BY <1>1, <1>2, <1>3, Constants, Types, Fresh DEF IInv, Unseen, Hand, Pushes, Shape, ShapeAt
<1>10. CreationReachable'
  BY <1>1, <1>2, <1>3, Constants, Types, Reachable DEF IInv, Unseen
<1>11. Parked'
  BY <1>1, <1>2, <1>3, Constants, Types, Targets DEF IInv, Parked, ParkedAt, Pushes
<1>12. Left'
  BY <1>1, <1>2, <1>3, Constants, Types, Targets DEF IInv, Left, StackOf, Pushes
<1> QED
  BY <1>4, <1>5, <1>6, <1>7, <1>8, <1>9, <1>10, <1>11, <1>12 DEF IInv

LEMMA ResumeInv == ASSUME IInv, NEW w \in Worker, NEW t \in Thread, Resume(w, t) PROVE IInv'
<1> DEFINE j == current[w]
<1>1. /\ phase = "running" /\ current[w] = NULL /\ foot[w] = NULL /\ lastCreated[w] = NULL
      /\ after[w].cb = "none" /\ t \in ready /\ pc[t] # "fresh"
  BY Constants, Types DEF IInv, Resume, Taking, InLoop, Shape, ShapeAt, NoCallback
<1>2. UNCHANGED <<phase, after, foot, lastCreated, inlineExec, pc, target, waiting, frame,
                  uf, stackBase, owned, alive>>
  BY <1>1 DEF Resume, Taking, joins, arena, workers
<1>3. /\ ready' = ready \ {t}
      /\ current' = [v \in Worker |-> IF v = w THEN t ELSE current[v]]
  BY <1>1 DEF IInv, TypeOK, Resume, Taking
<1>4. TypeOK'
  BY <1>1, <1>2, <1>3, Constants DEF IInv, TypeOK, Pc, Phase
<1>5. /\ Blank' /\ Joins' /\ Named' /\ Frames' /\ Counts' /\ Hosted'
      /\ StacksOwned' /\ Feet' /\ Left' /\ Alive'
  BY <1>2
     DEF IInv, Blank, Joins, JoinAt, Named, Frames, Counts, Inlined, Hosted, StacksOwned,
         Feet, OnStack, StackOf, Left, Pushes, Alive, Unfinished, Leaving
<1>6. Shape'
  BY <1>1, <1>2, <1>3, Constants, Types DEF IInv, Shape, ShapeAt
<1>7. Sole'
  BY <1>1, <1>2, <1>3, Constants, Types DEF IInv, Sole, Hand, Pushes, Shape, ShapeAt
<1>8. Held'
  BY <1>1, <1>2, <1>3, Constants, Types DEF IInv, Held, HandPc, RunningPc, Pushes
<1>9. Unseen'
  BY <1>1, <1>2, <1>3, Constants, Types DEF IInv, Unseen
<1>10. CreationReachable'
  BY <1>1, <1>2, <1>3, Constants, Types, Reachable DEF IInv, Unseen
<1>11. Parked'
  BY <1>1, <1>2, <1>3, Constants, Types, Targets DEF IInv, Parked, ParkedAt, Pushes
<1> QED
  BY <1>4, <1>5, <1>6, <1>7, <1>8, <1>9, <1>10, <1>11 DEF IInv

LEMMA StartAbortsInv ==
  ASSUME IInv, NEW w \in Worker, NEW t \in Thread, StartAborts(w, t)
  PROVE  IInv'
<1> DEFINE j == current[w]
<1>1. /\ phase = "running" /\ current[w] = NULL /\ foot[w] = NULL /\ lastCreated[w] = NULL
      /\ after[w].cb = "none" /\ t \in ready /\ pc[t] = "fresh"
  BY Constants, Types DEF IInv, StartAborts, Taking, InLoop, Shape, ShapeAt, NoCallback
<1>2. UNCHANGED <<after, foot, lastCreated, inlineExec, pc, target, waiting, frame, uf,
                  stackBase, owned, alive>>
  BY <1>1 DEF StartAborts, Taking, joins, arena, workers
<1>3. /\ ready' = ready \ {t}
      /\ current' = [v \in Worker |-> IF v = w THEN t ELSE current[v]] /\ phase' = "aborted"
  BY <1>1 DEF IInv, TypeOK, StartAborts, Taking
<1>4. TypeOK'
  BY <1>1, <1>2, <1>3, Constants DEF IInv, TypeOK, Pc, Phase
<1>5. /\ Blank' /\ Joins' /\ Named' /\ Frames' /\ Counts' /\ Hosted'
      /\ StacksOwned' /\ Left' /\ Alive'
  BY <1>2
     DEF IInv, Blank, Joins, JoinAt, Named, Frames, Counts, Inlined, Hosted, StacksOwned,
         Left, StackOf, Pushes, Alive, Unfinished, Leaving
<1>6. Shape'
  BY <1>1, <1>2, <1>3, Constants, Types DEF IInv, Shape, ShapeAt
<1>7. Sole'
  BY <1>1, <1>2, <1>3, Constants, Types DEF IInv, Sole, Hand, Pushes, Shape, ShapeAt
<1>8. Held'
  BY <1>1, <1>2, <1>3, Constants, Types DEF IInv, Held, HandPc, RunningPc, Pushes
<1>9. Unseen'
  BY <1>1, <1>2, <1>3, Constants, Types DEF IInv, Unseen
<1>10. CreationReachable'
  BY <1>1, <1>2, <1>3, Constants, Types DEF IInv, Unseen, CreationReachable
<1>11. Parked'
  BY <1>1, <1>2, <1>3, Constants, Types, Targets DEF IInv, Parked, ParkedAt, Pushes
<1>12. Feet'
  BY <1>1, <1>2, <1>3, Constants, Types DEF IInv, Feet, OnStack, StackOf, Unused
<1> QED
  BY <1>4, <1>5, <1>6, <1>7, <1>8, <1>9, <1>10, <1>11, <1>12 DEF IInv

LEMMA CreateInv == ASSUME IInv, NEW w \in Worker, NEW t \in Thread, Create(w, t) PROVE IInv'
<1> DEFINE j == current[w]
<1>1. /\ phase = "running" /\ current[w] # NULL /\ pc[j] = "user" /\ pc[t] = "free"
  BY Constants, Types DEF IInv, Create, Calling, At
<1>2. /\ j \in Thread /\ after[w].cb = "none" /\ foot[w] = NULL
      /\ (\A v \in Worker : Hand(v, j) => v = w) /\ j \notin ready
      /\ \A v \in Worker : lastCreated[v] # j
      /\ t # j /\ frame[t] = NoFrame /\ stackBase[t] = NULL
      /\ waiting[t] = NULL /\ target[t] = NULL
      /\ t \notin ready /\ (\A i \in Thread : target[i] # t)
      /\ \A v \in Worker : ~Hand(v, t) /\ lastCreated[v] # t
  BY <1>1, Constants, Caller, Unheld, NobodyWaits, NobodyJoins, NoTarget, IsBlank, NotCreated,
     Fresh
     DEF IInv, Held, Unused
<1>3. UNCHANGED <<phase, current, after, foot, inlineExec, target, waiting, frame, stackBase,
                  owned>>
  BY <1>2 DEF IInv, TypeOK, Create, workers
<1>4. /\ ready' = Flushed(w)
      /\ lastCreated' = [v \in Worker |-> IF v = w THEN t ELSE lastCreated[v]]
      /\ pc' = [u \in Thread |-> IF u = t THEN "fresh" ELSE pc[u]]
      /\ alive' = alive + 1
  BY <1>1, <1>2 DEF IInv, TypeOK, Create
<1>5. TypeOK'
  <2>1. alive' \in Nat
    BY <1>4 DEF IInv, TypeOK
  <2> QED
    BY <1>1, <1>2, <1>3, <1>4, <2>1, Constants DEF IInv, TypeOK, Pc, Phase, Flushed
<1>6. Counts' /\ StacksOwned'
  BY <1>3 DEF IInv, Counts, Inlined, StacksOwned
<1>7. Shape'
  BY <1>1, <1>2, <1>3, <1>4, Constants, Types DEF IInv, Shape, ShapeAt
<1>8. Sole'
  <2> SUFFICES ASSUME NEW u \in Thread, NEW v \in Worker, Hand(v, u)'
               PROVE  u \notin ready' /\ \A x \in Worker : Hand(x, u)' => x = v
    BY DEF Sole
  <2>1. Hand(v, u) /\ lastCreated[w] # u
    BY <1>1, <1>3, Constants, Fresh DEF Hand, Pushes
  <2> QED
    BY <1>3, <1>4, <2>1 DEF IInv, Sole, Hand, Pushes, Flushed
<1>9. Held'
  BY <1>1, <1>2, <1>3, <1>4, Constants, Types, Fresh
     DEF IInv, Held, HandPc, RunningPc, Pushes, Hand, Flushed
<1>10. Unseen'
  BY <1>1, <1>2, <1>3, <1>4, Constants, Types, Fresh DEF IInv, Unseen, Flushed
<1>11. CreationReachable'
  BY <1>1, <1>2, <1>3, <1>4, Constants, Types, Reachable DEF IInv, Unseen, Flushed
<1>12. Blank'
  BY <1>1, <1>2, <1>3, <1>4, Constants, Types DEF IInv, Blank, Unused
<1>13. Joins'
  <2> SUFFICES ASSUME NEW i \in Thread PROVE JoinAt(i)'
    BY DEF Joins
  <2>1. JoinAt(i) /\ target[i] \in Thread \cup {NULL} /\ target[i] # t
    BY <1>2, Types DEF IInv, Joins
  <2> QED
    BY <1>1, <1>2, <1>3, <1>4, <2>1, Constants DEF JoinAt, Unused
<1>14. Named'
  BY <1>1, <1>2, <1>3, <1>4, Constants, Types, Targets DEF IInv, Named, Unused
<1>15. Parked'
  BY <1>1, <1>2, <1>3, <1>4, Constants, Types, Fresh, Targets
     DEF IInv, Parked, ParkedAt, Pushes, Hand, Flushed
<1>16. Frames'
  BY <1>1, <1>2, <1>3, <1>4, Constants, Types DEF IInv, Frames
<1>17. Hosted'
  BY <1>1, <1>2, <1>3, <1>4, Constants, Types DEF IInv, Hosted, Unused
<1>18. Feet'
  BY <1>1, <1>2, <1>3, <1>4, Constants, Types DEF IInv, Feet, OnStack, StackOf, Unused
<1>19. Left'
  <2> SUFFICES ASSUME NEW i \in Thread, NEW v \in Worker, pc'[i] = "wait",
                      pc'[target'[i]] = "done", foot'[v] = StackOf(target[i])'
               PROVE  Pushes(v, i)'
    BY DEF Left
  <2>1. pc[i] = "wait" /\ target'[i] = target[i] /\ target[i] \in Thread
    BY <1>1, <1>2, <1>3, <1>4, ReleasedUnused, Targets
  <2>2. pc[target[i]] = "done" /\ foot[v] = StackOf(target[i])
    BY <1>1, <1>2, <1>3, <1>4, <2>1, ReleasedUnused, Constants DEF StackOf
  <2>3. Pushes(v, i)
    BY <2>1, <2>2 DEF IInv, Left
  <2> QED
    BY <1>3, <2>3 DEF Pushes
<1>20. Alive'
  <2>1. Unfinished' = Unfinished \cup {t} /\ t \notin Unfinished /\ Leaving' = Leaving
    BY <1>1, <1>3, <1>4 DEF Unfinished, Leaving, Unused
  <2>2. Cardinality(Unfinished \cup {t}) = Cardinality(Unfinished) + 1
    BY <2>1, Counted, OneMore
  <2> QED
    BY <1>4, <2>1, <2>2, Counted DEF IInv, Alive
<1> QED
  BY <1>5, <1>6, <1>7, <1>8, <1>9, <1>10, <1>11, <1>12, <1>13, <1>14, <1>15, <1>16, <1>17,
     <1>18, <1>19, <1>20
     DEF IInv

LEMMA JoinInlineInv ==
  ASSUME IInv, NEW w \in Worker, NEW t \in Thread, JoinInline(w, t)
  PROVE  IInv'
<1> DEFINE j == current[w]
<1>1. /\ phase = "running" /\ current[w] # NULL /\ pc[j] = "user" /\ lastCreated[w] = t
      /\ \A i \in Thread : target[i] # t
  BY Constants, Types DEF IInv, JoinInline, Joining, Calling, At
<1>2. /\ j \in Thread /\ after[w].cb = "none" /\ foot[w] = NULL
      /\ (\A v \in Worker : Hand(v, j) => v = w) /\ j \notin ready
      /\ \A v \in Worker : lastCreated[v] # j
      /\ t # j /\ pc[t] = "fresh" /\ frame[t] = NoFrame /\ stackBase[t] = NULL
      /\ waiting[t] = NULL /\ target[t] = NULL /\ target[j] = NULL
      /\ t \notin ready
      /\ \A v \in Worker : ~Hand(v, t) /\ (lastCreated[v] = t => v = w)
  BY <1>1, Constants, Caller, Unheld, NobodyWaits, NobodyJoins, NoTarget, IsBlank, NotCreated,
     Fresh
     DEF Unused
<1>3. UNCHANGED <<phase, ready, after, foot, waiting, stackBase, owned, alive>>
  BY <1>1, <1>2 DEF JoinInline, joins, arena, workers
<1>4. /\ lastCreated' = [v \in Worker |-> IF v = w THEN NULL ELSE lastCreated[v]]
      /\ current' = [v \in Worker |-> IF v = w THEN t ELSE current[v]]
      /\ inlineExec' = [v \in Worker |-> IF v = w THEN inlineExec[w] + 1 ELSE inlineExec[v]]
      /\ pc' = [u \in Thread |-> IF u = j THEN "inline" ELSE IF u = t THEN "user" ELSE pc[u]]
      /\ target' = [u \in Thread |-> IF u = j THEN t ELSE target[u]]
      /\ frame' = [u \in Thread |-> IF u = t THEN [joiner |-> j, worker |-> w] ELSE frame[u]]
  <2>1. /\ lastCreated' = [lastCreated EXCEPT ![w] = NULL] /\ current' = [current EXCEPT ![w] = t]
        /\ inlineExec' = [inlineExec EXCEPT ![w] = @ + 1] /\ target' = [target EXCEPT ![j] = t]
        /\ pc' = [pc EXCEPT ![j] = "inline", ![t] = "user"]
        /\ frame' = [frame EXCEPT ![t] = [joiner |-> j, worker |-> w]]
    BY DEF JoinInline
  <2> QED
    BY <1>1, <1>2, <2>1 DEF IInv, TypeOK
<1>5. TypeOK'
  BY <1>1, <1>2, <1>3, <1>4, Constants DEF IInv, TypeOK, Pc, Phase
<1>6. StacksOwned'
  BY <1>3 DEF IInv, StacksOwned
<1>7. Shape'
  BY <1>1, <1>2, <1>3, <1>4, Constants, Types DEF IInv, Shape, ShapeAt
<1>8. Sole'
  BY <1>1, <1>2, <1>3, <1>4, Constants, Types
     DEF IInv, Sole, Hand, Pushes, Shape, ShapeAt, Hand
<1>9. Held'
  <2>1. ASSUME NEW u \in Thread, NEW v \in Worker PROVE HandPc(v, u)'
    <3>1. HandPc(v, u)
      BY DEF IInv, Held
    <3>2. u # t /\ u # j => pc'[u] = pc[u]
      BY <1>4
    <3> QED
      BY <1>1, <1>2, <1>3, <1>4, <3>1, <3>2, Types DEF HandPc, RunningPc, Hand, Pushes
  <2>2. \A u \in ready' : pc'[u] \in {"fresh", "user", "wait", "parked"}
    BY <1>1, <1>2, <1>3, <1>4, Types DEF IInv, Held
  <2> QED
    BY <2>1, <2>2 DEF Held
<1>10. Unseen'
  BY <1>1, <1>2, <1>3, <1>4, Constants, Types DEF IInv, Unseen
<1>11. CreationReachable'
  BY <1>1, <1>2, <1>3, <1>4, Constants, Types, Reachable DEF IInv, Unseen
<1>12. Blank'
  BY <1>1, <1>2, <1>3, <1>4, Constants, Types DEF IInv, Blank, Unused
<1>13. Joins'
  BY <1>1, <1>2, <1>3, <1>4, Constants, Types DEF IInv, Joins, JoinAt, Unused
<1>14. Named'
  BY <1>1, <1>2, <1>3, <1>4, Constants, Types, Targets DEF IInv, Named, Unused
<1>15. Parked'
  <2> SUFFICES ASSUME NEW i \in Thread, pc'[i] = "wait" PROVE ParkedAt(i)'
    BY DEF Parked, ParkedAt
  <2>1. /\ ParkedAt(i) /\ pc[i] = "wait" /\ target'[i] = target[i] /\ target[i] \in Thread
        /\ i # t /\ i # j
    BY <1>1, <1>2, <1>3, <1>4, Targets DEF IInv, Parked
  <2>2. pc[target[i]] = "done" => pc'[target[i]] = "done"
    BY <1>1, <1>2, <1>4, <2>1
  <2>3. /\ i \in ready' => i \in ready
        /\ \A v \in Worker : current'[v] = i => current[v] = i
    BY <1>3, <1>4, <2>1
  <2> QED
    BY <1>3, <2>1, <2>2, <2>3 DEF ParkedAt, Pushes
<1>16. Frames'
  BY <1>1, <1>2, <1>3, <1>4, Constants, Types DEF IInv, Frames
<1>17. Counts'
  <2> SUFFICES ASSUME NEW v \in Worker PROVE inlineExec'[v] = Cardinality(Inlined(v)')
    BY DEF Counts
  <2>1. frame'[t] = [joiner |-> j, worker |-> w] /\ frame'[t] # NoFrame
    BY <1>2, <1>4, Constants DEF NoFrame
  <2>2. CASE v = w
    <3>1. Inlined(w)' = Inlined(w) \cup {t} /\ t \notin Inlined(w)
      BY <1>2, <1>4, <2>1 DEF Inlined
    <3>2. Cardinality(Inlined(w) \cup {t}) = Cardinality(Inlined(w)) + 1
      BY <3>1, InlinedFinite, OneMore
    <3> QED
      BY <1>4, <2>2, <3>1, <3>2 DEF IInv, Counts
  <2>3. CASE v # w
    <3>1. Inlined(v)' = Inlined(v)
      BY <1>2, <1>4, <2>1, <2>3 DEF Inlined
    <3> QED
      BY <1>4, <2>3, <3>1 DEF IInv, Counts
  <2> QED
    BY <2>2, <2>3
<1>18. Hosted'
  <2> SUFFICES ASSUME NEW u \in Thread, stackBase'[u] = NULL,
                      pc'[u] \notin Unused \cup {"fresh"},
                      frame'[u] = NoFrame, u # Main
               PROVE  pc'[u] = "done" /\ \E i \in Thread : pc'[i] = "reap" /\ target'[i] = u
    BY DEF Hosted
  <2>1. u # t
    BY <1>2, <1>4, Constants DEF NoFrame
  <2>2. stackBase[u] = NULL /\ pc[u] \notin Unused \cup {"fresh"} /\ frame[u] = NoFrame
    BY <1>1, <1>3, <1>4, <2>1 DEF Unused
  <2>3. pc[u] = "done" /\ \E i \in Thread : pc[i] = "reap" /\ target[i] = u
    BY <2>2 DEF IInv, Hosted
  <2> QED
    BY <1>1, <1>2, <1>4, <2>3
<1>19. Feet'
  <2> SUFFICES ASSUME phase # "smashed", NEW u \in Thread, NEW v \in Worker, OnStack(u)'
               PROVE  foot[v] # StackOf(u)'
    BY <1>3 DEF Feet
  <2>1. u # t /\ OnStack(u)
    BY <1>1, <1>2, <1>3, <1>4, Constants DEF OnStack, NoFrame, Unused
  <2> QED
    BY <1>3, <2>1 DEF IInv, Feet, StackOf
<1>20. Left'
  <2> SUFFICES ASSUME NEW i \in Thread, NEW v \in Worker, pc'[i] = "wait",
                      pc'[target'[i]] = "done", foot'[v] = StackOf(target[i])'
               PROVE  Pushes(v, i)'
    BY DEF Left
  <2>1. pc[i] = "wait" /\ target'[i] = target[i] /\ target[i] \in Thread
    BY <1>1, <1>2, <1>3, <1>4, Targets
  <2>2. pc[target[i]] = "done" /\ foot[v] = StackOf(target[i])
    BY <1>1, <1>2, <1>3, <1>4, <2>1, Constants DEF StackOf
  <2> QED
    BY <1>2, <1>3, <2>1, <2>2 DEF IInv, Left, Pushes
<1>21. Alive'
  BY <1>1, <1>2, <1>3, <1>4, Constants, Types DEF IInv, Alive, Unfinished, Leaving, Unused
<1> QED
  BY <1>5, <1>6, <1>7, <1>8, <1>9, <1>10, <1>11, <1>12, <1>13, <1>14, <1>15, <1>16, <1>17,
     <1>18, <1>19, <1>20, <1>21
     DEF IInv

LEMMA JoinInlineRefusedInv ==
  ASSUME IInv, NEW w \in Worker, NEW t \in Thread, JoinInlineRefused(w, t)
  PROVE  IInv'
<1> DEFINE j == current[w]
<1>1. /\ phase = "running" /\ current[w] # NULL /\ pc[j] = "user" /\ lastCreated[w] = t
      /\ \A i \in Thread : target[i] # t
  BY Constants, ReleasedUnused, Types DEF IInv, JoinInlineRefused, Joining, Calling, At
<1>2. /\ j \in Thread /\ after[w].cb = "none" /\ foot[w] = NULL
      /\ (\A v \in Worker : Hand(v, j) => v = w) /\ j \notin ready
      /\ \A v \in Worker : lastCreated[v] # j
      /\ t # j /\ pc[t] = "fresh" /\ frame[t] = NoFrame /\ stackBase[t] = NULL
      /\ waiting[t] = NULL /\ target[t] = NULL /\ target[j] = NULL
      /\ t \notin ready
      /\ \A v \in Worker : ~Hand(v, t) /\ (lastCreated[v] = t => v = w)
  BY <1>1, Constants, Caller, Unheld, NobodyWaits, NobodyJoins, NoTarget, IsBlank, NotCreated,
     Fresh
     DEF Unused
<1>3. UNCHANGED <<phase, ready, current, after, foot, inlineExec, target, waiting, frame,
                  stackBase, owned>>
  BY <1>1, <1>2 DEF JoinInlineRefused, joins, arena, workers
<1>4. /\ lastCreated' = [v \in Worker |-> IF v = w THEN NULL ELSE lastCreated[v]]
      /\ pc' = [u \in Thread |-> IF u = t THEN Released ELSE pc[u]]
      /\ alive' = alive - 1
  BY <1>1, <1>2 DEF IInv, TypeOK, JoinInlineRefused
<1>5. TypeOK'
  <2>1. t \in Unfinished
    BY <1>2 DEF Unfinished, Unused
  <2>2. Cardinality(Unfinished) \in Nat \ {0} /\ Cardinality(Leaving) \in Nat
    BY <2>1, Counted, OneLess
  <2>3. alive' \in Nat
    BY <1>4, <2>2 DEF IInv, Alive
  <2> QED
    BY <1>1, <1>2, <1>3, <1>4, <2>3, Constants, ReleasedUnused DEF IInv, TypeOK, Pc, Phase
<1>6. Sole' /\ Counts' /\ StacksOwned'
  BY <1>3 DEF IInv, Sole, Hand, Pushes, Shape, ShapeAt, Counts, Inlined, StacksOwned
<1>7. Shape'
  BY <1>1, <1>2, <1>3, <1>4, Constants, ReleasedUnused, Types DEF IInv, Shape, ShapeAt, Hand
<1>8. Held'
  BY <1>1, <1>2, <1>3, <1>4, Constants, ReleasedUnused, Types
     DEF IInv, Held, HandPc, RunningPc, Pushes, Hand
<1>9. Unseen'
  BY <1>1, <1>2, <1>3, <1>4, Constants, ReleasedUnused, Types DEF IInv, Unseen
<1>10. CreationReachable'
  BY <1>1, <1>2, <1>3, <1>4, Constants, ReleasedUnused, Types, Reachable DEF IInv, Unseen
<1>11. Blank'
  BY <1>1, <1>2, <1>3, <1>4, Constants, ReleasedUnused, Types DEF IInv, Blank, Unused
<1>12. Joins'
  BY <1>1, <1>2, <1>3, <1>4, Constants, ReleasedUnused, Types DEF IInv, Joins, JoinAt, Unused
<1>13. Named'
  BY <1>1, <1>2, <1>3, <1>4, Constants, ReleasedUnused, Types, Targets DEF IInv, Named, Unused
<1>14. Parked'
  BY <1>1, <1>2, <1>3, <1>4, Constants, ReleasedUnused, Types, Targets
     DEF IInv, Parked, ParkedAt, Pushes, Hand
<1>15. Frames'
  BY <1>1, <1>2, <1>3, <1>4, Constants, ReleasedUnused, Types DEF IInv, Frames
<1>16. Hosted'
  BY <1>1, <1>2, <1>3, <1>4, Constants, ReleasedUnused, Types DEF IInv, Hosted, Unused
<1>17. Feet'
  BY <1>1, <1>2, <1>3, <1>4, Constants, ReleasedUnused, Types
     DEF IInv, Feet, OnStack, StackOf, Unused
<1>18. Left'
  BY <1>1, <1>2, <1>3, <1>4, Constants, ReleasedUnused, Types, Targets
     DEF IInv, Left, StackOf, Pushes
<1>19. Alive'
  <2>1. Unfinished' = Unfinished \ {t} /\ t \in Unfinished /\ Leaving' = Leaving
    BY <1>1, <1>2, <1>3, <1>4, ReleasedUnused DEF Unfinished, Leaving, Unused
  <2>2. /\ Cardinality(Unfinished \ {t}) = Cardinality(Unfinished) - 1
        /\ Cardinality(Unfinished) \in Nat /\ Cardinality(Leaving) \in Nat
    BY <2>1, Counted, OneLess
  <2> QED
    BY <1>4, <2>1, <2>2 DEF IInv, Alive
<1> QED
  BY <1>5, <1>6, <1>7, <1>8, <1>9, <1>10, <1>11, <1>12, <1>13, <1>14, <1>15, <1>16, <1>17,
     <1>18, <1>19
     DEF IInv

LEMMA ReapInv == ASSUME IInv, NEW w \in Worker, Reap(w) PROVE IInv'
<1> DEFINE j == current[w]
           t == target[j]
<1>1. /\ phase = "running" /\ current[w] # NULL /\ pc[j] \in {"wait", "reap"} /\ j \in Thread
  BY Constants, ReleasedUnused, Types DEF IInv, Reap, At
<1>2. /\ j \in Thread /\ after[w].cb = "none" /\ foot[w] = NULL
      /\ (\A v \in Worker : Hand(v, j) => v = w) /\ j \notin ready
      /\ \A v \in Worker : lastCreated[v] # j
      /\ t \in Thread /\ pc[t] = "done" /\ t # j /\ frame[t] = NoFrame
      /\ waiting[t] = NULL /\ target[t] = NULL
      /\ t \notin ready /\ (\A i \in Thread : target[i] = t => i = j)
      /\ \A v \in Worker : ~Hand(v, t) /\ lastCreated[v] # t
  <2>1. /\ j \in Thread /\ after[w].cb = "none" /\ foot[w] = NULL
        /\ (\A v \in Worker : Hand(v, j) => v = w) /\ j \notin ready
        /\ \A v \in Worker : lastCreated[v] # j
    BY <1>1, Caller
  <2>2. t \in Thread /\ pc[t] = "done" /\ \A i \in Thread : target[i] = t => i = j
    BY <1>1, Targets, Constants DEF IInv, Parked, ParkedAt, Joins, JoinAt
  <2>3. frame[t] = NoFrame /\ t \notin ready
    BY <2>2 DEF IInv, Frames, Held
  <2> QED
    BY <1>1, <2>1, <2>2, <2>3, Unheld, NobodyWaits, NoTarget, NotCreated
<1>3. UNCHANGED <<phase, ready, current, after, foot, lastCreated, inlineExec, waiting,
                  frame, uf, alive>>
  BY <1>1, <1>2 DEF Reap, Freed, joins, arena, workers
<1>4. /\ target' = [u \in Thread |-> IF u = j THEN NULL ELSE target[u]]
      /\ stackBase' = [u \in Thread |-> IF u = t THEN NULL ELSE stackBase[u]]
      /\ owned' = owned \ {stackBase[t]}
      /\ pc' = [u \in Thread |-> IF u = j THEN "user" ELSE IF u = t THEN Released ELSE pc[u]]
  BY <1>1, <1>2 DEF IInv, TypeOK, Reap, Freed
<1>5. TypeOK'
  BY <1>1, <1>2, <1>3, <1>4, Constants, ReleasedUnused DEF IInv, TypeOK, Pc, Phase
<1>6. Sole' /\ Counts'
  BY <1>3 DEF IInv, Sole, Hand, Pushes, Shape, ShapeAt, Counts, Inlined
<1>7. Shape'
  BY <1>1, <1>2, <1>3, <1>4, Constants, ReleasedUnused, Types DEF IInv, Shape, ShapeAt, Hand
<1>8. Held'
  BY <1>1, <1>2, <1>3, <1>4, Constants, ReleasedUnused, Types
     DEF IInv, Held, HandPc, RunningPc, Pushes, Hand
<1>9. Unseen'
  BY <1>1, <1>2, <1>3, <1>4, Constants, ReleasedUnused, Types DEF IInv, Unseen
<1>10. CreationReachable'
  BY <1>1, <1>2, <1>3, <1>4, Constants, ReleasedUnused, Types, Reachable DEF IInv, Unseen
<1>11. Blank'
  BY <1>1, <1>2, <1>3, <1>4, Constants, ReleasedUnused, Types DEF IInv, Blank, Unused
<1>12. Joins'
  BY <1>1, <1>2, <1>3, <1>4, Constants, ReleasedUnused, Types DEF IInv, Joins, JoinAt, Unused
<1>13. Named'
  BY <1>1, <1>2, <1>3, <1>4, Constants, ReleasedUnused, Types, Targets DEF IInv, Named, Unused
<1>14. Parked'
  BY <1>1, <1>2, <1>3, <1>4, Constants, ReleasedUnused, Types, Targets
     DEF IInv, Parked, ParkedAt, Pushes, Hand
<1>15. Frames'
  BY <1>1, <1>2, <1>3, <1>4, Constants, ReleasedUnused, Types DEF IInv, Frames
<1>16. Hosted'
  BY <1>1, <1>2, <1>3, <1>4, Constants, ReleasedUnused, Types DEF IInv, Hosted, Unused
<1>17. StacksOwned'
  <2>1. \A s : s \in owned <=> s # NULL /\ \E u \in Thread : s = stackBase[u]
    BY DEF IInv, StacksOwned
  <2>2. ASSUME NEW s PROVE s \in owned' <=> s # NULL /\ \E u \in Thread : s = stackBase'[u]
    <3>1. CASE s = stackBase[t]
      BY <1>2, <1>4, <3>1 DEF IInv, StacksOwned
    <3>2. CASE s # stackBase[t]
      BY <1>2, <1>4, <2>1, <3>2
    <3> QED
      BY <3>1, <3>2
  <2>3. \A u, v \in Thread : u # v /\ stackBase'[u] # NULL => stackBase'[u] # stackBase'[v]
    BY <1>2, <1>4 DEF IInv, StacksOwned
  <2> QED
    BY <2>2, <2>3 DEF StacksOwned
<1>18. Feet'
  BY <1>1, <1>2, <1>3, <1>4, Constants, ReleasedUnused, Types
     DEF IInv, Feet, OnStack, StackOf, Unused
<1>19. Left'
  <2> SUFFICES ASSUME NEW i \in Thread, NEW v \in Worker, pc'[i] = "wait",
                      pc'[target'[i]] = "done", foot'[v] = StackOf(target[i])'
               PROVE  Pushes(v, i)'
    BY DEF Left
  <2>1. pc[i] = "wait" /\ target'[i] = target[i] /\ target[i] \in Thread
    BY <1>1, <1>2, <1>3, <1>4, ReleasedUnused, Targets
  <2>2. pc[target[i]] = "done" /\ foot[v] = StackOf(target[i])
    BY <1>1, <1>2, <1>3, <1>4, <2>1, ReleasedUnused, Constants DEF StackOf
  <2>3. Pushes(v, i)
    BY <2>1, <2>2 DEF IInv, Left
  <2> QED
    BY <1>3, <2>3 DEF Pushes
<1>20. Alive'
  <2>1. Unfinished' = Unfinished
    BY <1>1, <1>2, <1>4, ReleasedUnused DEF Unfinished, Unused
  <2>2. Leaving' = Leaving /\ alive' = alive
    BY <1>3 DEF Leaving
  <2> QED
    BY <2>1, <2>2 DEF IInv, Alive
<1> QED
  BY <1>5, <1>6, <1>7, <1>8, <1>9, <1>10, <1>11, <1>12, <1>13, <1>14, <1>15, <1>16, <1>17,
     <1>18, <1>19, <1>20
     DEF IInv

LEMMA StartInv ==
  ASSUME IInv, NEW w \in Worker, NEW t \in Thread, NEW s \in Stack, Start(w, t, s)
  PROVE  IInv'
<1> DEFINE j == current[w]
<1>1. /\ phase = "running" /\ current[w] = NULL /\ foot[w] = NULL /\ lastCreated[w] = NULL
      /\ after[w].cb = "none" /\ t \in ready /\ pc[t] = "fresh" /\ s \in Stack \ owned
  BY Constants, Types
     DEF IInv, Start, Taking, InLoop, Shape, ShapeAt, NoCallback, Stacks!Alloc
<1>2. /\ stackBase[t] = NULL /\ frame[t] = NoFrame /\ target[t] = NULL
      /\ \A v \in Worker : ~Hand(v, t) /\ lastCreated[v] # t
  BY <1>1, Constants, Caller, Unheld, NobodyWaits, NobodyJoins, NoTarget, IsBlank, NotCreated,
     Fresh
     DEF IInv, Unseen
<1>3. UNCHANGED <<after, foot, lastCreated, inlineExec, target, waiting, frame, uf, alive>>
  BY <1>1, <1>2 DEF Start, Taking, Stacks!Alloc, joins, arena, workers
<1>4. /\ ready' = ready \ {t}
      /\ current' = [v \in Worker |-> IF v = w THEN t ELSE current[v]]
      /\ pc' = [u \in Thread |-> IF u = t THEN "user" ELSE pc[u]]
      /\ owned' = owned \cup {s}
      /\ stackBase' = [u \in Thread |-> IF u = t THEN s ELSE stackBase[u]]
      /\ phase' = IF InUse(s) THEN "smashed" ELSE phase
  BY <1>1, <1>2 DEF IInv, TypeOK, Start, Taking, Stacks!Alloc
<1>5. TypeOK'
  BY <1>1, <1>2, <1>3, <1>4, Constants DEF IInv, TypeOK, Pc, Phase
<1>6. Counts'
  BY <1>3 DEF IInv, Counts, Inlined
<1>7. Shape'
  BY <1>1, <1>2, <1>3, <1>4, Constants, Types DEF IInv, Shape, ShapeAt, Hand
<1>8. Sole'
  BY <1>1, <1>2, <1>3, <1>4, Constants, Types
     DEF IInv, Sole, Hand, Pushes, Shape, ShapeAt, Hand
<1>9. Held'
  <2>1. ASSUME NEW u \in Thread, NEW v \in Worker PROVE HandPc(v, u)'
    <3>1. HandPc(v, u)
      BY DEF IInv, Held
    <3>2. u # t => pc'[u] = pc[u]
      BY <1>4
    <3> QED
      BY <1>1, <1>2, <1>3, <1>4, <3>1, <3>2, Types DEF HandPc, RunningPc, Hand, Pushes
  <2>2. \A u \in ready' : pc'[u] \in {"fresh", "user", "wait", "parked"}
    BY <1>1, <1>2, <1>3, <1>4, Types DEF IInv, Held
  <2> QED
    BY <2>1, <2>2 DEF Held
<1>10. Unseen'
  BY <1>1, <1>2, <1>3, <1>4, Constants, Types DEF IInv, Unseen
<1>11. CreationReachable'
  BY <1>1, <1>2, <1>3, <1>4, Constants, Types, Reachable DEF IInv, Unseen
<1>12. Blank'
  BY <1>1, <1>2, <1>3, <1>4, Constants, Types DEF IInv, Blank, Unused
<1>13. Joins'
  BY <1>1, <1>2, <1>3, <1>4, Constants, Types DEF IInv, Joins, JoinAt, Unused
<1>14. Named'
  BY <1>1, <1>2, <1>3, <1>4, Constants, Types, Targets DEF IInv, Named, Unused
<1>15. Parked'
  <2> SUFFICES ASSUME NEW i \in Thread, pc'[i] = "wait" PROVE ParkedAt(i)'
    BY DEF Parked, ParkedAt
  <2>1. /\ ParkedAt(i) /\ pc[i] = "wait" /\ target'[i] = target[i] /\ target[i] \in Thread
        /\ i # t
    BY <1>1, <1>2, <1>3, <1>4, Targets DEF IInv, Parked
  <2>2. pc[target[i]] = "done" => pc'[target[i]] = "done"
    BY <1>1, <1>2, <1>4, <2>1
  <2>3. /\ i \in ready' => i \in ready
        /\ \A v \in Worker : current'[v] = i => current[v] = i
    BY <1>3, <1>4, <2>1
  <2> QED
    BY <1>3, <2>1, <2>2, <2>3 DEF ParkedAt, Pushes
<1>16. Frames'
  BY <1>1, <1>2, <1>3, <1>4, Constants, Types DEF IInv, Frames
<1>17. Hosted'
  BY <1>1, <1>2, <1>3, <1>4, Constants, Types DEF IInv, Hosted, Unused
<1>18. StacksOwned'
  BY <1>1, <1>2, <1>3, <1>4, Constants, Types DEF IInv, StacksOwned
<1>19. Feet'
  BY <1>1, <1>2, <1>3, <1>4, Constants, Types DEF IInv, Feet, OnStack, StackOf, Unused, InUse
<1>20. Left'
  BY <1>1, <1>2, <1>3, <1>4, Constants, Types, Targets DEF IInv, Left, StackOf, Pushes
<1>21. Alive'
  BY <1>1, <1>2, <1>3, <1>4, Constants, Types DEF IInv, Alive, Unfinished, Leaving, Unused
<1> QED
  BY <1>5, <1>6, <1>7, <1>8, <1>9, <1>10, <1>11, <1>12, <1>13, <1>14, <1>15, <1>16, <1>17,
     <1>18, <1>19, <1>20, <1>21
     DEF IInv

(* A thread goes from one place in its calls to another.                      *)
LEMMA Moved ==
  ASSUME IInv, NEW j \in Thread,
         pc[j] \in {"user", "join", "parked", "waker"},
         pc'[j] \in {"user", "join", "exit", "wait", "reap", "parked", "waker"},
         \A u \in Thread : u # j => pc'[u] = pc[u],
         UNCHANGED <<phase, frame, stackBase, foot, alive>>,
         \A t \in Thread : pc[t] = "reap" => target'[t] = target[t]
  PROVE  Blank' /\ Hosted' /\ Feet' /\ Alive'
<1>1. Blank'
  <2> SUFFICES ASSUME NEW u \in Thread, pc'[u] \in Unused \cup {"fresh"}
               PROVE  frame'[u] = NoFrame /\ stackBase'[u] = NULL
    BY DEF Blank
  <2>1. pc[u] \in Unused \cup {"fresh"}
    BY DEF Unused
  <2> QED
    BY <2>1, IsBlank
<1>2. Hosted'
  <2> SUFFICES ASSUME NEW u \in Thread, stackBase'[u] = NULL,
                      pc'[u] \notin Unused \cup {"fresh"},
                      frame'[u] = NoFrame, u # Main
               PROVE  pc'[u] = "done" /\ \E i \in Thread : pc'[i] = "reap" /\ target'[i] = u
    BY DEF Hosted
  <2>1. stackBase[u] = NULL /\ pc[u] \notin Unused \cup {"fresh"} /\ frame[u] = NoFrame
    BY DEF Unused
  <2>2. pc[u] = "done" /\ \E i \in Thread : pc[i] = "reap" /\ target[i] = u
    BY <2>1 DEF IInv, Hosted
  <2> QED
    BY <2>2
<1>3. Feet'
  <2>1. \A u \in Thread : OnStack(u)' => OnStack(u)
    BY DEF OnStack, Unused
  <2> QED
    BY <2>1 DEF IInv, Feet, StackOf
<1>4. Alive'
  <2>1. Unfinished' = Unfinished /\ Leaving' = Leaving
    BY DEF Unfinished, Leaving, Unused
  <2> QED
    BY <2>1 DEF IInv, Alive
<1> QED
  BY <1>1, <1>2, <1>3, <1>4

LEMMA JoinFindsInv ==
  ASSUME IInv, NEW w \in Worker, CanLock(w), UNCHANGED <<phase, ready, lastCreated,
                                                         inlineExec, arena, alive>>,
         pc[target[current[w]]] = "done", pc' = [pc EXCEPT ![current[w]] = "reap"],
         UNCHANGED <<workers, joins>>
  PROVE  IInv'
<1> DEFINE j == current[w]
           t == target[j]
<1>1. /\ phase = "running" /\ current[w] # NULL /\ pc[j] = "join"
  BY Constants, Types DEF IInv, CanLock, At
<1>2. /\ j \in Thread /\ after[w].cb = "none" /\ foot[w] = NULL
      /\ (\A v \in Worker : Hand(v, j) => v = w) /\ j \notin ready
      /\ \A v \in Worker : lastCreated[v] # j
      /\ t \in Thread /\ (\A i \in Thread : target[i] = t => i = j) /\ pc[t] \notin Unused
      /\ pc[t] = "done"
  BY <1>1, Constants, Caller, Targets DEF IInv, Joins, JoinAt
<1>3. UNCHANGED <<phase, ready, current, after, foot, lastCreated, inlineExec, target,
                  waiting, frame, uf, stackBase, owned, alive>>
  BY <1>1, <1>2 DEF At, joins, arena, workers
<1>4. /\ pc' = [u \in Thread |-> IF u = j THEN "reap" ELSE pc[u]]
  BY <1>1, <1>2 DEF IInv, TypeOK, At
<1>5. TypeOK'
  BY <1>1, <1>2, <1>3, <1>4, Constants DEF IInv, TypeOK, Pc, Phase
<1>6. Sole' /\ Counts' /\ StacksOwned'
  BY <1>3 DEF IInv, Sole, Hand, Pushes, Shape, ShapeAt, Counts, Inlined, StacksOwned
<1>7. Shape'
  <2>1. ASSUME NEW v \in Worker PROVE ShapeAt(v)'
    <3>1. ShapeAt(v) /\ current[v] \in Thread \cup {NULL} /\ (current[v] = j => v = w)
      BY <1>2, Types DEF IInv, Shape, Hand
    <3> QED
      BY <1>1, <1>3, <1>4, <3>1, Constants DEF ShapeAt
  <2> QED
    BY <2>1 DEF Shape
<1>8. Held'
  BY <1>1, <1>2, <1>3, <1>4, Constants, Types DEF IInv, Held, HandPc, RunningPc, Pushes, Hand
<1>9. Unseen'
  BY <1>1, <1>2, <1>3, <1>4, Constants, Types DEF IInv, Unseen
<1>10. CreationReachable'
  BY <1>1, <1>2, <1>3, <1>4, Constants, Types, Reachable DEF IInv, Unseen
<1>11. Blank'
  BY <1>1, <1>2, <1>3, <1>4, Moved
<1>12. Joins'
  BY <1>1, <1>2, <1>3, <1>4, Constants, Types DEF IInv, Joins, JoinAt, Unused
<1>13. Named'
  BY <1>1, <1>2, <1>3, <1>4, Constants, Types, Targets DEF IInv, Named, Unused
<1>14. Parked'
  BY <1>1, <1>2, <1>3, <1>4, Constants, Types, Targets
     DEF IInv, Parked, ParkedAt, Pushes, Hand
<1>15. Frames'
  BY <1>1, <1>2, <1>3, <1>4, Constants, Types DEF IInv, Frames
<1>16. Hosted'
  BY <1>1, <1>2, <1>3, <1>4, Moved
<1>17. Feet'
  BY <1>1, <1>2, <1>3, <1>4, Moved
<1>18. Left'
  BY <1>1, <1>2, <1>3, <1>4, Constants, Types, Targets DEF IInv, Left, StackOf, Pushes
<1>19. Alive'
  BY <1>1, <1>2, <1>3, <1>4, Moved
<1> QED
  BY <1>5, <1>6, <1>7, <1>8, <1>9, <1>10, <1>11, <1>12, <1>13, <1>14, <1>15, <1>16, <1>17,
     <1>18, <1>19
     DEF IInv

LEMMA JoinRefusedInv ==
  ASSUME IInv, NEW w \in Worker, CanLock(w), UNCHANGED <<phase, ready, lastCreated,
                                                         inlineExec, arena, alive>>,
         pc' = [pc EXCEPT ![current[w]] = "user"],
         target' = [target EXCEPT ![current[w]] = NULL],
         UNCHANGED <<workers, waiting, frame>>
  PROVE  IInv'
<1> DEFINE j == current[w]
           t == target[j]
<1>1. /\ phase = "running" /\ current[w] # NULL /\ pc[j] = "join"
  BY Constants, Types DEF IInv, CanLock, At
<1>2. /\ j \in Thread /\ after[w].cb = "none" /\ foot[w] = NULL
      /\ (\A v \in Worker : Hand(v, j) => v = w) /\ j \notin ready
      /\ \A v \in Worker : lastCreated[v] # j
      /\ t \in Thread /\ (\A i \in Thread : target[i] = t => i = j) /\ pc[t] \notin Unused
  BY <1>1, Constants, Caller, Targets DEF IInv, Joins, JoinAt
<1>3. UNCHANGED <<phase, ready, current, after, foot, lastCreated, inlineExec, waiting,
                  frame, stackBase, owned, alive>>
  BY <1>1, <1>2 DEF At, joins, arena, workers
<1>4. /\ pc' = [u \in Thread |-> IF u = j THEN "user" ELSE pc[u]]
      /\ target' = [u \in Thread |-> IF u = j THEN NULL ELSE target[u]]
  BY <1>1, <1>2 DEF IInv, TypeOK, At
<1>5. TypeOK'
  BY <1>1, <1>2, <1>3, <1>4, Constants DEF IInv, TypeOK, Pc, Phase
<1>6. Sole' /\ Counts' /\ StacksOwned'
  BY <1>3 DEF IInv, Sole, Hand, Pushes, Shape, ShapeAt, Counts, Inlined, StacksOwned
<1>7. Shape'
  BY <1>1, <1>2, <1>3, <1>4, Constants, Types DEF IInv, Shape, ShapeAt, Hand
<1>8. Held'
  BY <1>1, <1>2, <1>3, <1>4, Constants, Types DEF IInv, Held, HandPc, RunningPc, Pushes, Hand
<1>9. Unseen'
  BY <1>1, <1>2, <1>3, <1>4, Constants, Types DEF IInv, Unseen
<1>10. CreationReachable'
  BY <1>1, <1>2, <1>3, <1>4, Constants, Types, Reachable DEF IInv, Unseen
<1>11. Blank'
  BY <1>1, <1>2, <1>3, <1>4, Moved
<1>12. Joins'
  BY <1>1, <1>2, <1>3, <1>4, Constants, Types DEF IInv, Joins, JoinAt, Unused
<1>13. Named'
  BY <1>1, <1>2, <1>3, <1>4, Constants, Types, Targets DEF IInv, Named, Unused
<1>14. Parked'
  BY <1>1, <1>2, <1>3, <1>4, Constants, Types, Targets
     DEF IInv, Parked, ParkedAt, Pushes, Hand
<1>15. Frames'
  BY <1>1, <1>2, <1>3, <1>4, Constants, Types DEF IInv, Frames
<1>16. Hosted'
  BY <1>1, <1>2, <1>3, <1>4, Moved
<1>17. Feet'
  BY <1>1, <1>2, <1>3, <1>4, Moved
<1>18. Left'
  BY <1>1, <1>2, <1>3, <1>4, Constants, Types, Targets DEF IInv, Left, StackOf, Pushes
<1>19. Alive'
  BY <1>1, <1>2, <1>3, <1>4, Moved
<1> QED
  BY <1>5, <1>6, <1>7, <1>8, <1>9, <1>10, <1>11, <1>12, <1>13, <1>14, <1>15, <1>16, <1>17,
     <1>18, <1>19
     DEF IInv

LEMMA JoinParksInv ==
  ASSUME IInv, NEW w \in Worker, CanLock(w), UNCHANGED <<phase, ready, lastCreated,
                                                         inlineExec, arena, alive>>,
         pc[target[current[w]]] # "done", pc' = [pc EXCEPT ![current[w]] = "wait"],
         waiting' = [waiting EXCEPT ![target[current[w]]] = current[w]],
         Leave(w, "unlock", target[current[w]]), UNCHANGED <<foot, target, frame>>
  PROVE  IInv'
<1> DEFINE j == current[w]
           t == target[j]
<1>1. /\ phase = "running" /\ current[w] # NULL /\ pc[j] = "join"
  BY Constants, Types DEF IInv, CanLock, At
<1>2. /\ j \in Thread /\ after[w].cb = "none" /\ foot[w] = NULL
      /\ (\A v \in Worker : Hand(v, j) => v = w) /\ j \notin ready
      /\ \A v \in Worker : lastCreated[v] # j
      /\ t \in Thread /\ (\A i \in Thread : target[i] = t => i = j) /\ pc[t] \notin Unused
      /\ pc[t] # "done" /\ waiting[t] = NULL /\ lastCreated[w] = NULL
  <2>1. /\ t \in Thread /\ (\A i \in Thread : target[i] = t => i = j)
        /\ pc[t] \notin Unused \cup {"done"}
    BY <1>1, Targets, Caller, Constants DEF IInv, Joins, JoinAt
  <2>2. waiting[t] = NULL
    BY <1>1, <2>1, Types DEF IInv, Named
  <2> QED
    BY <1>1, <2>1, <2>2, Caller DEF IInv, Shape, ShapeAt
<1>3. UNCHANGED <<phase, ready, foot, lastCreated, inlineExec, target, frame, stackBase,
                  owned, alive>>
  BY <1>1, <1>2 DEF Leave, joins, arena, workers
<1>4. /\ pc' = [u \in Thread |-> IF u = j THEN "wait" ELSE pc[u]]
      /\ waiting' = [u \in Thread |-> IF u = t THEN j ELSE waiting[u]]
      /\ current' = [v \in Worker |-> IF v = w THEN NULL ELSE current[v]]
      /\ after' = [v \in Worker |-> IF v = w THEN [cb |-> "unlock", arg |-> t, me |-> j]
                                             ELSE after[v]]
  BY <1>1, <1>2 DEF IInv, TypeOK, Leave
<1>5. TypeOK'
  <2>1. [cb |-> "unlock", arg |-> t, me |-> j]
          \in [cb : {"none", "push", "unlock"}, arg : Int, me : Thread \cup {NULL}]
    BY <1>2, Constants
  <2> QED
    BY <1>1, <1>2, <1>3, <1>4, <2>1, Constants DEF IInv, TypeOK, Pc, Phase
<1>6. Counts' /\ StacksOwned'
  BY <1>3 DEF IInv, Counts, Inlined, StacksOwned
<1>7. Shape'
  BY <1>1, <1>2, <1>3, <1>4, Constants, Types DEF IInv, Shape, ShapeAt, Hand
<1>8. Sole'
  <2>1. ASSUME NEW u \in Thread, NEW v \in Worker, Hand(v, u)' PROVE Hand(v, u)
    BY <1>2, <1>4, <2>1, Constants DEF Hand, Pushes
  <2> QED
    BY <1>3, <2>1 DEF IInv, Sole
<1>9. Held'
  <2>1. ASSUME NEW u \in Thread, NEW v \in Worker PROVE HandPc(v, u)'
    <3>1. HandPc(v, u)
      BY DEF IInv, Held
    <3>2. CASE v = w
      BY <1>2, <1>3, <1>4, <3>2, Constants DEF HandPc, Pushes
    <3>3. CASE v # w /\ u # j
      BY <1>3, <1>4, <3>1, <3>3 DEF HandPc, RunningPc, Pushes
    <3>4. CASE v # w /\ u = j
      BY <1>2, <1>3, <1>4, <3>4 DEF HandPc, Hand, Pushes
    <3> QED
      BY <3>2, <3>3, <3>4
  <2>2. \A u \in ready' : pc'[u] \in {"fresh", "user", "wait", "parked"}
    BY <1>3, <1>4, Types DEF IInv, Held
  <2> QED
    BY <2>1, <2>2 DEF Held
<1>10. Unseen'
  <2>1. \A v \in Worker : lastCreated[v] # NULL => pc'[lastCreated[v]] = pc[lastCreated[v]]
    BY <1>2, <1>4, Types DEF IInv
  <2> QED
    BY <1>3, <2>1 DEF IInv, Unseen
<1>11. CreationReachable'
  BY <1>1, <1>2, <1>3, <1>4, Constants, Types, Reachable DEF IInv, Unseen
<1>12. Blank'
  BY <1>1, <1>2, <1>3, <1>4, Moved
<1>13. Joins'
  <2> SUFFICES ASSUME NEW u \in Thread PROVE JoinAt(u)'
    BY DEF Joins
  <2>1. JoinAt(u) /\ target[u] \in Thread \cup {NULL}
    BY Types DEF IInv, Joins
  <2> QED
    BY <1>1, <1>2, <1>3, <1>4, <2>1, Constants DEF JoinAt, Unused
<1>14. Named'
  BY <1>1, <1>2, <1>3, <1>4, Constants, Types, Targets DEF IInv, Named, Unused
<1>15. Parked'
  BY <1>1, <1>2, <1>3, <1>4, Constants, Types, Targets
     DEF IInv, Parked, ParkedAt, Pushes, Hand
<1>16. Frames'
  BY <1>1, <1>2, <1>3, <1>4, Constants, Types DEF IInv, Frames
<1>17. Hosted'
  BY <1>1, <1>2, <1>3, <1>4, Moved
<1>18. Feet'
  BY <1>1, <1>2, <1>3, <1>4, Moved
<1>19. Left'
  BY <1>1, <1>2, <1>3, <1>4, Constants, Types, Targets DEF IInv, Left, StackOf, Pushes
<1>20. Alive'
  BY <1>1, <1>2, <1>3, <1>4, Moved
<1> QED
  BY <1>5, <1>6, <1>7, <1>8, <1>9, <1>10, <1>11, <1>12, <1>13, <1>14, <1>15, <1>16, <1>17,
     <1>18, <1>19, <1>20
     DEF IInv

LEMMA ExitReturnsInv ==
  ASSUME IInv, NEW w \in Worker, ExitInline(w), frame[current[w]].worker = w
  PROVE  IInv'
<1> DEFINE j == current[w]
           i == frame[j].joiner
<1>1. /\ phase = "running" /\ current[w] # NULL /\ pc[j] = "user" /\ frame[j] # NoFrame
  BY Constants, Types DEF IInv, ExitInline, Calling, At
<1>2. /\ j \in Thread /\ after[w].cb = "none" /\ foot[w] = NULL
      /\ (\A v \in Worker : Hand(v, j) => v = w) /\ j \notin ready
      /\ \A v \in Worker : lastCreated[v] # j
      /\ i \in Thread /\ pc[i] = "inline" /\ target[i] = j /\ i # j
      /\ waiting[j] = NULL /\ target[j] = NULL /\ i \notin ready
      /\ \A v \in Worker : ~Hand(v, i) /\ lastCreated[v] # i
  <2>1. /\ j \in Thread /\ after[w].cb = "none" /\ foot[w] = NULL
        /\ (\A v \in Worker : Hand(v, j) => v = w) /\ j \notin ready
        /\ \A v \in Worker : lastCreated[v] # j
    BY <1>1, Caller
  <2>2. /\ i \in Thread /\ pc[i] = "inline" /\ target[i] = j /\ i # j
        /\ i \notin ready /\ target[j] = NULL
    BY <1>1, <2>1, Types, NoTarget DEF IInv, Frames, Held
  <2>3. waiting[j] = NULL
    <3>1. waiting[j] \in Thread => pc[waiting[j]] = "wait" /\ waiting[j] = i
      <4>1. waiting[j] \in Thread => pc[waiting[j]] = "wait" /\ target[waiting[j]] = j
        BY <2>1, Constants DEF IInv, Named
      <4>2. \A u \in Thread : target[u] = j => u = i
        <5>1. JoinAt(i) /\ target[i] # NULL
          BY <2>1, <2>2, Constants DEF IInv, Joins
        <5> QED
          BY <2>2, <5>1 DEF JoinAt
      <4> QED
        BY <4>1, <4>2
    <3> QED
      BY <2>1, <2>2, <3>1, Types DEF IInv
  <2> QED
    BY <1>1, <2>1, <2>2, <2>3, Unheld, NotCreated
<1>3. UNCHANGED <<phase, ready, after, foot, lastCreated, target, waiting, uf, stackBase,
                  owned>>
  BY <1>1, <1>2 DEF ExitInline, AliveAfterInline, joins, arena, workers
<1>4. /\ current' = [v \in Worker |-> IF v = w THEN i ELSE current[v]]
      /\ inlineExec' = [v \in Worker |-> IF v = w THEN inlineExec[w] - 1 ELSE inlineExec[v]]
      /\ pc' = [u \in Thread |-> IF u = i THEN "reap" ELSE IF u = j THEN "done" ELSE pc[u]]
      /\ frame' = [u \in Thread |-> IF u = j THEN NoFrame ELSE frame[u]]
      /\ alive' = alive - 1
  BY <1>1, <1>2 DEF IInv, TypeOK, ExitInline, AliveAfterInline
<1>5. TypeOK'
  <2>1. j \in Unfinished /\ j \in Inlined(w)
    BY <1>1, <1>2 DEF Unfinished, Unused, Inlined
  <2>2. inlineExec[w] \in Nat \ {0}
    BY <2>1, InlinedFinite, OneLess DEF IInv, Counts
  <2>3. Cardinality(Unfinished) \in Nat \ {0} /\ Cardinality(Leaving) \in Nat
    BY <2>1, Counted, OneLess
  <2>4. alive' \in Nat
    BY <1>4, <2>3 DEF IInv, Alive
  <2>5. inlineExec[w] - 1 \in Nat
    BY <2>2
  <2>6. NoFrame \in [joiner : Thread \cup {NULL}, worker : Worker]
    BY Constants DEF NoFrame
  <2> QED
    BY <1>1, <1>2, <1>3, <1>4, <2>4, <2>5, <2>6, Constants DEF IInv, TypeOK, Pc, Phase
<1>6. StacksOwned'
  BY <1>3 DEF IInv, StacksOwned
<1>7. Shape'
  BY <1>1, <1>2, <1>3, <1>4, Constants, Types DEF IInv, Shape, ShapeAt, Hand
<1>8. Sole'
  <2> SUFFICES ASSUME NEW u \in Thread, NEW v \in Worker, Hand(v, u)'
               PROVE  u \notin ready' /\ \A x \in Worker : Hand(x, u)' => x = v
    BY DEF Sole
  <2>1. CASE u = i
    BY <1>2, <1>3, <1>4, <2>1 DEF Hand, Pushes
  <2>2. CASE u # i
    <3>1. \A x \in Worker : Hand(x, u)' => Hand(x, u)
      BY <1>3, <1>4, <2>2 DEF Hand, Pushes
    <3> QED
      BY <1>3, <3>1 DEF IInv, Sole
  <2> QED
    BY <2>1, <2>2
<1>9. Held'
  BY <1>1, <1>2, <1>3, <1>4, Constants, Types DEF IInv, Held, HandPc, RunningPc, Pushes, Hand
<1>10. Unseen'
  BY <1>1, <1>2, <1>3, <1>4, Constants, Types DEF IInv, Unseen
<1>11. CreationReachable'
  BY <1>1, <1>2, <1>3, <1>4, Constants, Types, Reachable DEF IInv, Unseen
<1>12. Blank'
  BY <1>1, <1>2, <1>3, <1>4, Constants, Types DEF IInv, Blank, Unused
<1>13. Joins'
  BY <1>1, <1>2, <1>3, <1>4, Constants, Types DEF IInv, Joins, JoinAt, Unused
<1>14. Named'
  BY <1>1, <1>2, <1>3, <1>4, Constants, Types, Targets DEF IInv, Named, Unused
<1>15. Parked'
  BY <1>1, <1>2, <1>3, <1>4, Constants, Types, Targets
     DEF IInv, Parked, ParkedAt, Pushes, Hand
<1>16. Frames'
  BY <1>1, <1>2, <1>3, <1>4, Constants, Types DEF IInv, Frames
<1>17. Counts'
  <2> SUFFICES ASSUME NEW v \in Worker PROVE inlineExec'[v] = Cardinality(Inlined(v)')
    BY DEF Counts
  <2>1. CASE v = w
    <3>1. Inlined(w)' = Inlined(w) \ {j} /\ j \in Inlined(w)
      BY <1>1, <1>2, <1>4 DEF Inlined
    <3>2. Cardinality(Inlined(w) \ {j}) = Cardinality(Inlined(w)) - 1
      BY <3>1, InlinedFinite, OneLess
    <3> QED
      BY <1>4, <2>1, <3>1, <3>2 DEF IInv, Counts
  <2>2. CASE v # w
    <3>1. Inlined(v)' = Inlined(v)
      BY <1>1, <1>2, <1>4, <2>2 DEF Inlined
    <3> QED
      BY <1>4, <2>2, <3>1 DEF IInv, Counts
  <2> QED
    BY <2>1, <2>2
<1>18. Hosted'
  <2> SUFFICES ASSUME NEW u \in Thread, stackBase'[u] = NULL,
                      pc'[u] \notin Unused \cup {"fresh"},
                      frame'[u] = NoFrame, u # Main
               PROVE  pc'[u] = "done" /\ \E x \in Thread : pc'[x] = "reap" /\ target'[x] = u
    BY DEF Hosted
  <2>1. CASE u = j
    BY <1>2, <1>3, <1>4, <2>1
  <2>2. CASE u # j
    <3>1. stackBase[u] = NULL /\ pc[u] \notin Unused \cup {"fresh"} /\ frame[u] = NoFrame
      BY <1>2, <1>3, <1>4, <2>2 DEF Unused
    <3>2. pc[u] = "done" /\ \E x \in Thread : pc[x] = "reap" /\ target[x] = u
      BY <3>1 DEF IInv, Hosted
    <3> QED
      BY <1>1, <1>2, <1>3, <1>4, <3>2
  <2> QED
    BY <2>1, <2>2
<1>19. Feet'
  BY <1>1, <1>2, <1>3, <1>4, Constants, Types DEF IInv, Feet, OnStack, StackOf, Unused
<1>20. Left'
  <2> SUFFICES ASSUME NEW u \in Thread, NEW v \in Worker, pc'[u] = "wait",
                      pc'[target'[u]] = "done", foot'[v] = StackOf(target[u])'
               PROVE  Pushes(v, u)'
    BY DEF Left
  <2>1. pc[u] = "wait" /\ target'[u] = target[u] /\ target[u] \in Thread /\ target[u] # j
    BY <1>1, <1>2, <1>3, <1>4, Targets DEF IInv, Joins, JoinAt
  <2>2. pc[target[u]] = "done" /\ foot[v] = StackOf(target[u])
    BY <1>1, <1>2, <1>3, <1>4, <2>1, Constants DEF StackOf
  <2>3. Pushes(v, u)
    BY <2>1, <2>2 DEF IInv, Left
  <2> QED
    BY <1>3, <2>3 DEF Pushes
<1>21. Alive'
  <2>1. Unfinished' = Unfinished \ {j} /\ j \in Unfinished /\ Leaving' = Leaving
    BY <1>1, <1>2, <1>3, <1>4 DEF Unfinished, Leaving, Unused
  <2>2. /\ Cardinality(Unfinished \ {j}) = Cardinality(Unfinished) - 1
        /\ Cardinality(Unfinished) \in Nat /\ Cardinality(Leaving) \in Nat
    BY <2>1, Counted, OneLess
  <2> QED
    BY <1>4, <2>1, <2>2 DEF IInv, Alive
<1> QED
  BY <1>5, <1>6, <1>7, <1>8, <1>9, <1>10, <1>11, <1>12, <1>13, <1>14, <1>15, <1>16, <1>17,
     <1>18, <1>19, <1>20, <1>21
     DEF IInv

(* Two threads that are not run inline have stacks of their own.              *)
LEMMA Apart ==
  ASSUME IInv, NEW t \in Thread, NEW u \in Thread, t # u,
         stackBase[t] = NULL => t = Main, stackBase[u] = NULL => u = Main
  PROVE  StackOf(t) # StackOf(u)
<1>1. stackBase[t] \in Stack \cup {NULL} /\ stackBase[u] \in Stack \cup {NULL}
  BY DEF IInv, TypeOK
<1> QED
  BY <1>1, Constants DEF IInv, StacksOwned, StackOf

(* The thread that waits for one that is about to finish is nowhere: its      *)
(* worker has left its stack, since the lock is free.                         *)
LEMMA Waiter ==
  ASSUME IInv, phase = "running", NEW t \in Thread, waiting[t] # NULL, ~Locked(t)
  PROVE  /\ waiting[t] \in Thread /\ pc[waiting[t]] = "wait" /\ target[waiting[t]] = t
         /\ waiting[t] \notin ready /\ \A v \in Worker : ~Hand(v, waiting[t])
<1> DEFINE x == waiting[t]
<1>1. x \in Thread /\ pc[x] = "wait" /\ target[x] = t /\ pc[t] # "done"
  BY Types DEF IInv, Named
<1>2. ParkedAt(x) /\ x \notin ready
  BY <1>1 DEF IInv, Parked, ParkedAt
<1>3. ASSUME NEW v \in Worker PROVE ~Hand(v, x)
  <2>1. current[v] # x /\ ~Pushes(v, x)
    BY <1>1, <1>2 DEF ParkedAt
  <2>2. HandPc(v, x) /\ ShapeAt(v) /\ after[v].cb \in {"none", "push", "unlock"}
    BY <1>1, Types DEF IInv, Held, Shape
  <2>3. after[v].me # x
    BY <1>1, <1>2, <2>2, Constants DEF ParkedAt, HandPc, ShapeAt, Locked
  <2> QED
    BY <2>1, <2>3 DEF Hand
<1> QED
  BY <1>1, <1>2, <1>3

LEMMA ExitFinishInv == ASSUME IInv, NEW w \in Worker, ExitFinish(w) PROVE IInv'
<1> DEFINE j == current[w]
           x == waiting[j]
<1>1. /\ phase = "running" /\ current[w] # NULL /\ pc[j] = "exit"
  BY Constants, Types DEF IInv, ExitFinish, At
<1>2. /\ j \in Thread /\ after[w].cb = "none" /\ foot[w] = NULL
      /\ (\A v \in Worker : Hand(v, j) => v = w) /\ j \notin ready
      /\ \A v \in Worker : lastCreated[v] # j
      /\ frame[j] = NoFrame /\ lastCreated[w] = NULL
  BY <1>1, Constants, Caller DEF IInv, Frames, Shape, ShapeAt
<1>3. UNCHANGED <<phase, lastCreated, inlineExec, target, frame, uf, stackBase, owned, alive>>
  BY <1>1, <1>2 DEF ExitFinish, joins, arena, workers
<1>4. /\ ready' = ready
      /\ pc' = [u \in Thread |-> IF u = j THEN "done" ELSE pc[u]]
      /\ waiting' = [u \in Thread |-> IF u = j THEN NULL ELSE waiting[u]]
      /\ current' = [v \in Worker |-> IF v = w THEN NULL ELSE current[v]]
      /\ after' = [v \in Worker |-> IF v = w THEN WakeLater(waiting[j]) ELSE after[v]]
      /\ foot' = [v \in Worker |-> IF v = w THEN StackOf(j) ELSE foot[v]]
  BY <1>1, <1>2 DEF IInv, TypeOK, ExitFinish, Wake, StackOf
<1>5. /\ after'[w].cb = (IF x = NULL THEN "none" ELSE "push") /\ after'[w].arg = x
      /\ after'[w].me = NULL /\ \A v \in Worker : v # w => after'[v] = after[v]
  BY <1>4 DEF WakeLater, NoCallback
<1>6. x # NULL => /\ x \in Thread /\ pc[x] = "wait" /\ target[x] = j /\ x # j
                  /\ x \notin ready /\ \A v \in Worker : ~Hand(v, x)
  BY <1>1, <1>2, Waiter DEF ExitFinish
<1>7. /\ pc'[j] = "done" /\ current'[w] = NULL /\ foot'[w] = StackOf(j)
      /\ \A u \in Thread : u # j => pc'[u] = pc[u]
      /\ \A v \in Worker : v # w => current'[v] = current[v] /\ foot'[v] = foot[v]
  BY <1>2, <1>4
<1>8. TypeOK'
  <2>1. WakeLater(x) \in [cb : {"none", "push", "unlock"}, arg : Int, me : Thread \cup {NULL}]
    BY <1>6, Constants DEF WakeLater, NoCallback
  <2>2. StackOf(j) \in Stack \cup {NULL, HostStack}
    BY <1>2 DEF IInv, TypeOK, StackOf
  <2> QED
    BY <1>1, <1>2, <1>3, <1>4, <2>1, <2>2, Constants DEF IInv, TypeOK, Pc, Phase
<1>9. Counts' /\ StacksOwned'
  BY <1>3 DEF IInv, Counts, Inlined, StacksOwned
<1>10. Shape'
  <2> SUFFICES ASSUME NEW v \in Worker PROVE ShapeAt(v)'
    BY DEF Shape
  <2>1. CASE v = w
    BY <1>2, <1>3, <1>5, <1>6, <1>7, <2>1 DEF ShapeAt
  <2>2. CASE v # w
    <3>1. ShapeAt(v) /\ current[v] # j /\ current[v] \in Thread \cup {NULL}
      BY <1>2, <2>2, Types DEF IInv, Shape, Hand
    <3> QED
      BY <1>3, <1>5, <1>7, <2>2, <3>1 DEF ShapeAt
  <2> QED
    BY <2>1, <2>2
<1>11. Sole'
  <2> SUFFICES ASSUME NEW u \in Thread, NEW v \in Worker, Hand(v, u)'
               PROVE  u \notin ready' /\ \A y \in Worker : Hand(y, u)' => y = v
    BY DEF Sole
  <2>1. ASSUME NEW y \in Worker, Hand(y, u)' PROVE Hand(y, u) \/ (y = w /\ u = x)
    BY <1>5, <1>7, <2>1, Constants DEF Hand, Pushes
  <2>2. CASE u = x
    BY <1>4, <1>6, <2>1, <2>2, Constants
  <2>3. CASE u # x
    BY <1>4, <2>1, <2>3 DEF IInv, Sole
  <2> QED
    BY <2>2, <2>3
<1>12. Held'
  <2>1. ASSUME NEW u \in Thread, NEW v \in Worker PROVE HandPc(v, u)'
    <3>1. CASE v = w
      BY <1>3, <1>5, <1>6, <1>7, <3>1, Constants DEF HandPc, Pushes
    <3>2. CASE v # w
      <4>1. HandPc(v, u) /\ (u = j => ~Hand(v, u))
        BY <1>2, <3>2 DEF IInv, Held
      <4> QED
        BY <1>3, <1>5, <1>7, <3>2, <4>1 DEF HandPc, Pushes, Hand, RunningPc
    <3> QED
      BY <3>1, <3>2
  <2>2. \A u \in ready' : pc'[u] \in {"fresh", "user", "wait", "parked"}
    BY <1>2, <1>4, <1>7, Types DEF IInv, Held
  <2> QED
    BY <2>1, <2>2 DEF Held
<1>13. Unseen'
  BY <1>1, <1>2, <1>3, <1>4, Constants, Types DEF IInv, Unseen
<1>14. CreationReachable'
  BY <1>1, <1>2, <1>3, <1>4, Constants, Types, Reachable DEF IInv, Unseen
<1>15. Blank'
  BY <1>1, <1>2, <1>3, <1>4, Constants, Types DEF IInv, Blank, Unused
<1>16. Joins'
  BY <1>1, <1>2, <1>3, <1>4, Constants, Types DEF IInv, Joins, JoinAt, Unused
<1>17. Named'
  BY <1>1, <1>2, <1>3, <1>4, Constants, Types, Targets DEF IInv, Named, Unused
<1>18. Parked'
  <2> SUFFICES ASSUME NEW i \in Thread, pc'[i] = "wait" PROVE ParkedAt(i)'
    BY DEF Parked, ParkedAt
  <2>1. ParkedAt(i) /\ pc[i] = "wait" /\ target[i] \in Thread /\ target' = target
    BY <1>3, <1>7, Targets DEF IInv, Parked
  <2>2. pc[target[i]] = "done" => pc'[target'[i]] = "done"
    BY <1>7, <2>1
  <2>3. i = x => pc'[target'[i]] = "done"
    BY <1>6, <1>7, <2>1, Constants
  <2>4. ASSUME NEW v \in Worker
        PROVE  /\ current'[v] = i \/ Pushes(v, i)' => i = x \/ current[v] = i \/ Pushes(v, i)
               /\ after'[v].cb = "unlock" => after'[v] = after[v]
    BY <1>5, <1>7, Constants DEF Pushes
  <2> QED
    BY <1>4, <2>1, <2>2, <2>3, <2>4 DEF ParkedAt
<1>19. Frames'
  BY <1>1, <1>2, <1>3, <1>4, Constants, Types DEF IInv, Frames
<1>20. Hosted'
  BY <1>1, <1>2, <1>3, <1>4, Constants, Types DEF IInv, Hosted, Unused
<1>21. Feet'
  <2> SUFFICES ASSUME NEW u \in Thread, NEW v \in Worker, OnStack(u)'
               PROVE  foot'[v] # StackOf(u)'
    BY DEF Feet
  <2>1. u # j /\ OnStack(u)
    BY <1>3, <1>7 DEF OnStack
  <2>2. CASE v = w
    <3>1. (stackBase[u] = NULL => u = Main) /\ (stackBase[j] = NULL => j = Main)
      BY <1>1, <1>2, <2>1 DEF OnStack, IInv, Hosted, Unused
    <3> QED
      BY <1>2, <1>3, <1>7, <2>1, <2>2, <3>1, Apart DEF StackOf
  <2>3. CASE v # w
    BY <1>1, <1>3, <1>7, <2>1, <2>3 DEF IInv, Feet, StackOf
  <2> QED
    BY <2>2, <2>3
<1>22. Left'
  <2> SUFFICES ASSUME NEW i \in Thread, NEW v \in Worker, pc'[i] = "wait",
                      pc'[target'[i]] = "done", foot'[v] = StackOf(target[i])'
               PROVE  Pushes(v, i)'
    BY DEF Left
  <2> DEFINE u == target[i]
  <2>1. /\ pc[i] = "wait" /\ u \in Thread /\ target'[i] = u /\ foot'[v] = StackOf(u)
        /\ stackBase' = stackBase
    BY <1>3, <1>7, Targets DEF StackOf
  <2>2. CASE u = j
    <3>1. i = x
      BY <1>1, <2>1, <2>2 DEF IInv, Named
    <3>2. OnStack(j)
      BY <1>1, <1>2 DEF OnStack, Unused
    <3>3. v = w
      BY <1>1, <1>2, <1>7, <2>1, <2>2, <3>2 DEF IInv, Feet
    <3> QED
      BY <1>5, <3>1, <3>3, Constants DEF Pushes
  <2>3. CASE u # j
    <3>1. pc[u] = "done"
      BY <1>7, <2>1, <2>3
    <3>2. stackBase[u] = NULL => u = Main
      <4>1. frame[u] = NoFrame
        BY <2>1, <3>1 DEF IInv, Frames
      <4>2. \A y \in Thread : target[y] = u => pc[y] # "reap"
        BY <2>1, Constants DEF IInv, Joins, JoinAt
      <4> QED
        BY <2>1, <3>1, <4>1, <4>2 DEF IInv, Hosted, Unused
    <3>3. stackBase[j] = NULL => j = Main
      BY <1>1, <1>2 DEF IInv, Hosted, Unused
    <3>4. v # w
      BY <1>2, <1>7, <2>1, <2>3, <3>2, <3>3, Apart
    <3>5. Pushes(v, i)
      BY <1>7, <2>1, <3>1, <3>4 DEF IInv, Left
    <3> QED
      BY <1>5, <3>4, <3>5 DEF Pushes
  <2> QED
    BY <2>2, <2>3
<1>23. Alive'
  <2>1. /\ Unfinished' = Unfinished \ {j} /\ j \in Unfinished
        /\ Leaving' = Leaving \cup {w} /\ w \notin Leaving
    <3>1. Unfinished' = Unfinished \ {j} /\ j \in Unfinished
      BY <1>1, <1>2, <1>7 DEF Unfinished, Unused
    <3>2. StackOf(j) # NULL
      BY Constants DEF StackOf
    <3>3. Leaving' = Leaving \cup {w} /\ w \notin Leaving
      BY <1>2, <1>7, <3>2 DEF Leaving
    <3> QED
      BY <3>1, <3>3
  <2>2. /\ Cardinality(Unfinished \ {j}) = Cardinality(Unfinished) - 1
        /\ Cardinality(Leaving \cup {w}) = Cardinality(Leaving) + 1
    BY <2>1, Counted, OneLess, OneMore
  <2> QED
    BY <1>3, <2>1, <2>2, Counted DEF IInv, Alive
<1> QED
  BY <1>8, <1>9, <1>10, <1>11, <1>12, <1>13, <1>14, <1>15, <1>16, <1>17, <1>18, <1>19, <1>20,
     <1>21, <1>22, <1>23
     DEF IInv

-------------------------------------------------------------------------------
LEMMA JoinLocksInv == ASSUME IInv, NEW w \in Worker, JoinLocks(w) PROVE IInv'
<1> DEFINE j == current[w]
           t == target[j]
<1>1. CanLock(w) /\ UNCHANGED <<phase, ready, lastCreated, inlineExec, arena, alive>>
  BY DEF JoinLocks
<1>2. \/ pc[t] = "done" /\ pc' = [pc EXCEPT ![j] = "reap"] /\ UNCHANGED <<workers, joins>>
      \/ /\ pc' = [pc EXCEPT ![j] = "user"] /\ target' = [target EXCEPT ![j] = NULL]
         /\ UNCHANGED <<workers, waiting, frame>>
      \/ /\ pc[t] # "done" /\ pc' = [pc EXCEPT ![j] = "wait"]
         /\ waiting' = [waiting EXCEPT ![t] = j] /\ Leave(w, "unlock", t)
         /\ UNCHANGED <<foot, target, frame>>
  BY DEF JoinLocks
<1> QED
  BY <1>1, <1>2, JoinFindsInv, JoinRefusedInv, JoinParksInv

LEMMA ExitInlineInv == ASSUME IInv, NEW w \in Worker, ExitInline(w) PROVE IInv'
<1>1. CASE frame[current[w]].worker = w
  BY <1>1, ExitReturnsInv
<1>2. CASE frame[current[w]].worker # w
  <2>1. /\ phase = "running" /\ phase' = "astray"
        /\ UNCHANGED <<ready, current, after, foot, lastCreated, inlineExec, pc, target,
                       waiting,
                       frame, stackBase, owned, alive>>
    BY <1>2 DEF ExitInline, Calling, At, arena
  <2>2. TypeOK'
    BY <2>1 DEF IInv, TypeOK, Phase
  <2>3. /\ Shape' /\ Sole' /\ Held' /\ Unseen' /\ CreationReachable' /\ Blank' /\ Joins'
        /\ Named' /\ Parked'
    BY <2>1 DEF IInv, Shape, ShapeAt, Sole, Hand, Pushes, Held, HandPc, RunningPc, Unseen,
                CreationReachable, Blank, Joins, JoinAt, Named, Parked, ParkedAt
  <2>4. Frames' /\ Counts' /\ Hosted' /\ StacksOwned' /\ Feet' /\ Left' /\ Alive'
    BY <2>1
       DEF IInv, Frames, Counts, Inlined, Hosted, StacksOwned, Feet, OnStack, StackOf, Left,
                Pushes, Alive, Unfinished, Leaving
  <2> QED
    BY <2>2, <2>3, <2>4 DEF IInv
<1> QED
  BY <1>1, <1>2

LEMMA SameInv == ASSUME IInv, UNCHANGED vars PROVE IInv'
<1>1. UNCHANGED <<phase, ready, current, after, foot, lastCreated, inlineExec, pc, target,
                  waiting,
                  frame, stackBase, owned, alive>>
  BY DEF vars, workers, joins, arena
<1>2. /\ TypeOK' /\ Shape' /\ Sole' /\ Held' /\ Unseen' /\ CreationReachable' /\ Blank'
      /\ Joins'
      /\ Named' /\ Parked'
  BY <1>1
     DEF IInv, TypeOK, Shape, ShapeAt, Sole, Hand, Pushes, Held, HandPc, RunningPc, Unseen,
              CreationReachable, Blank, Joins, JoinAt, Named, Parked, ParkedAt
<1>3. Frames' /\ Counts' /\ Hosted' /\ StacksOwned' /\ Feet' /\ Left' /\ Alive'
  BY <1>1
     DEF IInv, Frames, Counts, Inlined, Hosted, StacksOwned, Feet, OnStack, StackOf, Left,
              Pushes, Alive, Unfinished, Leaving
<1> QED
  BY <1>2, <1>3 DEF IInv

LEMMA ThreadsNextInv == ASSUME IInv, [Next \/ Stopped]_vars PROVE IInv'
<1>1. CASE UNCHANGED vars
  BY <1>1, SameInv
<1>2. ASSUME NEW w \in Worker, JoinLocks(w) \/ Proceed(w) \/ Call(w) PROVE IInv'
  <2>1. CASE JoinLocks(w)
    BY <2>1, JoinLocksInv
  <2>2. CASE Proceed(w)
    BY <2>2, ReapInv, ExitFinishInv, ExitLeaveInv, AfterSwitchInv, ResumeInv, StartAbortsInv,
       StartInv DEF Proceed
  <2>3. CASE Call(w)
    BY <2>3, YieldInv, CreateInv, ExitInlineInv, ExitInv, MainReturnsInv, JoinInv,
       JoinInlineInv,
       JoinInlineRefusedInv DEF Call, Disturb, End, JoinAny
  <2> QED
    BY <1>2, <2>1, <2>2, <2>3
<1> QED
  BY <1>1, <1>2 DEF Next, Stopped

LEMMA ThreadsInitInv == ASSUME Init PROVE IInv
<1>1. /\ phase = "running" /\ ready = {} /\ owned = {} /\ alive = 1
      /\ current = [w \in Worker |-> IF w = 0 THEN Main ELSE NULL]
      /\ after = [w \in Worker |-> NoCallback]
      /\ foot = [w \in Worker |-> NULL] /\ lastCreated = [w \in Worker |-> NULL]
      /\ inlineExec = [w \in Worker |-> 0]
      /\ pc = [t \in Thread |-> IF t = Main THEN "user" ELSE "free"]
      /\ target = [t \in Thread |-> NULL] /\ waiting = [t \in Thread |-> NULL]
      /\ frame = [t \in Thread |-> NoFrame] /\ stackBase = [t \in Thread |-> NULL]
  BY DEF Init, Stacks!Init
<1>2. TypeOK
  BY <1>1, Constants DEF TypeOK, Phase, Pc, NoCallback, NoFrame
<1>3. /\ Shape /\ Sole /\ Held /\ Unseen /\ CreationReachable /\ Blank /\ Joins /\ Named
      /\ Parked
  BY <1>1, Constants DEF Shape, ShapeAt, Sole, Hand, Pushes, Held, HandPc, RunningPc, Unseen,
     CreationReachable, Blank, Joins, JoinAt, Named, Parked, ParkedAt, NoCallback, Unused
<1>4. Frames /\ Hosted /\ StacksOwned /\ Feet /\ Left
  BY <1>1, Constants DEF Frames, Hosted, StacksOwned, Feet, OnStack, StackOf, Left, Unused
<1>5. Counts
  <2>1. \A w \in Worker : Inlined(w) = {}
    BY <1>1 DEF Inlined
  <2> QED
    BY <1>1, <2>1, FS_EmptySet DEF Counts
<1>6. Alive
  <2>1. Unfinished = {Main} /\ Leaving = {}
    BY <1>1, Constants DEF Unfinished, Leaving, Unused
  <2> QED
    BY <1>1, <2>1, FS_EmptySet, FS_Singleton DEF Alive
<1> QED
  BY <1>2, <1>3, <1>4, <1>5, <1>6 DEF IInv

LEMMA ThreadsInvariance == Spec => []IInv
<1>1. Init => IInv
  BY ThreadsInitInv
<1>2. IInv /\ [Next \/ Stopped]_vars => IInv'
  BY ThreadsNextInv
<1> QED
  BY <1>1, <1>2, PTL DEF Spec

(* Every variable of thread_mn.c holds what it can; inline_executing and      *)
(* alive_count do not fall below zero.                                        *)
THEOREM ThreadTypes == Spec => []TypeOK
BY ThreadsInvariance, PTL DEF IInv

(* Whichever worker starts, parks, ends or joins a thread, no two threads     *)
(* share a stack and the stack of a joined thread is free again               *)
(* (thread_mn.c, cleanup and new_stack).                                      *)
THEOREM StacksAreOwned == Spec => []StacksOwned
BY ThreadsInvariance, PTL DEF IInv

(* No created thread is forgotten between last_created and the run queues     *)
(* (thread_mn.c:676-678).                                                     *)
THEOREM CreatedIsReachable == Spec => []CreationReachable
BY ThreadsInvariance, PTL DEF IInv

LEMMA AliveIsExact == IInv => AliveExact
BY DEF IInv, Alive, Unfinished, Leaving, AliveExact

LEMMA BackAfterLeaving == IInv => WokenAfterLeaving
<1>1. ASSUME IInv, NEW j \in Thread, Back(j)
      PROVE  pc[target[j]] = "done" /\ \A w \in Worker : foot[w] # StackOf(target[j])
  <2>1. pc[j] = "wait" /\ pc[target[j]] = "done"
    BY <1>1 DEF IInv, Back, Parked, ParkedAt
  <2>2. ASSUME NEW w \in Worker, foot[w] = StackOf(target[j]) PROVE FALSE
    <3>1. Pushes(w, j) /\ Hand(w, j)
      BY <1>1, <2>1, <2>2 DEF IInv, Left, Hand
    <3>2. current[w] = j
      BY <1>1, <3>1 DEF IInv, Sole, Hand, Back
    <3> QED
      BY <1>1, <3>1, <3>2, Constants DEF IInv, Shape, ShapeAt, Pushes
  <2> QED
    BY <2>1, <2>2
<1> QED
  BY <1>1 DEF WokenAfterLeaving

(* alive_count is exact through inline runs and refused joins                 *)
(* (thread_mn.c:703-706).                                                     *)
THEOREM AliveCountIsExact == Spec => []AliveExact
BY AliveIsExact, ThreadsInvariance, PTL

(* A parked joiner comes back after its target has finished and the worker of *)
(* the target has left the stack that the joiner releases                     *)
(* (thread_mn.c:805-811).                                                     *)
THEOREM WokenOnlyAfterLeaving == Spec => []WokenAfterLeaving
BY BackAfterLeaving, ThreadsInvariance, PTL

-------------------------------------------------------------------------------
(* Steps of the scheduler.                                                    *)
Pushed(w) == IF after[w].cb = "push" THEN after[w].arg ELSE NULL
SavedAndPushed == [w \in Worker |-> [me |-> after[w].me, next |-> Pushed(w)]]

LEMMA Wakes ==
  ASSUME IInv, NEW t \in Thread, t \notin ready, \A v \in Worker : ~Hand(v, t)
  PROVE  t \in Scheduler!Wakeable
<1>1. \A v \in Worker : t # current[v] /\ t # after[v].me /\ t # Pushed(v)
  BY Constants DEF Hand, Pushes, Pushed
<1> QED
  BY <1>1 DEF Scheduler!Wakeable, Scheduler!Nowhere, Pushed

(* The threads that flush_last_created makes ready.                           *)
Flushing(w) == {lastCreated[w]} \ {NULL}

LEMMA FlushWakes ==
  ASSUME IInv, phase = "running", NEW w \in Worker
  PROVE  Flushing(w) \in SUBSET Scheduler!Wakeable /\ Flushed(w) = ready \cup Flushing(w)
<1>1. CASE lastCreated[w] = NULL
  BY <1>1 DEF Flushing, Flushed
<1>2. CASE lastCreated[w] # NULL
  BY <1>2, Fresh, Wakes DEF Flushing, Flushed
<1> QED
  BY <1>1, <1>2

LEMMA MakesReady ==
  ASSUME NEW w \in Worker, current[w] # NULL, UNCHANGED <<current, after>>,
         NEW made \in SUBSET Scheduler!Wakeable, ready' = ready \cup made
  PROVE  Scheduler!MakeReady(w)
BY DEF Scheduler!MakeReady

LEMMA Leaves ==
  ASSUME TypeOK, NEW w \in Worker, current[w] # NULL,
         current' = [current EXCEPT ![w] = NULL],
         NEW c, after' = [after EXCEPT ![w] = c], c.me \in {current[w], NULL},
         NEW made \in SUBSET Scheduler!Wakeable, ready' = ready \cup made,
         NEW n \in {current[w], NULL} \cup (Scheduler!Wakeable \ made),
         n = IF c.cb = "push" THEN c.arg ELSE NULL
  PROVE  Scheduler!Leave(w)
<1>1. after'[w] = c /\ \A v \in Worker : v # w => after'[v] = after[v]
  BY DEF TypeOK
<1>2. SavedAndPushed' = [SavedAndPushed EXCEPT ![w] = [me |-> c.me, next |-> n]]
  <2>1. SavedAndPushed'[w] = [me |-> c.me, next |-> n]
    BY <1>1 DEF SavedAndPushed, Pushed
  <2>2. \A v \in Worker : v # w => SavedAndPushed'[v] = SavedAndPushed[v]
    BY <1>1 DEF SavedAndPushed, Pushed
  <2> QED
    BY <2>1, <2>2 DEF SavedAndPushed
<1> QED
  BY <1>2 DEF Scheduler!Leave, SavedAndPushed, Pushed

LEMMA PushesNext ==
  ASSUME TypeOK, NEW w \in Worker, after[w] # NoCallback, ShapeAt(w),
         current' = current, after' = [after EXCEPT ![w] = NoCallback],
         ready' = IF after[w].cb = "push" THEN ready \cup {after[w].arg} ELSE ready
  PROVE  Scheduler!Push(w)
<1>1. after'[w] = NoCallback /\ \A v \in Worker : v # w => after'[v] = after[v]
  BY DEF TypeOK
<1>2. SavedAndPushed' = [SavedAndPushed EXCEPT ![w] = Scheduler!Nobody]
  <2>1. after'[w].cb = "none" /\ after'[w].me = NULL
    BY <1>1 DEF NoCallback
  <2>2. SavedAndPushed'[w] = Scheduler!Nobody
    BY <2>1 DEF SavedAndPushed, Pushed, Scheduler!Nobody
  <2>3. \A v \in Worker : v # w => SavedAndPushed'[v] = SavedAndPushed[v]
    BY <1>1 DEF SavedAndPushed, Pushed
  <2> QED
    BY <2>2, <2>3 DEF SavedAndPushed
<1>3. SavedAndPushed[w] # Scheduler!Nobody
  <2>1. after[w] \in [cb : {"none", "push", "unlock"}, arg : Int, me : Thread \cup {NULL}]
    BY DEF TypeOK
  <2>2. after[w].cb \in {"push", "unlock"}
    BY <2>1 DEF ShapeAt, NoCallback
  <2>3. after[w].me # NULL \/ Pushed(w) # NULL
    BY <2>2, Constants DEF ShapeAt, Pushed
  <2> QED
    BY <2>3 DEF SavedAndPushed, Scheduler!Nobody
<1>4. ready' = ready \cup ({Pushed(w)} \ {NULL})
  BY Constants DEF ShapeAt, Pushed
<1> QED
  BY <1>2, <1>3, <1>4 DEF Scheduler!Push, SavedAndPushed, Pushed

LEMMA Takes ==
  ASSUME NEW w \in Worker, NEW t \in Thread, Taking(w, t) PROVE Scheduler!Take(w)
<1>1. /\ current[w] = NULL /\ after[w] = NoCallback /\ t \in ready /\ ready' = ready \ {t}
      /\ current' = [current EXCEPT ![w] = t] /\ after' = after
  BY DEF Taking, InLoop
<1>2. SavedAndPushed[w] = Scheduler!Nobody /\ SavedAndPushed' = SavedAndPushed
  BY <1>1 DEF SavedAndPushed, Pushed, NoCallback, Scheduler!Nobody
<1> QED
  BY <1>1, <1>2 DEF Scheduler!Take, SavedAndPushed, Pushed

LEMMA Replaces ==
  ASSUME NEW w \in Worker, current[w] # NULL, NEW t \in Scheduler!Wakeable,
         current' = [current EXCEPT ![w] = t], UNCHANGED <<ready, after>>
  PROVE  Scheduler!Replace(w)
BY DEF Scheduler!Replace

-------------------------------------------------------------------------------
LEMMA CallsSchedule ==
  ASSUME IInv, NEW w \in Worker, Call(w)
  PROVE  Scheduler!Next \/ UNCHANGED <<ready, current, after>>
<1> DEFINE j == current[w]
<1>1. phase = "running" /\ j # NULL /\ j \in Thread /\ TypeOK /\ pc[j] = "user"
  BY Caller DEF IInv, Call, Disturb, End, JoinAny, Yield, Create, Joining, Join, JoinInline,
     JoinInlineRefused, ExitInline, Exit, MainReturns, Calling, At
<1>2. ASSUME Yield(w) PROVE Scheduler!Leave(w)
  <2> DEFINE c == [cb |-> "push", arg |-> j, me |-> j]
  <2>1. /\ current' = [current EXCEPT ![w] = NULL] /\ after' = [after EXCEPT ![w] = c]
        /\ ready' = ready \cup Flushing(w) /\ Flushing(w) \in SUBSET Scheduler!Wakeable
    BY <1>1, <1>2, FlushWakes DEF Yield, Leave, Flush
  <2>2. c.me = j /\ c.arg = j /\ c.cb = "push"
    OBVIOUS
  <2> HIDE DEF c
  <2> QED
    BY <1>1, <2>1, <2>2, Leaves
<1>3. ASSUME (\E t \in Thread : Create(w, t) \/ Join(w, t)) \/ Exit(w)
      PROVE  Scheduler!MakeReady(w)
  <2>1. ready' = Flushed(w) /\ UNCHANGED <<current, after>>
    BY <1>3 DEF Create, Join, Exit, Flush, workers
  <2> QED
    BY <1>1, <2>1, FlushWakes, MakesReady
<1>4. ASSUME NEW t \in Thread, JoinInline(w, t) PROVE Scheduler!Replace(w)
  <2>1. /\ lastCreated[w] = t /\ current' = [current EXCEPT ![w] = t]
        /\ UNCHANGED <<ready, after>>
    BY <1>4 DEF JoinInline
  <2>2. t \in Scheduler!Wakeable
    BY <1>1, <2>1, Constants, Fresh, Wakes
  <2> QED
    BY <1>1, <2>1, <2>2, Replaces
<1>5. ASSUME ExitInline(w) PROVE Scheduler!Replace(w) \/ UNCHANGED <<ready, current, after>>
  <2>1. CASE frame[j].worker # w
    BY <1>5, <2>1 DEF ExitInline
  <2>2. CASE frame[j].worker = w
    <3> DEFINE i == frame[j].joiner
    <3>1. frame[j] # NoFrame /\ current' = [current EXCEPT ![w] = i] /\ UNCHANGED <<ready,
                                                                                    after>>
      BY <1>5, <2>2 DEF ExitInline
    <3>2. i \in Thread /\ pc[i] = "inline"
      BY <1>1, <3>1, Types DEF IInv, Frames
    <3>3. i \in Scheduler!Wakeable
      BY <1>1, <3>2, Unheld, Wakes DEF IInv, Held
    <3> QED
      BY <1>1, <3>1, <3>3, Replaces
  <2> QED
    BY <2>1, <2>2
<1>6. ASSUME MainReturns(w) \/ \E t \in Thread : JoinInlineRefused(w, t)
      PROVE  UNCHANGED <<ready, current, after>>
  BY <1>6 DEF MainReturns, JoinInlineRefused, workers
<1> QED
  BY <1>2, <1>3, <1>4, <1>5, <1>6 DEF Call, Disturb, End, JoinAny, Scheduler!Next

LEMMA ProceedsSchedule ==
  ASSUME IInv, NEW w \in Worker, Proceed(w) \/ JoinLocks(w)
  PROVE  Scheduler!Next \/ UNCHANGED <<ready, current, after>>
<1> DEFINE j == current[w]
<1>1. ASSUME ExitFinish(w) PROVE Scheduler!Leave(w)
  <2> DEFINE x == waiting[j]
             c == WakeLater(x)
  <2>1. /\ phase = "running" /\ j # NULL /\ ~Locked(j) /\ ready' = ready
        /\ current' = [current EXCEPT ![w] = NULL] /\ after' = [after EXCEPT ![w] = c]
    BY <1>1 DEF ExitFinish, At, Wake
  <2>2. j \in Thread /\ TypeOK
    BY <2>1, Caller DEF IInv
  <2>3. c.me = NULL /\ x = IF c.cb = "push" THEN c.arg ELSE NULL
    BY DEF WakeLater, NoCallback
  <2>4. x = NULL \/ x \in Scheduler!Wakeable
    BY <2>1, <2>2, Waiter, Wakes
  <2>5. {} \in SUBSET Scheduler!Wakeable /\ ready' = ready \cup {}
        /\ x \in {j, NULL} \cup (Scheduler!Wakeable \ {})
    BY <2>1, <2>4
  <2> HIDE DEF c, x
  <2> QED
    BY <2>1, <2>2, <2>3, <2>5, Leaves
<1>2. ASSUME AfterSwitch(w) PROVE Scheduler!Push(w)
  BY <1>2, PushesNext DEF IInv, Shape, AfterSwitch
<1>3. ASSUME NEW t \in Thread, Resume(w, t) \/ StartAborts(w, t) \/ \E s \in Stack : Start(w, t, s)
      PROVE  Scheduler!Take(w)
  BY <1>3, Takes DEF Resume, StartAborts, Start
<1>4. ASSUME Reap(w) \/ ExitLeave(w) PROVE UNCHANGED <<ready, current, after>>
  BY <1>4 DEF Reap, ExitLeave, workers
<1>5. ASSUME JoinLocks(w) PROVE Scheduler!Leave(w) \/ UNCHANGED <<ready, current, after>>
  <2>1. CASE UNCHANGED <<current, after>>
    BY <1>5, <2>1 DEF JoinLocks
  <2>2. CASE Leave(w, "unlock", target[j])
    <3> DEFINE c == [cb |-> "unlock", arg |-> target[j], me |-> j]
    <3>1. /\ phase = "running" /\ j # NULL /\ ready' = ready /\ TypeOK
          /\ current' = [current EXCEPT ![w] = NULL] /\ after' = [after EXCEPT ![w] = c]
      BY <1>5, <2>2 DEF JoinLocks, CanLock, At, Leave, IInv
    <3>2. c.me = j /\ NULL = IF c.cb = "push" THEN c.arg ELSE NULL
      OBVIOUS
    <3>3. {} \in SUBSET Scheduler!Wakeable /\ ready' = ready \cup {}
      BY <3>1
    <3> HIDE DEF c
    <3> QED
      BY <3>1, <3>2, <3>3, Leaves
  <2> QED
    BY <1>5, <2>1, <2>2 DEF JoinLocks, workers
<1> QED
  BY <1>1, <1>2, <1>3, <1>4, <1>5 DEF Proceed, Scheduler!Next

LEMMA ThreadsSchedule ==
  ASSUME IInv, [Next \/ Stopped]_vars PROVE [Scheduler!Next]_(Scheduler!vars)
<1>1. UNCHANGED <<ready, current, after>> => UNCHANGED Scheduler!vars
  BY DEF Scheduler!vars
<1>2. CASE UNCHANGED vars \/ Stopped
  BY <1>1, <1>2 DEF Stopped, vars, workers
<1>3. CASE Next
  BY <1>1, <1>3, CallsSchedule, ProceedsSchedule DEF Next
<1> QED
  BY <1>2, <1>3

LEMMA ThreadsInitSchedule == ASSUME Init PROVE Scheduler!Init
<1>1. /\ ready = {} /\ current = [v \in Worker |-> IF v = 0 THEN Main ELSE NULL]
      /\ 0 \in Worker /\ Main \in Thread
  BY Constants DEF Init
<1>2. SavedAndPushed = [w \in Worker |-> Scheduler!Nobody]
  BY DEF Init, SavedAndPushed, Pushed, NoCallback, Scheduler!Nobody
<1> QED
  BY <1>1, <1>2 DEF Scheduler!Init, SavedAndPushed, Pushed

(* Create, join, inline runs, yields and exits keep the contract of           *)
(* AbstractScheduler: a thread is made ready once, when it is nowhere and its *)
(* registers are saved.                                                       *)
THEOREM ThreadsImplementScheduler == Spec => SchedulerSpec
<1>1. Init => Scheduler!Init
  BY ThreadsInitSchedule
<1>2. IInv /\ [Next \/ Stopped]_vars => [Scheduler!Next]_(Scheduler!vars)
  BY ThreadsSchedule
<1> QED
  BY <1>1, <1>2, ThreadsInvariance, PTL DEF Spec, SchedulerSpec, Scheduler!Spec

-------------------------------------------------------------------------------

(* A thread that has been made ready and has not left its worker since.       *)
Up(t) == t \in ready \/ \E w \in Worker : current[w] = t

SyncTypes ==
  /\ locked \in BOOLEAN /\ count \in Int
  /\ mutexQ \in Seq(Thread) /\ semQ \in Seq(Thread)
  /\ pendingSigs \in [Thread -> SUBSET Sig] /\ waitMask \in [Thread -> SUBSET Sig]
  /\ blockedOn \in [Thread -> {"none", "mutex", "sem", "sig"}]
  /\ toWake \in [Thread -> Thread \cup {NULL}]
  /\ holders \subseteq Thread

(* The place of a thread in its code tells whether it is blocked or wakes.    *)
Busy ==
  \A t \in Thread : /\ blockedOn[t] # "none" <=> pc[t] = "parked"
                    /\ toWake[t] # NULL <=> pc[t] = "waker"

(* The objects hold threads that are blocked on them, each of them once.      *)
Lines ==
  /\ IsInjective(mutexQ) /\ IsInjective(semQ)
  /\ \A t \in Thread :
       /\ t \in ToSet(mutexQ) => blockedOn[t] = "mutex"
       /\ t \in ToSet(semQ) => blockedOn[t] = "sem"
       /\ waitMask[t] # {} => blockedOn[t] = "sig"

(* A blocked thread is with its object, or with the thread that wakes it, or  *)
(* up.                                                                        *)
Chosen(u, t) ==
  /\ pc[t] = "parked" /\ ~Waits(t) /\ ~Up(t)
  /\ \A w \in Worker : after[w].me # t
  /\ \A v \in Thread : toWake[v] = t => v = u
Somewhere ==
  \A t \in Thread :
    /\ Waits(t) => ~Up(t)
    /\ toWake[t] # NULL => Chosen(t, toWake[t])
    /\ pc[t] = "parked" => Waits(t) \/ OnItsWay(t)

(* The lock of its object is kept until its worker has left its stack.        *)
LockOf(t) ==
  IF blockedOn[t] = "mutex" THEN MutexLock ELSE IF blockedOn[t] = "sem" THEN SemLock ELSE t
LockKept ==
  \A t \in Thread, w \in Worker :
    after[w].cb = "unlock" /\ after[w].me = t /\ pc[t] = "parked" =>
      Waits(t) /\ after[w].arg = LockOf(t)

(* The owner of the mutex.                                                    *)
Owners == holders \cup {t \in BlockedOn("mutex") : OnItsWay(t)}
Owned ==
  /\ ~locked => mutexQ = <<>> /\ Owners = {}
  /\ locked => \E t \in Thread : Owners = {t}
  /\ \A t \in holders : blockedOn[t] # "mutex"

Exact ==
  /\ Len(semQ) = IF count < 0 THEN -count ELSE 0
  /\ \A t \in Thread : pendingSigs[t] \cap waitMask[t] = {}

SInv == SyncTypes /\ Busy /\ Lines /\ Somewhere /\ LockKept /\ Owned /\ Exact

-------------------------------------------------------------------------------
(* What the calls do to the threads.                                          *)

(* A thread parks.                                                            *)
LEMMA ParksInv ==
  ASSUME IInv, NEW w \in Worker, At(w, "user"), Flush(w),
         pc' = [pc EXCEPT ![current[w]] = "parked"],
         NEW lock \in Int, Leave(w, "unlock", lock),
         UNCHANGED <<phase, foot, inlineExec, joins, arena, alive>>
  PROVE  IInv'
<1> DEFINE j == current[w]
<1>1. /\ phase = "running" /\ j # NULL /\ j \in Thread /\ after[w].cb = "none"
      /\ foot[w] = NULL
      /\ (\A v \in Worker : Hand(v, j) => v = w) /\ j \notin ready /\ pc[j] = "user"
      /\ \A v \in Worker : lastCreated[v] # j
  BY Caller DEF At
<1>2. UNCHANGED <<phase, foot, inlineExec, target, waiting, frame, uf, stackBase, owned,
                  alive>>
  BY DEF joins, arena
<1>3. /\ ready' = Flushed(w)
      /\ lastCreated' = [v \in Worker |-> IF v = w THEN NULL ELSE lastCreated[v]]
      /\ current' = [v \in Worker |-> IF v = w THEN NULL ELSE current[v]]
      /\ after' = [v \in Worker |-> IF v = w THEN [cb |-> "unlock", arg |-> lock, me |-> j]
                                             ELSE after[v]]
      /\ pc' = [u \in Thread |-> IF u = j THEN "parked" ELSE pc[u]]
  BY <1>1 DEF IInv, TypeOK, Flush, Leave
<1>4. TypeOK'
  <2>1. [cb |-> "unlock", arg |-> lock, me |-> j]
          \in [cb : {"none", "push", "unlock"}, arg : Int, me : Thread \cup {NULL}]
    BY <1>1
  <2>2. after' \in [Worker ->
                      [cb : {"none", "push", "unlock"}, arg : Int, me : Thread \cup {NULL}]]
    <3> DEFINE c == [cb |-> "unlock", arg |-> lock, me |-> j]
    <3>1. after' = [v \in Worker |-> IF v = w THEN c ELSE after[v]]
      BY <1>3
    <3> HIDE DEF c
    <3> QED
      BY <2>1, <3>1 DEF IInv, TypeOK, c
  <2>3. ready' \subseteq Thread /\ lastCreated' \in [Worker -> Thread \cup {NULL}]
    BY <1>3, Types DEF IInv, Flushed
  <2>4. current' \in [Worker -> Thread \cup {NULL}]
    BY <1>3, Types DEF IInv
  <2>5. pc' \in [Thread -> Pc]
    BY <1>3 DEF IInv, TypeOK, Pc
  <2> QED
    BY <1>2, <2>2, <2>3, <2>4, <2>5 DEF IInv, TypeOK
<1>5. Counts' /\ StacksOwned'
  BY <1>2 DEF IInv, Counts, Inlined, StacksOwned
<1>6. Shape'
  BY <1>1, <1>2, <1>3, Constants, Types DEF IInv, Shape, ShapeAt, Hand
<1>7. Sole'
  BY <1>1, <1>2, <1>3, Constants, Types, Fresh DEF IInv, Sole, Hand, Pushes, Flushed
<1>8. Held'
  <2>1. ASSUME NEW t \in Thread, NEW v \in Worker PROVE HandPc(v, t)'
    <3>1. HandPc(v, t)
      BY DEF IInv, Held
    <3>2. CASE v = w
      BY <1>1, <1>3, <3>2, Constants DEF HandPc, Pushes, RunningPc
    <3>3. CASE v # w
      <4>1. UNCHANGED <<current[v], after[v]>>
        BY <1>3, <3>3
      <4>2. t = j => current[v] # t /\ after[v].me # t /\ ~Pushes(v, t)
        BY <1>1, <3>3 DEF Hand
      <4>3. t # j => pc'[t] = pc[t]
        BY <1>3
      <4> QED
        BY <1>2, <3>1, <4>1, <4>2, <4>3 DEF HandPc, Pushes, RunningPc
    <3> QED
      BY <3>2, <3>3
  <2>2. ASSUME NEW t \in ready' PROVE pc'[t] \in {"fresh", "user", "wait", "parked"}
    <3>1. t \in ready \/ (lastCreated[w] # NULL /\ t = lastCreated[w])
      BY <1>3, <2>2 DEF Flushed
    <3>2. CASE t \in ready
      BY <1>3, <3>2, Types DEF IInv, Held
    <3>3. CASE lastCreated[w] # NULL /\ t = lastCreated[w]
      BY <1>1, <1>3, <3>3, Fresh
    <3> QED
      BY <3>1, <3>2, <3>3
  <2> QED
    BY <2>1, <2>2 DEF Held
<1>9. Unseen'
  BY <1>1, <1>2, <1>3, Constants, Types DEF IInv, Unseen, Flushed
<1>10. CreationReachable'
  BY <1>1, <1>2, <1>3, Constants, Types, Reachable DEF Flushed
<1>11. Blank' /\ Hosted' /\ Feet' /\ Alive'
  BY <1>1, <1>2, <1>3, Moved
<1>12. Joins'
  BY <1>1, <1>2, <1>3, Constants, Types DEF IInv, Joins, JoinAt, Unused
<1>13. Named'
  <2>1. \A u \in Thread : pc[u] # "wait" => pc'[u] # "wait"
    BY <1>3
  <2>2. \A u \in Thread : pc[u] = "wait" => pc'[u] = "wait"
    BY <1>1, <1>3
  <2>3. \A u \in Thread : pc[u] \notin Unused \cup {"done"} => pc'[u] \notin Unused \cup {"done"}
    BY <1>3 DEF Unused
  <2>4. \A u \in Thread : pc[u] = "done" => pc'[u] = "done"
    BY <1>1, <1>3
  <2>5. Named /\ \A u \in Thread : waiting[u] # NULL => waiting[u] \in Thread
    BY Types DEF IInv
  <2>6. ASSUME NEW t \in Thread, waiting'[t] # NULL
        PROVE  /\ pc'[waiting'[t]] = "wait" /\ target'[waiting'[t]] = t
               /\ pc'[t] \notin Unused \cup {"done"}
    BY <1>2, <2>2, <2>3, <2>5, <2>6 DEF Named
  <2>7. ASSUME NEW i \in Thread, pc'[i] = "wait", pc'[target'[i]] # "done"
        PROVE  waiting'[target'[i]] = i
    <3>1. pc[i] = "wait" /\ target[i] \in Thread
      BY <2>1, <2>7, Targets
    <3>2. pc[target[i]] # "done"
      BY <1>2, <2>4, <2>7, <3>1
    <3> QED
      BY <1>2, <2>5, <3>1, <3>2 DEF Named
  <2> QED
    BY <2>6, <2>7 DEF Named
<1>14. Parked'
  <2> SUFFICES ASSUME NEW i \in Thread, pc'[i] = "wait" PROVE ParkedAt(i)'
    BY DEF Parked, ParkedAt
  <2>1. ParkedAt(i) /\ pc[i] = "wait" /\ i # j /\ target'[i] = target[i] /\ target[i] \in Thread
    BY <1>2, <1>3, Targets DEF IInv, Parked
  <2>2. /\ i \in ready' => i \in ready
        /\ \A v \in Worker : current'[v] = i => current[v] = i
    BY <1>1, <1>3, <2>1, Fresh, Constants DEF Flushed
  <2>3. \A v \in Worker : /\ Pushes(v, i)' => Pushes(v, i)
                          /\ after'[v].me = i => after'[v] = after[v]
    BY <1>3, <2>1 DEF Pushes
  <2>4. pc'[target[i]] = "done" <=> pc[target[i]] = "done"
    BY <1>1, <1>3, <2>1
  <2> QED
    BY <2>1, <2>2, <2>3, <2>4 DEF ParkedAt
<1>15. Frames'
  BY <1>1, <1>2, <1>3, Constants, Types DEF IInv, Frames
<1>16. Left'
  BY <1>1, <1>2, <1>3, Constants, Targets DEF IInv, Left, StackOf, Pushes
<1> QED
  BY <1>4, <1>5, <1>6, <1>7, <1>8, <1>9, <1>10, <1>11, <1>12, <1>13, <1>14, <1>15, <1>16
     DEF IInv

(* A thread goes on, and may make a parked one ready.                         *)
LEMMA GoesOnInv ==
  ASSUME IInv, NEW w \in Worker, phase = "running", current[w] # NULL,
         pc[current[w]] \in {"user", "parked", "waker"},
         NEW place \in {"user", "waker"}, pc' = [pc EXCEPT ![current[w]] = place],
         NEW made \in SUBSET Thread, ready' = ready \cup made,
         \A u \in made : pc[u] = "parked" /\ \A v \in Worker : ~Hand(v, u),
         UNCHANGED <<phase, workers, lastCreated, inlineExec, joins, arena, alive>>
  PROVE  IInv'
<1> DEFINE j == current[w]
<1>1. /\ j \in Thread /\ after[w].cb = "none" /\ foot[w] = NULL
      /\ (\A v \in Worker : Hand(v, j) => v = w) /\ j \notin ready
      /\ \A v \in Worker : lastCreated[v] # j
      /\ j \notin made
  BY Caller DEF Hand
<1>2. UNCHANGED <<phase, current, after, foot, lastCreated, inlineExec, target, waiting,
                  frame, uf,
                  stackBase, owned, alive>>
  BY DEF workers, joins, arena
<1>3. pc' = [u \in Thread |-> IF u = j THEN place ELSE pc[u]]
  BY <1>1 DEF IInv, TypeOK
<1>4. TypeOK'
  BY <1>1, <1>2, <1>3, Constants DEF IInv, TypeOK, Pc, Phase
<1>5. Counts' /\ StacksOwned'
  BY <1>2 DEF IInv, Counts, Inlined, StacksOwned
<1>6. Shape'
  BY <1>1, <1>2, <1>3, Constants, Types DEF IInv, Shape, ShapeAt, Hand
<1>7. Sole'
  BY <1>1, <1>2, <1>3 DEF IInv, Sole, Hand, Pushes
<1>8. Held'
  <2>1. ASSUME NEW u \in Thread, NEW v \in Worker PROVE HandPc(v, u)'
    <3>1. HandPc(v, u) /\ (u = j /\ Hand(v, u) => v = w) /\ (Hand(v, u)' <=> Hand(v, u))
      BY <1>1, <1>2 DEF IInv, Held, Hand, Pushes
    <3>2. CASE u = j
      BY <1>1, <1>2, <1>3, <2>1, <3>1, <3>2, Constants DEF HandPc, RunningPc, Hand, Pushes
    <3>3. CASE u # j
      BY <1>2, <1>3, <3>1, <3>3 DEF HandPc, RunningPc, Pushes
    <3> QED
      BY <3>2, <3>3
  <2>2. \A u \in ready' : pc'[u] \in {"fresh", "user", "wait", "parked"}
    BY <1>1, <1>3, Types DEF IInv, Held
  <2> QED
    BY <2>1, <2>2 DEF Held
<1>9. Unseen'
  <2>1. \A v \in Worker : lastCreated[v] # NULL =>
          /\ lastCreated[v] \in Thread /\ pc[lastCreated[v]] = "fresh"
          /\ pc'[lastCreated[v]] = "fresh" /\ lastCreated[v] \notin ready'
    BY <1>1, <1>3, Fresh
  <2> QED
    BY <1>2, <2>1 DEF IInv, Unseen
<1>10. CreationReachable'
  BY <1>1, <1>2, <1>3, Constants, Types, Reachable DEF IInv, Shape, ShapeAt
<1>11. Blank' /\ Hosted' /\ Feet' /\ Alive'
  BY <1>1, <1>2, <1>3, Moved
<1>12. Joins'
  BY <1>1, <1>2, <1>3, Constants, Types DEF IInv, Joins, JoinAt, Unused
<1>13. Named'
  BY <1>1, <1>2, <1>3, Constants, Types, Targets DEF IInv, Named, Unused
<1>14. Parked'
  BY <1>1, <1>2, <1>3, Constants, Targets DEF IInv, Parked, ParkedAt, Pushes
<1>15. Frames'
  BY <1>1, <1>2, <1>3, Constants, Types DEF IInv, Frames
<1>16. Left'
  BY <1>1, <1>2, <1>3, Constants, Targets DEF IInv, Left, StackOf, Pushes
<1> QED
  BY <1>4, <1>5, <1>6, <1>7, <1>8, <1>9, <1>10, <1>11, <1>12, <1>13, <1>14, <1>15, <1>16
     DEF IInv

-------------------------------------------------------------------------------
(* The steps of thread_mn.c neither move a parked thread out of its object    *)
(* nor a waker out of its call.                                               *)
KeepsParked ==
  \A t \in Thread :
    /\ pc'[t] = "parked" <=> pc[t] = "parked"
    /\ pc'[t] = "waker" <=> pc[t] = "waker"
    /\ pc[t] = "parked" =>
         /\ Up(t)' <=> Up(t)
         /\ \A w \in Worker : after'[w].me = t => after'[w] = after[w]

(* A worker flushes and may leave the thread that makes the call.             *)
LEMMA FlushKeeps ==
  ASSUME IInv, phase = "running", NEW w \in Worker, current[w] # NULL, ready' = Flushed(w),
         pc[current[w]] # "parked" \/ current' = current,
         \A v \in Worker : v # w => current'[v] = current[v] /\ after'[v] = after[v],
         current'[w] \in {current[w], NULL},
         after'[w] = after[w] \/ (after'[w].me = current[w] /\ pc[current[w]] # "parked"),
         \A u \in Thread : pc'[u] = pc[u] \/ (pc[u] \notin {"parked", "waker"}
                                               /\ pc'[u] \notin {"parked", "waker"})
  PROVE  KeepsParked
<1> SUFFICES ASSUME NEW t \in Thread, pc[t] = "parked"
             PROVE  /\ Up(t)' <=> Up(t)
                    /\ \A v \in Worker : after'[v].me = t => after'[v] = after[v]
  BY DEF KeepsParked
<1>1. t \in ready' <=> t \in ready
  BY Fresh DEF Flushed
<1>2. \A v \in Worker : current'[v] = t <=> current[v] = t
  BY Constants
<1> QED
  BY <1>1, <1>2 DEF Up

LEMMA CallsKeep == ASSUME IInv, NEW w \in Worker, Call(w) PROVE KeepsParked
<1> DEFINE j == current[w]
<1>1. /\ phase = "running" /\ j # NULL /\ j \in Thread /\ TypeOK /\ pc[j] = "user"
      /\ j \notin ready /\ \A v \in Worker : Hand(v, j) => v = w
  BY Caller DEF IInv, Call, Disturb, End, JoinAny, Yield, Create, Joining, Join, JoinInline,
     JoinInlineRefused, ExitInline, Exit, MainReturns, Calling, At
<1>2. ASSUME Yield(w) PROVE KeepsParked
  BY <1>1, <1>2, FlushKeeps, Constants DEF Yield, Flush, Leave, TypeOK
<1>3. ASSUME NEW t \in Thread, Create(w, t) PROVE KeepsParked
  BY <1>1, <1>3, FlushKeeps, Constants DEF Create, workers, TypeOK
<1>4. ASSUME NEW t \in Thread, Join(w, t) PROVE KeepsParked
  BY <1>1, <1>4, FlushKeeps, Constants DEF Join, Flush, workers, TypeOK
<1>5. ASSUME Exit(w) PROVE KeepsParked
  BY <1>1, <1>5, FlushKeeps, Constants DEF Exit, Flush, workers, TypeOK
<1>6. ASSUME NEW t \in Thread, JoinInline(w, t) PROVE KeepsParked
  <2>1. /\ pc[t] = "fresh" /\ lastCreated[w] = t /\ UNCHANGED <<ready, after>>
        /\ current' = [current EXCEPT ![w] = t]
        /\ pc' = [pc EXCEPT ![j] = "inline", ![t] = "user"]
    BY <1>1, <1>6, Fresh, Constants DEF JoinInline
  <2> QED
    BY <1>1, <2>1 DEF KeepsParked, Up, TypeOK
<1>7. ASSUME NEW t \in Thread, JoinInlineRefused(w, t) PROVE KeepsParked
  <2>1. /\ pc[t] = "fresh" /\ UNCHANGED <<ready, after, current>>
        /\ pc' = [pc EXCEPT ![t] = Released]
    BY <1>1, <1>7, Fresh, Constants DEF JoinInlineRefused, workers
  <2> QED
    BY <1>1, <2>1, ReleasedUnused DEF KeepsParked, Up, TypeOK
<1>8. ASSUME ExitInline(w) PROVE KeepsParked
  <2>1. CASE frame[j].worker # w
    BY <1>8, <2>1 DEF ExitInline, KeepsParked, Up
  <2>2. CASE frame[j].worker = w
    <3> DEFINE i == frame[j].joiner
    <3>1. /\ frame[j] # NoFrame /\ current' = [current EXCEPT ![w] = i]
          /\ UNCHANGED <<ready, after>> /\ pc' = [pc EXCEPT ![j] = "done", ![i] = "reap"]
      BY <1>8, <2>2 DEF ExitInline
    <3>2. i \in Thread /\ pc[i] = "inline"
      BY <1>1, <3>1, Types DEF IInv, Frames
    <3> HIDE DEF i
    <3> QED
      BY <1>1, <3>1, <3>2 DEF KeepsParked, Up, TypeOK
  <2> QED
    BY <2>1, <2>2
<1>9. ASSUME MainReturns(w) PROVE KeepsParked
  BY <1>9 DEF MainReturns, workers, KeepsParked, Up
<1> QED
  BY <1>2, <1>3, <1>4, <1>5, <1>6, <1>7, <1>8, <1>9 DEF Call, Disturb, End, JoinAny

LEMMA ProceedsKeep ==
  ASSUME IInv, NEW w \in Worker, Proceed(w) \/ JoinLocks(w) PROVE KeepsParked
<1> DEFINE j == current[w]
<1>1. TypeOK
  BY DEF IInv
<1>2. ASSUME Reap(w) PROVE KeepsParked
  <2> DEFINE t == target[j]
  <2>1. /\ phase = "running" /\ j # NULL /\ pc[j] \in {"wait", "reap"}
        /\ pc' = [pc EXCEPT ![j] = "user", ![t] = Released]
        /\ UNCHANGED <<ready, current, after>>
    BY <1>2 DEF Reap, At, workers
  <2>2. j \in Thread /\ t \in Thread
    BY <2>1, Caller, Targets
  <2>3. pc[t] = "done"
    BY <2>1, <2>2, Types DEF IInv, Joins, JoinAt, Parked, ParkedAt
  <2> HIDE DEF t
  <2> QED
    BY <1>1, <2>1, <2>2, <2>3, ReleasedUnused DEF KeepsParked, Up, TypeOK
<1>3. ASSUME ExitFinish(w) PROVE KeepsParked
  <2>1. /\ phase = "running" /\ j # NULL /\ pc[j] = "exit" /\ ready' = ready
        /\ pc' = [pc EXCEPT ![j] = "done"] /\ current' = [current EXCEPT ![w] = NULL]
        /\ after' = [after EXCEPT ![w] = WakeLater(waiting[j])]
    BY <1>3 DEF ExitFinish, At, Wake
  <2>2. WakeLater(waiting[j]).me = NULL
    BY DEF WakeLater, NoCallback
  <2>3. j \in Thread
    BY <2>1, Caller
  <2> QED
    BY <2>1, <2>2, <2>3, Constants DEF IInv, KeepsParked, Up, TypeOK
<1>4. ASSUME ExitLeave(w) PROVE KeepsParked
  BY <1>4 DEF ExitLeave, KeepsParked, Up
<1>5. ASSUME AfterSwitch(w) PROVE KeepsParked
  <2>1. /\ ready' = (IF after[w].cb = "push" THEN ready \cup {after[w].arg} ELSE ready)
        /\ after' = [after EXCEPT ![w] = NoCallback] /\ UNCHANGED <<current, pc>>
    BY <1>5 DEF AfterSwitch
  <2>2. after[w].cb = "push" => after[w].arg \in Thread /\ pc[after[w].arg] \in {"user", "wait"}
    BY Constants DEF IInv, Shape, ShapeAt, Held, HandPc, Pushes
  <2>3. \A v \in Worker : v # w => after'[v] = after[v]
    BY <2>1 DEF IInv, TypeOK
  <2>4. after'[w].me = NULL
    BY <2>1 DEF IInv, TypeOK, NoCallback
  <2> QED
    BY <2>1, <2>2, <2>3, <2>4, Constants DEF KeepsParked, Up
<1>6. ASSUME NEW t \in Thread, Taking(w, t),
             pc' = pc \/ (pc[t] = "fresh" /\ pc' = [pc EXCEPT ![t] = "user"])
      PROVE  KeepsParked
  <2>1. /\ current[w] = NULL /\ t \in ready /\ ready' = ready \ {t}
        /\ current' = [current EXCEPT ![w] = t] /\ UNCHANGED after
    BY <1>6 DEF Taking, InLoop
  <2> QED
    BY <1>6, <2>1, Constants DEF IInv, KeepsParked, Up, TypeOK
<1>7. ASSUME NEW t \in Thread,
             Resume(w, t) \/ StartAborts(w, t) \/ \E s \in Stack : Start(w, t, s)
      PROVE  KeepsParked
  BY <1>6, <1>7 DEF Resume, StartAborts, Start
<1>8. ASSUME JoinLocks(w) PROVE KeepsParked
  <2>1. /\ phase = "running" /\ j # NULL /\ pc[j] = "join" /\ ready' = ready
        /\ \/ UNCHANGED <<current, after>>
           \/ Leave(w, "unlock", target[j])
        /\ \E place \in {"reap", "user", "wait"} : pc' = [pc EXCEPT ![j] = place]
    BY <1>8 DEF JoinLocks, CanLock, At, workers
  <2>2. j \in Thread
    BY <2>1, Caller
  <2> QED
    BY <2>1, <2>2, Constants DEF IInv, KeepsParked, Up, TypeOK, Leave
<1> QED
  BY <1>2, <1>3, <1>4, <1>5, <1>7, <1>8 DEF Proceed

-------------------------------------------------------------------------------
(* The queues as sets.                                                        *)
LEMMA Appended ==
  ASSUME NEW S, NEW s \in Seq(S), NEW x \in S
  PROVE  /\ Append(s, x) \in Seq(S) /\ Len(Append(s, x)) = Len(s) + 1
         /\ ToSet(Append(s, x)) = ToSet(s) \cup {x}
         /\ IsInjective(s) /\ x \notin ToSet(s) => IsInjective(Append(s, x))
<1> DEFINE u == Append(s, x)
<1>1. /\ u \in Seq(S) /\ Len(u) = Len(s) + 1 /\ u[Len(s) + 1] = x
      /\ \A i \in 1 .. Len(s) : u[i] = s[i]
  OBVIOUS
<1>2. DOMAIN s = 1 .. Len(s) /\ DOMAIN u = 1 .. Len(s) + 1 /\ Len(s) \in Nat
  BY <1>1
<1> HIDE DEF u
<1>3. ToSet(u) = ToSet(s) \cup {x}
  BY <1>1, <1>2 DEF ToSet
<1>4. IsInjective(s) /\ x \notin ToSet(s) => IsInjective(u)
  BY <1>1, <1>2 DEF ToSet, IsInjective
<1> QED
  BY <1>1, <1>3, <1>4 DEF u

LEMMA HeadTaken ==
  ASSUME NEW S, NEW s \in Seq(S), s # <<>>, IsInjective(s)
  PROVE  /\ Head(s) \in ToSet(s) /\ Head(s) \in S
         /\ Tail(s) \in Seq(S) /\ IsInjective(Tail(s)) /\ Len(Tail(s)) = Len(s) - 1
         /\ ToSet(Tail(s)) = ToSet(s) \ {Head(s)}
<1> DEFINE u == Tail(s)
<1>1. /\ u \in Seq(S) /\ Len(s) \in Nat \ {0} /\ Len(u) = Len(s) - 1
      /\ \A i \in 1 .. Len(s) - 1 : u[i] = s[i + 1]
      /\ Head(s) = s[1] /\ s[1] \in S
  OBVIOUS
<1>2. DOMAIN s = 1 .. Len(s) /\ DOMAIN u = 1 .. Len(s) - 1
  BY <1>1
<1> HIDE DEF u
<1>3. IsInjective(u)
  BY <1>1, <1>2 DEF IsInjective
<1>4. ToSet(u) \subseteq ToSet(s) \ {s[1]}
  <2> SUFFICES ASSUME NEW i \in 1 .. Len(s) - 1 PROVE u[i] \in ToSet(s) \ {s[1]}
    BY <1>2 DEF ToSet
  <2> QED
    BY <1>1, <1>2 DEF ToSet, IsInjective
<1>5. ToSet(s) \ {s[1]} \subseteq ToSet(u)
  <2> SUFFICES ASSUME NEW i \in 1 .. Len(s), s[i] # s[1] PROVE s[i] \in ToSet(u)
    BY <1>2 DEF ToSet
  <2>1. i - 1 \in 1 .. Len(s) - 1 /\ u[i - 1] = s[i]
    BY <1>1
  <2> QED
    BY <1>2, <2>1 DEF ToSet
<1>6. s[1] \in ToSet(s)
  BY <1>1, <1>2 DEF ToSet
<1> QED
  BY <1>1, <1>3, <1>4, <1>5, <1>6 DEF u

LEMMA Members ==
  ASSUME SyncTypes
  PROVE  /\ ToSet(mutexQ) \subseteq Thread /\ ToSet(semQ) \subseteq Thread
         /\ Len(mutexQ) \in Nat /\ Len(semQ) \in Nat
         /\ (Len(semQ) = 0 <=> semQ = <<>>)
BY DEF SyncTypes, ToSet

(* A thread in its own code is not known to any object; a waiter is.          *)
LEMMA Idle ==
  ASSUME SInv, NEW t \in Thread, pc[t] # "parked"
  PROVE  /\ blockedOn[t] = "none" /\ ~Waits(t) /\ waitMask[t] = {}
         /\ t \notin ToSet(mutexQ) /\ t \notin ToSet(semQ)
         /\ \A v \in Thread : toWake[v] # t
<1>1. blockedOn[t] = "none"
  BY DEF SInv, Busy
<1>2. t \notin ToSet(mutexQ) /\ t \notin ToSet(semQ) /\ waitMask[t] = {}
  BY <1>1 DEF SInv, Lines
<1>3. \A v \in Thread : toWake[v] # t
  BY Constants DEF SInv, Somewhere, Chosen
<1> QED
  BY <1>1, <1>2, <1>3 DEF Waits

LEMMA Waiting ==
  ASSUME IInv, SInv, NEW t \in Thread, Waits(t), ~Locked(LockOf(t))
  PROVE  /\ pc[t] = "parked" /\ blockedOn[t] # "none" /\ ~Up(t) /\ ~OnItsWay(t)
         /\ \A w \in Worker : after[w].me # t
         /\ \A v \in Thread : toWake[v] # t
<1>1. pc[t] = "parked" /\ blockedOn[t] # "none" /\ ~Up(t)
  BY Idle DEF SInv, Somewhere, Busy
<1>2. \A v \in Thread : toWake[v] # t
  BY Constants DEF SInv, Somewhere, Chosen
<1>3. ASSUME NEW w \in Worker, after[w].me = t PROVE FALSE
  <2>1. after[w].cb = "unlock"
    BY <1>1, <1>3, Types, Constants DEF IInv, Shape, ShapeAt, Held, HandPc
  <2> QED
    BY <1>1, <1>3, <2>1 DEF SInv, LockKept, Locked
<1> QED
  BY <1>1, <1>2, <1>3 DEF OnItsWay, Up

(* Steps that leave the objects alone but for a signal that nobody awaits.    *)
LEMMA ObjectsKeep ==
  ASSUME SInv, KeepsParked,
         UNCHANGED <<locked, mutexQ, count, semQ, waitMask, blockedOn, toWake, holders>>,
         pendingSigs' \in [Thread -> SUBSET Sig],
         \A t \in Thread : pendingSigs'[t] \cap waitMask[t] = {}
  PROVE  SInv'
<1>1. \A t \in Thread : /\ Waits(t)' <=> Waits(t)
                        /\ LockOf(t)' = LockOf(t)
                        /\ Waits(t) => pc[t] = "parked"
  BY Idle DEF Waits, LockOf
<1>2. \A t \in Thread : pc[t] = "parked" => (OnItsWay(t)' <=> OnItsWay(t))
  BY DEF KeepsParked, OnItsWay, Up
<1>3. SyncTypes' /\ Busy' /\ Lines' /\ Exact'
  BY DEF SInv, SyncTypes, Busy, Lines, Exact, KeepsParked
<1>4. Somewhere'
  <2> SUFFICES ASSUME NEW t \in Thread
               PROVE  /\ Waits(t)' => ~Up(t)'
                      /\ toWake[t] # NULL => Chosen(t, toWake[t])'
                      /\ pc'[t] = "parked" => Waits(t)' \/ OnItsWay(t)'
    BY DEF Somewhere, Chosen
  <2>1. ASSUME toWake[t] # NULL PROVE Chosen(t, toWake[t])'
    <3>1. toWake[t] \in Thread /\ Chosen(t, toWake[t])
      BY <2>1 DEF SInv, SyncTypes, Somewhere
    <3> QED
      BY <1>1, <3>1 DEF Chosen, KeepsParked
  <2> QED
    BY <1>1, <1>2, <2>1 DEF SInv, Somewhere, KeepsParked
<1>5. LockKept'
  <2> SUFFICES ASSUME NEW t \in Thread, NEW w \in Worker, after'[w].cb = "unlock",
                      after'[w].me = t, pc'[t] = "parked"
               PROVE  Waits(t)' /\ after'[w].arg = LockOf(t)'
    BY DEF LockKept
  <2>1. after'[w] = after[w] /\ pc[t] = "parked"
    BY DEF KeepsParked
  <2> QED
    BY <1>1, <2>1 DEF SInv, LockKept
<1>6. Owned'
  <2>1. Owners' = Owners
    BY <1>2 DEF Owners, BlockedOn, KeepsParked
  <2> QED
    BY <2>1 DEF SInv, Owned
<1> QED
  BY <1>3, <1>4, <1>5, <1>6 DEF SInv

(* A thread parks in an object, whose lock goes with it.                      *)
LEMMA ParkKeeps ==
  ASSUME IInv, SInv, NEW w \in Worker, At(w, "user"), NEW j \in Thread, j = current[w],
         NEW kind \in {"mutex", "sem", "sig"}, NEW lock \in Int, Park(w, kind, lock),
         Waits(j)', lock = LockOf(j)',
         \A u \in Thread : u # j => (Waits(u)' <=> Waits(u))
  PROVE  /\ IInv' /\ Busy' /\ Somewhere' /\ LockKept'
         /\ \A u \in Thread : pc[u] = "parked" => (OnItsWay(u)' <=> OnItsWay(u))
         /\ ~OnItsWay(j)'
         /\ pc' = [u \in Thread |-> IF u = j THEN "parked" ELSE pc[u]]
         /\ blockedOn' = [u \in Thread |-> IF u = j THEN kind ELSE blockedOn[u]]
<1>1. /\ phase = "running" /\ j # NULL /\ j \in Thread /\ pc[j] = "user" /\ j \notin ready
      /\ \A v \in Worker : Hand(v, j) => v = w
      /\ \A v \in Worker : lastCreated[v] # j
  BY Caller DEF At
<1>2. IInv'
  BY ParksInv DEF Park
<1>3. /\ ready' = Flushed(w) /\ toWake' = toWake
      /\ current' = [v \in Worker |-> IF v = w THEN NULL ELSE current[v]]
      /\ \A v \in Worker : v # w => after'[v] = after[v]
      /\ after'[w].me = j /\ after'[w].arg = lock
  BY <1>1 DEF IInv, TypeOK, Park, Flush, Leave
<1>4. /\ pc' = [u \in Thread |-> IF u = j THEN "parked" ELSE pc[u]]
      /\ blockedOn' = [u \in Thread |-> IF u = j THEN kind ELSE blockedOn[u]]
  BY <1>1 DEF IInv, TypeOK, SInv, SyncTypes, Park
<1>5. /\ \A u \in Thread : u # j /\ pc[u] = "parked" => (Up(u)' <=> Up(u))
      /\ ~Up(j)'
  <2>1. \A u \in Thread : u # j /\ pc[u] = "parked" => (u \in ready' <=> u \in ready)
    BY <1>1, <1>3, Fresh DEF Flushed
  <2>2. \A u \in Thread, v \in Worker : u # j => (current'[v] = u <=> current[v] = u)
    BY <1>3, Constants
  <2>3. j \notin ready' /\ \A v \in Worker : current'[v] # j
    BY <1>1, <1>3, Constants DEF Flushed, Hand
  <2> QED
    BY <2>1, <2>2, <2>3 DEF Up
<1>6. Busy'
  BY <1>1, <1>3, <1>4 DEF SInv, Busy
<1>7. Somewhere'
  <2> SUFFICES ASSUME NEW t \in Thread
               PROVE  /\ Waits(t)' => ~Up(t)'
                      /\ toWake'[t] # NULL => Chosen(t, toWake[t])'
                      /\ pc'[t] = "parked" => Waits(t)' \/ OnItsWay(t)'
    BY DEF Somewhere, Chosen
  <2>1. Waits(t)' => ~Up(t)'
    <3>1. CASE t = j
      BY <1>5, <3>1
    <3>2. CASE t # j
      BY <1>5, <3>2, Idle DEF SInv, Somewhere
    <3> QED
      BY <3>1, <3>2
  <2>2. ASSUME toWake'[t] # NULL PROVE Chosen(t, toWake[t])'
    <3>1. toWake[t] \in Thread /\ Chosen(t, toWake[t])
      BY <1>3, <2>2 DEF SInv, SyncTypes, Somewhere
    <3>2. toWake[t] # j
      BY <1>1, Idle
    <3> QED
      BY <1>3, <1>4, <1>5, <3>1, <3>2 DEF Chosen
  <2>3. ASSUME pc'[t] = "parked", t # j PROVE Waits(t)' \/ OnItsWay(t)'
    <3>1. pc[t] = "parked"
      BY <1>4, <2>3
    <3>2. Waits(t) \/ Up(t) \/ \E v \in Thread : pc[v] = "waker" /\ toWake[v] = t
      BY <3>1 DEF SInv, Somewhere, OnItsWay, Up
    <3>3. \A v \in Thread : pc[v] = "waker" => pc'[v] = "waker" /\ toWake'[v] = toWake[v]
      BY <1>1, <1>3, <1>4
    <3>4. Up(t)' => OnItsWay(t)'
      BY DEF Up, OnItsWay
    <3> QED
      BY <1>5, <2>3, <3>1, <3>2, <3>3, <3>4 DEF OnItsWay
  <2> QED
    BY <1>3, <2>1, <2>2, <2>3
<1>8. LockKept'
  <2> SUFFICES ASSUME NEW t \in Thread, NEW v \in Worker, after'[v].cb = "unlock",
                      after'[v].me = t, pc'[t] = "parked"
               PROVE  Waits(t)' /\ after'[v].arg = LockOf(t)'
    BY DEF LockKept
  <2>1. CASE t = j
    BY <1>1, <1>3, <2>1 DEF Hand
  <2>2. CASE t # j
    <3>1. after'[v] = after[v] /\ pc[t] = "parked" /\ blockedOn'[t] = blockedOn[t]
      BY <1>3, <1>4, <2>2
    <3> QED
      BY <2>2, <3>1 DEF SInv, LockKept, LockOf
  <2> QED
    BY <2>1, <2>2
<1>9. ASSUME NEW u \in Thread, u # j, pc[u] = "parked" PROVE OnItsWay(u)' <=> OnItsWay(u)
  <2>1. \A v \in Thread : /\ pc'[v] = "waker" <=> pc[v] = "waker"
                          /\ toWake'[v] = toWake[v]
    BY <1>1, <1>3, <1>4
  <2> QED
    BY <1>5, <1>9, <2>1 DEF OnItsWay, Up
<1>10. ~OnItsWay(j)'
  BY <1>1, <1>3, <1>5, Idle DEF OnItsWay, Up
<1> QED
  BY <1>1, <1>2, <1>4, <1>6, <1>7, <1>8, <1>9, <1>10

(* A thread takes a waiter, or nobody, out of an object.                      *)
LEMMA WakeKeeps ==
  ASSUME IInv, SInv, NEW w \in Worker, At(w, "user"), NEW j \in Thread,
         j = current[w], NEW t \in Thread \cup {NULL},
         WillWake(w, t),
         t # NULL => Waits(t) /\ ~Locked(LockOf(t)),
         \A u \in Thread : Waits(u)' <=> Waits(u) /\ u # t
  PROVE  /\ IInv' /\ Busy' /\ Somewhere' /\ LockKept'
         /\ \A u \in Thread : pc[u] = "parked" => (OnItsWay(u)' <=> OnItsWay(u) \/ u = t)
         /\ \A u \in Thread : pc'[u] = "parked" <=> pc[u] = "parked"
         /\ blockedOn' = blockedOn
<1>1. /\ phase = "running" /\ j # NULL /\ j \in Thread /\ pc[j] = "user"
      /\ UNCHANGED <<ready, current, after, blockedOn>>
  BY Caller DEF At, WillWake, workers
<1>2. /\ pc' = [u \in Thread |-> IF u = j /\ t # NULL THEN "waker" ELSE pc[u]]
      /\ toWake' = [u \in Thread |-> IF u = j THEN t ELSE toWake[u]]
      /\ toWake[j] = NULL
  BY <1>1 DEF IInv, TypeOK, SInv, SyncTypes, Busy, WillWake
<1>3. IInv'
  <2>1. CASE t = NULL
    <3>1. UNCHANGED vars
      BY <2>1 DEF WillWake, vars
    <3> QED
      BY <3>1, SameInv
  <2>2. CASE t # NULL
    <3>1. /\ {} \in SUBSET Thread /\ ready' = ready \cup {} /\ "waker" \in {"user", "waker"}
          /\ pc' = [pc EXCEPT ![j] = "waker"] /\ pc[j] \in {"user", "parked", "waker"}
          /\ \A u \in {} : pc[u] = "parked" /\ \A v \in Worker : ~Hand(v, u)
      BY <1>1, <2>2 DEF WillWake
    <3>2. UNCHANGED <<phase, workers, lastCreated, inlineExec, joins, arena, alive>>
      BY DEF WillWake
    <3> QED
      BY <1>1, <3>1, <3>2, GoesOnInv
  <2> QED
    BY <2>1, <2>2
<1>4. t # NULL => /\ pc[t] = "parked" /\ ~Up(t) /\ ~OnItsWay(t)
                  /\ \A v \in Worker : after[v].me # t
                  /\ \A v \in Thread : toWake[v] # t
  BY Waiting
<1>5. Busy'
  BY <1>1, <1>2 DEF SInv, Busy
<1>6. \A u \in Thread : Up(u)' <=> Up(u)
  BY <1>1 DEF Up
<1>7. \A u \in Thread : pc[u] = "parked" => (OnItsWay(u)' <=> OnItsWay(u) \/ u = t)
  <2> SUFFICES ASSUME NEW u \in Thread PROVE OnItsWay(u)' <=> OnItsWay(u) \/ u = t
    OBVIOUS
  <2>1. \A v \in Thread : v # j => pc'[v] = pc[v] /\ toWake'[v] = toWake[v]
    BY <1>2
  <2>2. pc'[j] = "waker" /\ toWake'[j] = u <=> u = t
    BY <1>1, <1>2, Constants
  <2> QED
    BY <1>1, <2>1, <2>2 DEF OnItsWay
<1>8. Somewhere'
  <2> SUFFICES ASSUME NEW u \in Thread
               PROVE  /\ Waits(u)' => ~Up(u)'
                      /\ toWake'[u] # NULL => Chosen(u, toWake[u])'
                      /\ pc'[u] = "parked" => Waits(u)' \/ OnItsWay(u)'
    BY DEF Somewhere, Chosen
  <2>1. Waits(u)' => ~Up(u)'
    BY <1>6 DEF SInv, Somewhere
  <2>2. ASSUME u # j, toWake'[u] # NULL PROVE Chosen(u, toWake[u])'
    <3> DEFINE x == toWake[u]
    <3>1. x \in Thread /\ Chosen(u, x) /\ toWake'[u] = x
      BY <1>2, <2>2 DEF SInv, SyncTypes, Somewhere
    <3>2. x # t
      BY <1>4, <3>1, Constants
    <3> HIDE DEF x
    <3> QED
      BY <1>1, <1>2, <1>6, <3>1, <3>2 DEF Chosen
  <2>3. ASSUME t # NULL PROVE Chosen(j, t)'
    BY <1>1, <1>2, <1>4, <1>6, <2>3 DEF Chosen
  <2>4. ASSUME pc'[u] = "parked" PROVE Waits(u)' \/ OnItsWay(u)'
    BY <1>1, <1>2, <1>7, <2>4 DEF SInv, Somewhere
  <2>5. ASSUME u = j, toWake'[u] # NULL PROVE Chosen(u, toWake[u])'
    <3>1. toWake'[u] = t /\ t # NULL
      BY <1>2, <2>5
    <3> QED
      BY <2>3, <2>5, <3>1 DEF Chosen
  <2> QED
    BY <2>1, <2>2, <2>4, <2>5
<1>9. LockKept'
  <2> SUFFICES ASSUME NEW u \in Thread, NEW v \in Worker, after'[v].cb = "unlock",
                      after'[v].me = u, pc'[u] = "parked"
               PROVE  Waits(u)' /\ after'[v].arg = LockOf(u)'
    BY DEF LockKept
  <2>1. after[v].cb = "unlock" /\ after[v].me = u /\ pc[u] = "parked" /\ after'[v] = after[v]
    BY <1>1, <1>2
  <2>2. Waits(u) /\ after[v].arg = LockOf(u) /\ u # t
    BY <1>4, <2>1, Constants DEF SInv, LockKept
  <2> QED
    BY <1>1, <2>1, <2>2 DEF LockOf
<1> QED
  BY <1>1, <1>2, <1>3, <1>5, <1>7, <1>8, <1>9

-------------------------------------------------------------------------------
(* The calls, one by one.                                                     *)

LEMMA Ready ==
  ASSUME IInv, SInv, NEW w \in Worker, At(w, "user")
  PROVE  /\ current[w] \in Thread /\ pc[current[w]] = "user"
         /\ blockedOn[current[w]] = "none" /\ ~Waits(current[w]) /\ waitMask[current[w]] = {}
         /\ current[w] \notin ToSet(mutexQ) /\ current[w] \notin ToSet(semQ)
         /\ \A v \in Thread : toWake[v] # current[w]
<1>1. current[w] \in Thread /\ pc[current[w]] = "user"
  BY Caller DEF At
<1> QED
  BY <1>1, Idle

LEMMA SameKeeps == ASSUME UNCHANGED vars PROVE KeepsParked
<1>1. UNCHANGED <<ready, current, after, pc>>
  BY DEF vars, workers
<1> QED
  BY <1>1 DEF KeepsParked, Up

LEMMA LockInv == ASSUME IInv, SInv, NEW w \in Worker, Lock(w) PROVE IInv' /\ SInv'
<1>1. PICK j \in Thread : j = current[w]
  BY Ready DEF Lock, SyncCalling
<1>2. /\ At(w, "user") /\ j \notin holders /\ UNCHANGED <<count, semQ, pendingSigs, waitMask>>
      /\ pc[j] = "user" /\ blockedOn[j] = "none" /\ ~Waits(j) /\ j \notin ToSet(mutexQ)
      /\ waitMask[j] = {}
  BY <1>1, Ready DEF Lock, SyncCalling, sigVars
<1>3. CASE locked
  <2>1. mutexQ' = Append(mutexQ, j) /\ Park(w, "mutex", MutexLock) /\ UNCHANGED <<locked,
                                                                                  holders>>
    BY <1>1, <1>3 DEF Lock
  <2>2. /\ mutexQ' \in Seq(Thread) /\ IsInjective(mutexQ')
        /\ ToSet(mutexQ)' = ToSet(mutexQ) \cup {j}
    BY <1>2, <2>1, Appended DEF SInv, SyncTypes, Lines
  <2>3. Waits(j)' /\ \A u \in Thread : u # j => (Waits(u)' <=> Waits(u))
    BY <1>2, <2>2 DEF Waits
  <2>4. blockedOn' = [u \in Thread |-> IF u = j THEN "mutex" ELSE blockedOn[u]]
    BY <1>1, <2>1 DEF Park, SInv, SyncTypes
  <2>5. MutexLock = LockOf(j)' /\ MutexLock \in Int
    BY <2>4 DEF LockOf, MutexLock
  <2>6. /\ IInv' /\ Busy' /\ Somewhere' /\ LockKept'
        /\ \A u \in Thread : pc[u] = "parked" => (OnItsWay(u)' <=> OnItsWay(u))
        /\ ~OnItsWay(j)'
        /\ pc' = [u \in Thread |-> IF u = j THEN "parked" ELSE pc[u]]
    BY <1>1, <1>2, <2>1, <2>3, <2>5, ParkKeeps
  <2>7. SyncTypes' /\ Exact'
    BY <1>2, <2>1, <2>2, <2>4 DEF Park, SInv, SyncTypes, Exact
  <2>8. Lines'
    BY <1>2, <2>2, <2>4 DEF SInv, Lines
  <2>9. Owned'
    <3>1. Owners' = Owners
      BY <1>2, <2>1, <2>4, <2>6 DEF Owners, BlockedOn
    <3>2. \E t \in Thread : Owners' = {t}
      BY <1>3, <3>1 DEF SInv, Owned
    <3>3. \A t \in holders : t \in Thread /\ blockedOn'[t] # "mutex"
      BY <1>2, <2>4 DEF SInv, SyncTypes, Owned
    <3>4. locked' /\ holders' = holders
      BY <1>3, <2>1
    <3> QED
      BY <3>2, <3>3, <3>4 DEF Owned
  <2> QED
    BY <2>6, <2>7, <2>8, <2>9 DEF SInv
<1>4. CASE ~locked
  <2>1. /\ locked' = TRUE /\ holders' = holders \cup {j}
        /\ UNCHANGED <<vars, mutexQ, blockedOn, toWake>>
    BY <1>1, <1>4 DEF Lock
  <2>2. UNCHANGED <<ready, current, after, pc>>
    BY <2>1 DEF vars, workers
  <2>3. SyncTypes' /\ Busy' /\ Lines' /\ Exact'
    BY <1>2, <2>1, <2>2 DEF SInv, SyncTypes, Busy, Lines, Exact
  <2>4. Somewhere' /\ LockKept'
    BY <1>2, <2>1, <2>2
       DEF SInv, Somewhere, Chosen, Waits, Up, OnItsWay, LockKept, LockOf
  <2>5. Owned'
    <3>1. Owners = {} /\ mutexQ = <<>>
      BY <1>4 DEF SInv, Owned
    <3>2. Owners' = Owners \cup {j}
      BY <2>1, <2>2 DEF Owners, BlockedOn, OnItsWay
    <3> QED
      BY <1>2, <2>1, <3>1, <3>2 DEF SInv, Owned
  <2> QED
    BY <2>1, <2>3, <2>4, <2>5, SameInv DEF SInv
<1> QED
  BY <1>3, <1>4

LEMMA UnlockInv == ASSUME IInv, SInv, NEW w \in Worker, Unlock(w) PROVE IInv' /\ SInv'
<1> DEFINE t == HeadOf(mutexQ)
<1>1. PICK j \in Thread : j = current[w]
  BY Ready DEF Unlock, SyncCalling
<1>2. /\ At(w, "user") /\ j \in holders /\ ~Locked(MutexLock) /\ WillWake(w, t)
      /\ holders' = holders \ {j} /\ locked' = (mutexQ # <<>>) /\ mutexQ' = Popped(mutexQ)
      /\ UNCHANGED <<count, semQ, pendingSigs, waitMask>>
      /\ pc[j] = "user" /\ blockedOn[j] = "none"
  BY <1>1, Ready DEF Unlock, Unlocked, SyncCalling, sigVars
<1>3. /\ mutexQ' \in Seq(Thread) /\ IsInjective(mutexQ') /\ t \in Thread \cup {NULL}
      /\ ToSet(mutexQ)' = ToSet(mutexQ) \ {t}
      /\ t = NULL <=> mutexQ = <<>>
      /\ t # NULL => t \in ToSet(mutexQ)
  <2>1. CASE mutexQ = <<>>
    <3>1. ToSet(mutexQ) = {}
      BY <2>1 DEF ToSet
    <3> QED
      BY <1>2, <2>1, <3>1 DEF SInv, SyncTypes, Lines, HeadOf, Popped
  <2>2. CASE mutexQ # <<>>
    BY <1>2, <2>2, HeadTaken, Constants DEF SInv, SyncTypes, Lines, HeadOf, Popped
  <2> QED
    BY <2>1, <2>2
<1>4. t # NULL => blockedOn[t] = "mutex" /\ Waits(t) /\ ~Locked(LockOf(t))
  BY <1>2, <1>3 DEF SInv, Lines, Waits, LockOf
<1>5. \A u \in Thread : Waits(u)' <=> Waits(u) /\ u # t
  <2>1. \A u \in Thread : u \in ToSet(mutexQ) => u \notin ToSet(semQ) /\ waitMask[u] = {}
    BY DEF SInv, Lines
  <2> QED
    BY <1>2, <1>3, <2>1, Constants DEF Waits
<1> HIDE DEF t
<1>6. /\ IInv' /\ Busy' /\ Somewhere' /\ LockKept'
      /\ \A u \in Thread : pc[u] = "parked" => (OnItsWay(u)' <=> OnItsWay(u) \/ u = t)
      /\ \A u \in Thread : pc'[u] = "parked" <=> pc[u] = "parked"
      /\ blockedOn' = blockedOn
  BY <1>1, <1>2, <1>3, <1>4, <1>5, WakeKeeps
<1>7. toWake' = [toWake EXCEPT ![j] = t]
  BY <1>1, <1>2 DEF WillWake
<1>8. SyncTypes' /\ Lines' /\ Exact'
  BY <1>2, <1>3, <1>6, <1>7 DEF SInv, SyncTypes, Lines, Exact
<1>9. Owned'
  <2>1. Owners = {j}
    BY <1>2 DEF SInv, Owned, Owners
  <2>2. \A u \in Thread : ~(pc[u] = "parked" /\ blockedOn[u] = "mutex" /\ OnItsWay(u))
    BY <1>2, <2>1 DEF Owners, BlockedOn
  <2>3. holders' = {}
    BY <1>2, <2>1 DEF Owners
  <2>4. t # NULL => pc[t] = "parked"
    BY <1>3, <1>4, Idle
  <2>5. Owners' = {t} \ {NULL}
    BY <1>3, <1>4, <1>6, <2>2, <2>3, <2>4, Constants DEF Owners, BlockedOn
  <2>6. mutexQ = <<>> => mutexQ' = <<>>
    BY <1>2 DEF Popped
  <2> QED
    BY <1>2, <1>3, <2>3, <2>5, <2>6 DEF Owned
<1> QED
  BY <1>6, <1>8, <1>9 DEF SInv

LEMMA SemWaitInv == ASSUME IInv, SInv, NEW w \in Worker, SemWait(w) PROVE IInv' /\ SInv'
<1>1. PICK j \in Thread : j = current[w]
  BY Ready DEF SemWait, SyncCalling
<1>2. /\ At(w, "user") /\ count' = count - 1
      /\ UNCHANGED <<locked, mutexQ, pendingSigs, waitMask, holders>>
      /\ pc[j] = "user" /\ blockedOn[j] = "none" /\ ~Waits(j) /\ j \notin ToSet(semQ)
      /\ waitMask[j] = {}
      /\ count \in Int /\ Len(semQ) = IF count < 0 THEN -count ELSE 0
  BY <1>1, Ready DEF SemWait, SyncCalling, sigVars, SInv, SyncTypes, Exact
<1>3. CASE count' < 0
  <2>1. semQ' = Append(semQ, j) /\ Park(w, "sem", SemLock)
    BY <1>1, <1>3 DEF SemWait
  <2>2. /\ semQ' \in Seq(Thread) /\ IsInjective(semQ') /\ Len(semQ') = Len(semQ) + 1
        /\ ToSet(semQ)' = ToSet(semQ) \cup {j}
    BY <1>2, <2>1, Appended DEF SInv, SyncTypes, Lines
  <2>3. Waits(j)' /\ \A u \in Thread : u # j => (Waits(u)' <=> Waits(u))
    BY <1>2, <2>2 DEF Waits
  <2>4. blockedOn' = [u \in Thread |-> IF u = j THEN "sem" ELSE blockedOn[u]]
    BY <1>1, <2>1 DEF Park, SInv, SyncTypes
  <2>5. SemLock = LockOf(j)' /\ SemLock \in Int
    BY <2>4 DEF LockOf, SemLock
  <2>6. /\ IInv' /\ Busy' /\ Somewhere' /\ LockKept'
        /\ \A u \in Thread : pc[u] = "parked" => (OnItsWay(u)' <=> OnItsWay(u))
        /\ pc' = [u \in Thread |-> IF u = j THEN "parked" ELSE pc[u]]
    BY <1>1, <1>2, <2>1, <2>3, <2>5, ParkKeeps
  <2>7. SyncTypes'
    BY <1>2, <2>1, <2>2, <2>4 DEF Park, SInv, SyncTypes
  <2>8. Exact'
    BY <1>2, <1>3, <2>2 DEF SInv, Exact
  <2>9. Lines'
    BY <1>2, <2>2, <2>4 DEF SInv, Lines
  <2>10. Owned'
    <3>1. Owners' = Owners
      BY <1>2, <2>4, <2>6 DEF Owners, BlockedOn
    <3>2. \A t \in holders : t \in Thread /\ blockedOn'[t] # "mutex"
      BY <2>4 DEF SInv, SyncTypes, Owned
    <3> QED
      BY <1>2, <3>1, <3>2 DEF SInv, Owned
  <2> QED
    BY <2>6, <2>7, <2>8, <2>9, <2>10 DEF SInv
<1>4. CASE ~(count' < 0)
  <2>1. UNCHANGED <<vars, semQ, blockedOn, toWake>>
    BY <1>4 DEF SemWait
  <2>2. UNCHANGED <<ready, current, after, pc>>
    BY <2>1 DEF vars, workers
  <2>3. SyncTypes' /\ Busy' /\ Lines' /\ Exact'
    BY <1>2, <1>4, <2>1, <2>2 DEF SInv, SyncTypes, Busy, Lines, Exact
  <2>4. Somewhere' /\ LockKept' /\ Owned'
    BY <1>2, <2>1, <2>2
       DEF SInv, Somewhere, Chosen, Waits, Up, OnItsWay, LockKept, LockOf, Owned, Owners,
           BlockedOn
  <2> QED
    BY <2>1, <2>3, <2>4, SameInv DEF SInv
<1> QED
  BY <1>3, <1>4

LEMMA SemPostInv == ASSUME IInv, SInv, NEW w \in Worker, SemPost(w) PROVE IInv' /\ SInv'
<1> DEFINE t == IF count + 1 <= 0 THEN HeadOf(semQ) ELSE NULL
<1>1. PICK j \in Thread : j = current[w]
  BY Ready DEF SemPost, SyncCalling
<1>2. /\ At(w, "user") /\ ~Locked(SemLock) /\ WillWake(w, t)
      /\ count' = count + 1 /\ semQ' = (IF count + 1 <= 0 THEN Popped(semQ) ELSE semQ)
      /\ UNCHANGED <<locked, mutexQ, pendingSigs, waitMask, holders>>
      /\ pc[j] = "user"
      /\ count \in Int /\ Len(semQ) = (IF count < 0 THEN -count ELSE 0) /\ semQ \in Seq(Thread)
  BY <1>1, Ready DEF SemPost, PostWakes, SyncCalling, sigVars, SInv, SyncTypes, Exact
<1>3. /\ semQ' \in Seq(Thread) /\ IsInjective(semQ') /\ t \in Thread \cup {NULL}
      /\ ToSet(semQ)' = ToSet(semQ) \ {t}
      /\ t # NULL => t \in ToSet(semQ)
      /\ Len(semQ') = IF count' < 0 THEN -count' ELSE 0
  <2>1. CASE count + 1 <= 0
    <3>1. Len(semQ) > 0 /\ semQ # <<>>
      BY <1>2, <2>1, Members DEF SInv
    <3>2. t = Head(semQ) /\ semQ' = Tail(semQ)
      BY <1>2, <2>1, <3>1 DEF HeadOf, Popped
    <3>3. Len(semQ') = Len(semQ) - 1
      BY <3>1, <3>2, HeadTaken DEF SInv, SyncTypes, Lines
    <3>4. Len(semQ') = IF count' < 0 THEN -count' ELSE 0
      BY <1>2, <2>1, <3>3
    <3> HIDE DEF t
    <3> QED
      BY <3>1, <3>2, <3>4, HeadTaken DEF SInv, SyncTypes, Lines
  <2>2. CASE ~(count + 1 <= 0)
    <3>1. NULL \notin ToSet(semQ)
      BY Members, Constants DEF SInv
    <3>2. t = NULL /\ semQ' = semQ
      BY <1>2, <2>2
    <3>3. Len(semQ') = IF count' < 0 THEN -count' ELSE 0
      BY <1>2, <2>2, <3>2
    <3> HIDE DEF t
    <3> QED
      BY <3>1, <3>2, <3>3 DEF SInv, SyncTypes, Lines
  <2> QED
    BY <2>1, <2>2
<1> HIDE DEF t
<1>4. t # NULL => blockedOn[t] = "sem" /\ Waits(t) /\ ~Locked(LockOf(t))
  BY <1>2, <1>3 DEF SInv, Lines, Waits, LockOf
<1>5. \A u \in Thread : Waits(u)' <=> Waits(u) /\ u # t
  <2>1. \A u \in Thread : u \in ToSet(semQ) => u \notin ToSet(mutexQ) /\ waitMask[u] = {}
    BY DEF SInv, Lines
  <2> QED
    BY <1>2, <1>3, <2>1, Constants DEF Waits
<1>6. /\ IInv' /\ Busy' /\ Somewhere' /\ LockKept'
      /\ \A u \in Thread : pc[u] = "parked" => (OnItsWay(u)' <=> OnItsWay(u) \/ u = t)
      /\ \A u \in Thread : pc'[u] = "parked" <=> pc[u] = "parked"
      /\ blockedOn' = blockedOn
  BY <1>1, <1>2, <1>3, <1>4, <1>5, WakeKeeps
<1>7. toWake' = [toWake EXCEPT ![j] = t]
  BY <1>1, <1>2 DEF WillWake
<1>8. SyncTypes' /\ Lines'
  BY <1>2, <1>3, <1>6, <1>7 DEF SInv, SyncTypes, Lines
<1>9. Exact'
  BY <1>2, <1>3 DEF SInv, Exact
<1>10. Owned'
  <2>1. Owners' = Owners
    BY <1>2, <1>3, <1>4, <1>6, Constants DEF Owners, BlockedOn
  <2>2. locked' = locked /\ mutexQ' = mutexQ /\ holders' = holders /\ blockedOn' = blockedOn
    BY <1>2, <1>6
  <2> QED
    BY <2>1, <2>2 DEF SInv, Owned
<1> QED
  BY <1>6, <1>8, <1>9, <1>10 DEF SInv

LEMMA KillInv ==
  ASSUME IInv, SInv, NEW w \in Worker, NEW t \in Thread, NEW s \in Sig, Kill(w, t, s)
  PROVE  IInv' /\ SInv'
<1>1. PICK j \in Thread : j = current[w]
  BY Ready DEF Kill, SyncCalling
<1>2. /\ At(w, "user") /\ ~Locked(t) /\ UNCHANGED <<locked, mutexQ, count, semQ, holders>>
      /\ pc[j] = "user"
  BY <1>1, Ready DEF Kill, SyncCalling
<1>3. CASE s \in waitMask[t]
  <2>1. /\ pendingSigs' = [pendingSigs EXCEPT ![t] = @ \ {s}]
        /\ waitMask' = [waitMask EXCEPT ![t] = {}] /\ WillWake(w, t)
    BY <1>3 DEF Kill
  <2>2. blockedOn[t] = "sig" /\ Waits(t) /\ ~Locked(LockOf(t)) /\ t # NULL
    BY <1>2, <1>3, Constants DEF SInv, Lines, Waits, LockOf
  <2>3. \A u \in Thread : Waits(u)' <=> Waits(u) /\ u # t
    <3>1. t \notin ToSet(mutexQ) /\ t \notin ToSet(semQ)
      BY <2>2 DEF SInv, Lines
    <3>2. \A u \in Thread : waitMask'[u] = IF u = t THEN {} ELSE waitMask[u]
      BY <2>1 DEF SInv, SyncTypes
    <3> QED
      BY <1>2, <3>1, <3>2 DEF Waits
  <2>4. /\ IInv' /\ Busy' /\ Somewhere' /\ LockKept'
        /\ \A u \in Thread : pc[u] = "parked" => (OnItsWay(u)' <=> OnItsWay(u) \/ u = t)
        /\ \A u \in Thread : pc'[u] = "parked" <=> pc[u] = "parked"
        /\ blockedOn' = blockedOn
    BY <1>1, <1>2, <2>1, <2>2, <2>3, WakeKeeps
  <2>5. toWake' = [toWake EXCEPT ![j] = t]
    BY <1>1, <2>1 DEF WillWake
  <2>6. SyncTypes'
    BY <1>2, <2>1, <2>4, <2>5 DEF SInv, SyncTypes
  <2>7. Lines' /\ Exact'
    BY <1>2, <2>1, <2>4 DEF SInv, SyncTypes, Lines, Exact
  <2>8. Owned'
    <3>1. Owners' = Owners
      BY <1>2, <2>2, <2>4 DEF Owners, BlockedOn
    <3> QED
      BY <1>2, <2>4, <3>1 DEF SInv, Owned
  <2> QED
    BY <2>4, <2>6, <2>7, <2>8 DEF SInv
<1>4. CASE s \notin waitMask[t]
  <2>1. /\ pendingSigs' = [pendingSigs EXCEPT ![t] = @ \cup {s}]
        /\ UNCHANGED <<vars, waitMask, blockedOn, toWake>>
    BY <1>4 DEF Kill
  <2>2. /\ pendingSigs' \in [Thread -> SUBSET Sig]
        /\ \A u \in Thread : pendingSigs'[u] \cap waitMask[u] = {}
    BY <1>4, <2>1 DEF SInv, SyncTypes, Exact
  <2> QED
    BY <1>2, <2>1, <2>2, SameInv, SameKeeps, ObjectsKeep
<1> QED
  BY <1>3, <1>4

LEMMA SigWaitInv ==
  ASSUME IInv, SInv, NEW w \in Worker, NEW mask \in (SUBSET Sig) \ {{}}, SigWait(w, mask)
  PROVE  IInv' /\ SInv'
<1>1. PICK j \in Thread : j = current[w]
  BY Ready DEF SigWait, SyncCalling
<1>2. /\ At(w, "user") /\ UNCHANGED <<locked, mutexQ, count, semQ, holders>>
      /\ pc[j] = "user" /\ blockedOn[j] = "none" /\ ~Waits(j)
  BY <1>1, Ready DEF SigWait, SyncCalling
<1>3. CASE SigHit(j, mask) = {}
  <2>1. /\ waitMask' = [waitMask EXCEPT ![j] = mask] /\ Park(w, "sig", j)
        /\ UNCHANGED pendingSigs
    BY <1>1, <1>3 DEF SigWait
  <2>2. \A u \in Thread : waitMask'[u] = IF u = j THEN mask ELSE waitMask[u]
    BY <2>1 DEF SInv, SyncTypes
  <2>3. Waits(j)' /\ \A u \in Thread : u # j => (Waits(u)' <=> Waits(u))
    BY <1>2, <2>2 DEF Waits
  <2>4. blockedOn' = [u \in Thread |-> IF u = j THEN "sig" ELSE blockedOn[u]]
    BY <1>1, <2>1 DEF Park, SInv, SyncTypes
  <2>5. j = LockOf(j)' /\ j \in Int
    BY <2>4, Constants DEF LockOf
  <2>6. /\ IInv' /\ Busy' /\ Somewhere' /\ LockKept'
        /\ \A u \in Thread : pc[u] = "parked" => (OnItsWay(u)' <=> OnItsWay(u))
        /\ pc' = [u \in Thread |-> IF u = j THEN "parked" ELSE pc[u]]
    BY <1>1, <1>2, <2>1, <2>3, <2>5, ParkKeeps
  <2>7. SyncTypes'
    BY <1>2, <2>1, <2>4 DEF Park, SInv, SyncTypes
  <2>8. Exact'
    BY <1>2, <1>3, <2>1, <2>2 DEF SInv, Exact, SigHit
  <2>9. Lines'
    <3>1. j \notin ToSet(mutexQ) /\ j \notin ToSet(semQ)
      BY <1>2 DEF Waits
    <3> QED
      BY <1>2, <2>2, <2>4, <3>1 DEF SInv, Lines
  <2>10. Owned'
    <3>1. Owners' = Owners
      BY <1>2, <2>4, <2>6 DEF Owners, BlockedOn
    <3>2. \A t \in holders : t \in Thread /\ blockedOn'[t] # "mutex"
      BY <2>4 DEF SInv, SyncTypes, Owned
    <3> QED
      BY <1>2, <3>1, <3>2 DEF SInv, Owned
  <2> QED
    BY <2>6, <2>7, <2>8, <2>9, <2>10 DEF SInv
<1>4. CASE SigHit(j, mask) # {}
  <2>1. /\ pendingSigs' = [pendingSigs EXCEPT ![j] = @ \ {Min(SigHit(j, mask))}]
        /\ UNCHANGED <<vars, waitMask, blockedOn, toWake>>
    BY <1>1, <1>4 DEF SigWait
  <2>2. /\ pendingSigs' \in [Thread -> SUBSET Sig]
        /\ \A u \in Thread : pendingSigs'[u] \cap waitMask[u] = {}
    BY <2>1 DEF SInv, SyncTypes, Exact
  <2> QED
    BY <1>2, <2>1, <2>2, SameInv, SameKeeps, ObjectsKeep
<1> QED
  BY <1>3, <1>4

LEMMA SyncWakeInv == ASSUME IInv, SInv, NEW w \in Worker, SyncWake(w) PROVE IInv' /\ SInv'
<1>1. PICK j \in Thread : j = current[w]
  BY Caller DEF SyncWake, At
<1>2. PICK t \in Thread : t = toWake[j]
  BY <1>1 DEF SyncWake, At, SInv, SyncTypes, Busy
<1>3. /\ phase = "running" /\ j # NULL /\ pc[j] = "waker" /\ ready' = ready \cup {t}
      /\ toWake' = [toWake EXCEPT ![j] = NULL] /\ pc' = [pc EXCEPT ![j] = "user"]
      /\ UNCHANGED <<phase, workers, lastCreated, inlineExec, joins, arena, alive>>
      /\ UNCHANGED <<locked, mutexQ, count, semQ, pendingSigs, waitMask, blockedOn, holders>>
  BY <1>1, <1>2, Constants DEF SyncWake, Woken, At, sigVars
<1>4. /\ pc[t] = "parked" /\ ~Waits(t) /\ ~Up(t) /\ \A v \in Worker : after[v].me # t
      /\ \A v \in Thread : toWake[v] = t => v = j
  BY <1>2, Constants DEF SInv, Somewhere, Chosen
<1>5. IInv'
  <2>1. \A v \in Worker : ~Hand(v, t)
    BY <1>4, Types, Constants DEF IInv, Hand, Up, Held, HandPc, Pushes, Shape, ShapeAt
  <2>2. /\ {t} \in SUBSET Thread /\ "user" \in {"user", "waker"}
        /\ pc[j] \in {"user", "parked", "waker"}
        /\ \A u \in {t} : pc[u] = "parked" /\ \A v \in Worker : ~Hand(v, u)
    BY <1>3, <1>4, <2>1
  <2> QED
    BY <1>1, <1>3, <2>2, GoesOnInv
<1>6. /\ \A u \in Thread : pc'[u] = IF u = j THEN "user" ELSE pc[u]
      /\ \A u \in Thread : toWake'[u] = IF u = j THEN NULL ELSE toWake[u]
      /\ UNCHANGED <<current, after>>
  BY <1>3 DEF IInv, TypeOK, SInv, SyncTypes, workers
<1>7. \A u \in Thread : /\ Up(u)' <=> Up(u) \/ u = t
                        /\ Waits(u)' <=> Waits(u)
                        /\ pc'[u] = "parked" <=> pc[u] = "parked"
  BY <1>3, <1>6 DEF Up, Waits
<1>8. \A u \in Thread : OnItsWay(u)' <=> OnItsWay(u)
  <2> SUFFICES ASSUME NEW u \in Thread PROVE OnItsWay(u)' <=> OnItsWay(u)
    OBVIOUS
  <2>1. CASE u = t
    BY <1>2, <1>3, <2>1 DEF OnItsWay
  <2>2. CASE u # t
    <3>1. toWake[j] # u
      BY <1>2, <2>2
    <3>2. \A v \in Thread :
            (pc'[v] = "waker" /\ toWake'[v] = u) <=> (pc[v] = "waker" /\ toWake[v] = u)
      BY <1>6, <3>1
    <3> QED
      BY <1>3, <1>6, <2>2, <3>2 DEF OnItsWay
  <2> QED
    BY <2>1, <2>2
<1>9. SyncTypes' /\ Lines' /\ Exact' /\ Busy'
  <2>1. SyncTypes' /\ Lines' /\ Exact'
    BY <1>3 DEF SInv, SyncTypes, Lines, Exact
  <2>2. Busy'
    BY <1>3, <1>6 DEF SInv, Busy
  <2> QED
    BY <2>1, <2>2
<1>10. Somewhere'
  <2> SUFFICES ASSUME NEW u \in Thread
               PROVE  /\ Waits(u)' => ~Up(u)'
                      /\ toWake'[u] # NULL => Chosen(u, toWake[u])'
                      /\ pc'[u] = "parked" => Waits(u)' \/ OnItsWay(u)'
    BY DEF Somewhere, Chosen
  <2>1. ASSUME toWake'[u] # NULL PROVE Chosen(u, toWake[u])'
    <3> DEFINE x == toWake[u]
    <3>1. x \in Thread /\ Chosen(u, x) /\ toWake'[u] = x /\ u # j
      BY <1>6, <2>1 DEF SInv, SyncTypes, Somewhere
    <3>2. x # t
      BY <1>4, <3>1
    <3> HIDE DEF x
    <3> QED
      BY <1>6, <1>7, <3>1, <3>2, Constants DEF Chosen
  <2> QED
    BY <1>4, <1>7, <1>8, <2>1 DEF SInv, Somewhere
<1>11. LockKept'
  <2>1. \A u \in Thread : LockOf(u)' = LockOf(u)
    BY <1>3 DEF LockOf
  <2> QED
    BY <1>6, <1>7, <2>1 DEF SInv, LockKept
<1>12. Owned'
  <2>1. Owners' = Owners
    BY <1>3, <1>7, <1>8 DEF Owners, BlockedOn
  <2>2. locked' = locked /\ mutexQ' = mutexQ /\ holders' = holders /\ blockedOn' = blockedOn
    BY <1>3
  <2> QED
    BY <2>1, <2>2 DEF SInv, Owned
<1> QED
  BY <1>5, <1>9, <1>10, <1>11, <1>12 DEF SInv

LEMMA SyncReturnInv == ASSUME IInv, SInv, NEW w \in Worker, SyncReturn(w) PROVE IInv' /\ SInv'
<1>1. PICK j \in Thread : j = current[w]
  BY Caller DEF SyncReturn, At
<1>2. /\ phase = "running" /\ j # NULL /\ pc[j] = "parked" /\ pc' = [pc EXCEPT ![j] = "user"]
      /\ blockedOn' = [blockedOn EXCEPT ![j] = "none"]
      /\ holders' = (IF blockedOn[j] = "mutex" THEN holders \cup {j} ELSE holders)
      /\ UNCHANGED <<phase, ready, workers, lastCreated, inlineExec, joins, arena, alive>>
      /\ UNCHANGED <<locked, mutexQ, count, semQ, pendingSigs, waitMask, toWake>>
  BY <1>1 DEF SyncReturn, At, sigVars
<1>3. Up(j) /\ OnItsWay(j) /\ ~Waits(j) /\ \A v \in Thread : toWake[v] # j
  BY <1>1, Constants DEF SInv, Somewhere, Chosen, Up, OnItsWay
<1>4. IInv'
  <2>1. /\ {} \in SUBSET Thread /\ ready' = ready \cup {} /\ "user" \in {"user", "waker"}
        /\ pc[j] \in {"user", "parked", "waker"}
        /\ \A u \in {} : pc[u] = "parked" /\ \A v \in Worker : ~Hand(v, u)
    BY <1>2
  <2> QED
    BY <1>1, <1>2, <2>1, GoesOnInv
<1>5. /\ \A u \in Thread : pc'[u] = IF u = j THEN "user" ELSE pc[u]
      /\ \A u \in Thread : blockedOn'[u] = IF u = j THEN "none" ELSE blockedOn[u]
      /\ UNCHANGED <<current, after>>
  BY <1>2 DEF IInv, TypeOK, SInv, SyncTypes, workers
<1>6. \A u \in Thread : Up(u)' <=> Up(u)
  BY <1>2, <1>5 DEF Up
<1>7. \A u \in Thread : OnItsWay(u)' <=> OnItsWay(u)
  <2>1. \A v \in Thread : pc'[v] = "waker" <=> pc[v] = "waker"
    BY <1>2, <1>5
  <2> QED
    BY <1>2, <1>5, <2>1 DEF OnItsWay
<1>8. \A u \in Thread : Waits(u)' <=> Waits(u)
  BY <1>2 DEF Waits
<1>9. SyncTypes'
  BY <1>2 DEF SInv, SyncTypes
<1>10. Exact'
  BY <1>2 DEF SInv, Exact
<1>11. Busy'
  BY <1>2, <1>5 DEF SInv, Busy
<1>12. Lines'
  BY <1>2, <1>3, <1>5 DEF SInv, Lines, Waits
<1>13. Somewhere'
  <2> SUFFICES ASSUME NEW u \in Thread
               PROVE  /\ Waits(u)' => ~Up(u)'
                      /\ toWake'[u] # NULL => Chosen(u, toWake[u])'
                      /\ pc'[u] = "parked" => Waits(u)' \/ OnItsWay(u)'
    BY DEF Somewhere, Chosen
  <2>1. ASSUME toWake'[u] # NULL PROVE Chosen(u, toWake[u])'
    <3>1. PICK x \in Thread : x = toWake[u]
      BY <1>2, <2>1 DEF SInv, SyncTypes
    <3>2. Chosen(u, x) /\ x # j /\ toWake' = toWake
      BY <1>2, <1>3, <2>1, <3>1 DEF SInv, Somewhere
    <3> QED
      BY <1>5, <1>6, <1>8, <3>1, <3>2 DEF Chosen
  <2> QED
    BY <1>2, <1>5, <1>6, <1>7, <1>8, <2>1 DEF SInv, Somewhere
<1>14. LockKept'
  BY <1>5, <1>8 DEF SInv, LockKept, LockOf
<1>15. Owned'
  <2>1. Owners' = Owners
    BY <1>2, <1>3, <1>5, <1>7 DEF Owners, BlockedOn
  <2>2. locked' = locked /\ mutexQ' = mutexQ
    BY <1>2
  <2>3. \A t \in holders' : t \in Thread /\ blockedOn'[t] # "mutex"
    BY <1>2, <1>5 DEF SInv, SyncTypes, Owned
  <2> QED
    BY <2>1, <2>2, <2>3 DEF SInv, Owned
<1> QED
  BY <1>4, <1>9, <1>10, <1>11, <1>12, <1>13, <1>14, <1>15 DEF SInv

LEMMA CreateResetsInv ==
  ASSUME IInv, SInv, NEW w \in Worker, NEW t \in Thread, CreateResets(w,
         t) PROVE IInv' /\ SInv'
<1>1. /\ Create(w, t) /\ pc[t] = "free" /\ pendingSigs' = [pendingSigs EXCEPT ![t] = {}]
      /\ waitMask' = [waitMask EXCEPT ![t] = {}]
      /\ UNCHANGED <<locked, mutexQ, count, semQ, blockedOn, toWake, holders>>
  BY DEF CreateResets, Create
<1>2. waitMask' = waitMask
  BY <1>1, Idle DEF SInv, SyncTypes
<1>3. /\ pendingSigs' \in [Thread -> SUBSET Sig]
      /\ \A u \in Thread : pendingSigs'[u] \cap waitMask[u] = {}
  BY <1>1 DEF SInv, SyncTypes, Exact
<1>4. IInv' /\ KeepsParked
  BY <1>1, CreateInv, CallsKeep DEF Call, Disturb
<1> QED
  BY <1>1, <1>2, <1>3, <1>4, ObjectsKeep

LEMMA ThreadStepInv == ASSUME IInv, SInv, NEW w \in Worker, ThreadStep(w) PROVE IInv' /\ SInv'
<1>1. /\ JoinLocks(w) \/ Proceed(w) \/ Call(w)
      /\ UNCHANGED <<locked, mutexQ, count, semQ, pendingSigs, waitMask, blockedOn, toWake,
                     holders>>
  BY DEF ThreadStep, Call, Disturb, syncVars, sigVars
<1>2. IInv' /\ KeepsParked
  BY <1>1, ThreadsNextInv, CallsKeep, ProceedsKeep DEF Next
<1>3. /\ pendingSigs' \in [Thread -> SUBSET Sig]
      /\ \A u \in Thread : pendingSigs'[u] \cap waitMask[u] = {}
  BY <1>1 DEF SInv, SyncTypes, Exact
<1> QED
  BY <1>1, <1>2, <1>3, ObjectsKeep

LEMMA SyncNextInv ==
  ASSUME IInv /\ SInv, [SyncNext \/ (Stopped /\ UNCHANGED syncVars)]_allVars
  PROVE  (IInv /\ SInv)'
<1>1. CASE UNCHANGED allVars \/ (Stopped /\ UNCHANGED syncVars)
  <2>1. /\ UNCHANGED vars
        /\ UNCHANGED <<locked, mutexQ, count, semQ, pendingSigs, waitMask, blockedOn, toWake,
                       holders>>
    BY <1>1 DEF allVars, syncVars, sigVars, Stopped
  <2>2. /\ pendingSigs' \in [Thread -> SUBSET Sig]
        /\ \A u \in Thread : pendingSigs'[u] \cap waitMask[u] = {}
    BY <2>1 DEF SInv, SyncTypes, Exact
  <2> QED
    BY <2>1, <2>2, SameInv, SameKeeps, ObjectsKeep
<1>2. ASSUME NEW w \in Worker, ThreadStep(w) \/ SyncStep(w) PROVE IInv' /\ SInv'
  BY <1>2, ThreadStepInv, LockInv, UnlockInv, SemWaitInv, SemPostInv, SyncWakeInv,
     SyncReturnInv,
     KillInv, SigWaitInv, CreateResetsInv DEF SyncStep
<1> QED
  BY <1>1, <1>2 DEF SyncNext

LEMMA SyncInitInv == ASSUME SyncInit PROVE IInv /\ SInv
<1>1. /\ IInv /\ locked = FALSE /\ mutexQ = <<>> /\ semQ = <<>> /\ count = SemInit
      /\ holders = {}
      /\ pendingSigs = [t \in Thread |-> {}] /\ waitMask = [t \in Thread |-> {}]
      /\ blockedOn = [t \in Thread |-> "none"] /\ toWake = [t \in Thread |-> NULL]
  BY ThreadsInitInv DEF SyncInit
<1>2. pc = [t \in Thread |-> IF t = Main THEN "user" ELSE "free"]
  BY DEF SyncInit, Init
<1>3. SemInit \in Nat /\ Len(semQ) = 0 /\ ToSet(mutexQ) = {} /\ ToSet(semQ) = {}
  BY <1>1, SyncAssumption DEF ToSet
<1>4. SyncTypes /\ Busy /\ Lines /\ Exact
  <2>1. SyncTypes
    <3>1. <<>> \in Seq(Thread) /\ count \in Int
      BY <1>1, <1>3
    <3>2. /\ pendingSigs \in [Thread -> SUBSET Sig] /\ waitMask \in [Thread -> SUBSET Sig]
          /\ blockedOn \in [Thread -> {"none", "mutex", "sem", "sig"}]
          /\ toWake \in [Thread -> Thread \cup {NULL}]
      BY <1>1
    <3>3. locked \in BOOLEAN /\ holders \subseteq Thread
      BY <1>1
    <3> QED
      BY <1>1, <3>1, <3>2, <3>3 DEF SyncTypes
  <2>2. Exact
    BY <1>1, <1>3 DEF Exact
  <2>3. Busy
    BY <1>1, <1>2 DEF Busy
  <2>4. Lines
    <3>1. DOMAIN mutexQ = {} /\ DOMAIN semQ = {}
      BY <1>1
    <3> QED
      BY <1>1, <1>3, <3>1 DEF Lines, IsInjective
  <2> QED
    BY <2>1, <2>2, <2>3, <2>4
<1>5. Somewhere /\ LockKept
  BY <1>1, <1>2, <1>3 DEF Somewhere, LockKept, Waits
<1>6. Owned
  BY <1>1, <1>2 DEF Owned, Owners, BlockedOn
<1> QED
  BY <1>1, <1>4, <1>5, <1>6 DEF SInv

LEMMA SyncInvariance == SyncSpec => [](IInv /\ SInv)
<1>1. SyncInit => IInv /\ SInv
  BY SyncInitInv
<1>2. (IInv /\ SInv) /\ [SyncNext \/ (Stopped /\ UNCHANGED syncVars)]_allVars => (IInv /\ SInv)'
  BY SyncNextInv
<1> QED
  BY <1>1, <1>2, PTL DEF SyncSpec

(* What holds of the threads alone holds when they block on mutexes,          *)
(* semaphores and signals as well: the stacks are owned, no created thread is *)
(* lost, alive_count is exact, and a joiner waits until the stack of its      *)
(* target has been left.                                                      *)
THEOREM ThreadsKeepWithSync ==
  SyncSpec => [](StacksOwned /\ CreationReachable /\ AliveExact /\ WokenAfterLeaving)
<1>1. IInv => StacksOwned /\ CreationReachable /\ AliveExact /\ WokenAfterLeaving
  BY AliveIsExact, BackAfterLeaving DEF IInv
<1> QED
  BY <1>1, SyncInvariance, PTL

(* At any moment one thread, running with the mutex or chosen to inherit it,  *)
(* owns a locked mutex, and nobody a free one: unlock hands over what no      *)
(* other caller of lock can take meanwhile (thread_sync.c).                   *)
THEOREM MutexHasOneOwner == SyncSpec => []MutexOwned
<1>1. SInv => MutexOwned
  <2>1. ASSUME SInv, locked PROVE Cardinality(Owners) = 1
    BY <2>1, FS_Singleton DEF SInv, Owned
  <2>2. ASSUME SInv, ~locked PROVE Cardinality(Owners) = 0
    BY <2>2, FS_EmptySet DEF SInv, Owned
  <2> QED
    BY <2>1, <2>2 DEF MutexOwned, Owners
<1> QED
  BY <1>1, SyncInvariance, PTL

(* No thread blocked on a mutex, a semaphore or a signal is lost: it is where *)
(* the next unlock, post or kill finds it, or on its way to run, and not both *)
(* (thread_sync.c).                                                           *)
THEOREM NobodyIsForgotten == SyncSpec => []NobodyForgotten
<1>1. ASSUME SInv, NEW t \in Thread, pc[t] = "parked" PROVE Waits(t) <=> ~OnItsWay(t)
  <2>1. Waits(t) => ~Up(t) /\ \A u \in Thread : toWake[u] # t
    BY <1>1, Constants DEF SInv, Somewhere, Chosen
  <2> QED
    BY <1>1, <2>1 DEF SInv, Somewhere, OnItsWay, Up
<1>2. SInv => NobodyForgotten
  BY <1>1 DEF NobodyForgotten, SInv, Exact
<1> QED
  BY <1>2, SyncInvariance, PTL

-------------------------------------------------------------------------------
(* Steps of the scheduler: parking leaves, waking makes ready.                *)
LEMMA ParkSchedules ==
  ASSUME IInv, NEW w \in Worker, At(w, "user"), NEW kind, NEW lock, Park(w, kind, lock)
  PROVE  Scheduler!Leave(w)
<1> DEFINE c == [cb |-> "unlock", arg |-> lock, me |-> current[w]]
<1>1. /\ TypeOK /\ phase = "running" /\ current[w] # NULL
      /\ current' = [current EXCEPT ![w] = NULL] /\ after' = [after EXCEPT ![w] = c]
      /\ ready' = Flushed(w)
  BY DEF IInv, At, Park, Flush, Leave
<1>2. Flushing(w) \in SUBSET Scheduler!Wakeable /\ ready' = ready \cup Flushing(w)
  BY <1>1, FlushWakes
<1>3. c.me = current[w] /\ NULL = IF c.cb = "push" THEN c.arg ELSE NULL
  OBVIOUS
<1> HIDE DEF c
<1> QED
  BY <1>1, <1>2, <1>3, Leaves

LEMMA SyncWakeSchedules ==
  ASSUME IInv, SInv, NEW w \in Worker, SyncWake(w) PROVE Scheduler!MakeReady(w)
<1> DEFINE t == toWake[current[w]]
<1>1. /\ current[w] \in Thread /\ current[w] # NULL /\ pc[current[w]] = "waker"
      /\ ready' = ready \cup {t} /\ UNCHANGED <<current, after>>
  BY Caller DEF SyncWake, At, Woken, workers
<1>2. t \in Thread /\ Chosen(current[w], t)
  BY <1>1 DEF SInv, SyncTypes, Busy, Somewhere
<1> HIDE DEF t
<1>3. t \notin ready /\ \A v \in Worker : ~Hand(v, t)
  BY <1>2, Types, Constants DEF Chosen, IInv, Hand, Up, Held, HandPc, Pushes, Shape, ShapeAt
<1>4. {t} \in SUBSET Scheduler!Wakeable
  BY <1>2, <1>3, Wakes
<1> QED
  BY <1>1, <1>4, MakesReady

LEMMA SyncSchedules ==
  ASSUME IInv /\ SInv, [SyncNext \/ (Stopped /\ UNCHANGED syncVars)]_allVars
  PROVE  [Scheduler!Next]_(Scheduler!vars)
<1>1. UNCHANGED <<ready, current, after>> => UNCHANGED Scheduler!vars
  BY DEF Scheduler!vars
<1>2. CASE UNCHANGED allVars \/ (Stopped /\ UNCHANGED syncVars)
  BY <1>1, <1>2 DEF Stopped, allVars, vars, workers
<1>3. ASSUME NEW w \in Worker, ThreadStep(w)
      PROVE  Scheduler!Next \/ UNCHANGED <<ready, current, after>>
  BY <1>3, CallsSchedule, ProceedsSchedule DEF ThreadStep, Call, Disturb
<1>4. ASSUME NEW w \in Worker, NEW t \in Thread, CreateResets(w, t)
      PROVE  Scheduler!Next \/ UNCHANGED <<ready, current, after>>
  BY <1>4, CallsSchedule DEF CreateResets, Call, Disturb
<1>5. ASSUME NEW w \in Worker,
             Lock(w) \/ SemWait(w) \/ \E mask \in SUBSET Sig : SigWait(w, mask)
      PROVE  Scheduler!Leave(w) \/ UNCHANGED <<ready, current, after>>
  <2>1. At(w, "user")
    BY <1>5 DEF Lock, SemWait, SigWait, SyncCalling
  <2>2. \/ UNCHANGED vars
        \/ \E kind \in {"mutex", "sem", "sig"}, lock \in {MutexLock, SemLock, current[w]} :
             Park(w, kind, lock)
    BY <1>5 DEF Lock, SemWait, SigWait
  <2> QED
    BY <2>1, <2>2, ParkSchedules DEF vars, workers
<1>6. ASSUME NEW w \in Worker,
             Unlock(w) \/ SemPost(w) \/ SyncReturn(w) \/ \E t \in Thread, s \in Sig : Kill(w,
             t, s)
      PROVE  UNCHANGED <<ready, current, after>>
  BY <1>6 DEF Unlock, SemPost, SyncReturn, Kill, WillWake, vars, workers
<1>7. ASSUME NEW w \in Worker, ThreadStep(w) \/ SyncStep(w)
      PROVE  Scheduler!Next \/ UNCHANGED <<ready, current, after>>
  BY <1>3, <1>4, <1>5, <1>6, <1>7, SyncWakeSchedules DEF SyncStep, Scheduler!Next
<1> QED
  BY <1>1, <1>2, <1>7 DEF SyncNext

(* Blocking calls and wakes keep the contract of AbstractScheduler too: a     *)
(* waiter is pushed once, when it is nowhere and its registers are saved      *)
(* (thread_sync.c).                                                           *)
THEOREM SyncImplementsScheduler == SyncSpec => SchedulerSpec
<1>1. SyncInit => Scheduler!Init
  BY ThreadsInitSchedule DEF SyncInit
<1>2. (IInv /\ SInv) /\ [SyncNext \/ (Stopped /\ UNCHANGED syncVars)]_allVars
        => [Scheduler!Next]_(Scheduler!vars)
  BY SyncSchedules
<1> QED
  BY <1>1, <1>2, SyncInvariance, PTL DEF SyncSpec, SchedulerSpec, Scheduler!Spec
=============================================================================
