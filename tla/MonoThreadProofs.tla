--------------------------- MODULE MonoThreadProofs ---------------------------
(* The invariants of MonoThread for every number of threads and stacks, with  *)
(* and without priorities, for a client that stops at the first -1.           *)
EXTENDS MonoThread, StructureProofs

-------------------------------------------------------------------------------
(* The inductive invariant.  Descriptors are in the slab's free list or used. *)
SlotsOK == ArenaOK(slots, ThreadCap) /\ HandedOut(slots) = Live

(* The last created thread has not been flushed and does not run; nobody else *)
(* is still to be flushed.                                                    *)
LastOK ==
  /\ lastCreated # NULL =>
       pc[lastCreated] = "fresh" /\ ~func[lastCreated] /\ lastCreated # current
  /\ \A t \in Thread \ {current} : pc[t] = "fresh" /\ ~func[t] => t = lastCreated

(* A thread that may be elected has a frame to resume, or neither frame nor   *)
(* stack yet.                                                                 *)
FramesOK ==
  \A t \in Thread \ {current} :
    /\ pc[t] = "fresh" => rsp[t] = "null" /\ stackBase[t] = NULL
    /\ pc[t] \in {"yield", "woken"} => rsp[t] = "saved"

(* Whoever a live thread is to resume is blocked in thread_join on it.        *)
JoinsOK ==
  \A t \in Thread :
    /\ waiting[t] # NULL /\ pc[t] \notin {"free", "done"} =>
         /\ pc[waiting[t]] = "join" /\ target[waiting[t]] = t
         /\ waiting[t] # current /\ rsp[waiting[t]] = "saved"
    /\ inliner[t] # NULL =>
         /\ pc[t] \notin {"free", "done"}
         /\ pc[inliner[t]] = "join" /\ target[inliner[t]] = t /\ inliner[t] # current

(* A joiner that runs again has a target, which has finished.                 *)
ResumedOK == pc[current] = "join" => target[current] \in Thread /\ pc[target[current]] = "done"

(* inline_executing counts the threads that are run inline.                   *)
InlineOK == inlineExec = Cardinality({t \in Thread : inliner[t] # NULL})

Running == SlotsOK /\ LastOK /\ FramesOK /\ JoinsOK /\ ResumedOK /\ InlineOK /\ Cycle(ring, Members)

IInv == TypeOK /\ StackPartition /\ (phase = "running" => Running) /\ phase # "crashed"

-------------------------------------------------------------------------------
(* The descriptors and the stacks are numbered from 1; NULL is neither.       *)
LEMMA Constants ==
  /\ NULL \notin Thread /\ NULL \notin Stack /\ Main \in Thread
  /\ IsFiniteSet(Thread)
  /\ Thread = 1 .. ThreadCap /\ Stack = 1 .. StackCap
  /\ ThreadCap \in Nat /\ StackCap \in Nat
  /\ PriorityDefault \in PriorityMin .. PriorityMax
BY CapAssumption, BuildAssumption, FS_Interval DEF Thread, Stack, NULL, Main

(* StackPartition, of other values of its variables.                          *)
Parted(pool, bases, live, pend) ==
  /\ ArenaOK(pool, StackCap)
  /\ HandedOut(pool) = ({bases[t] : t \in live} \cup {pend}) \ {NULL}
  /\ \A t \in live : bases[t] # NULL =>
       bases[t] # pend /\ \A u \in live \ {t} : bases[u] # bases[t]

Bases == [Thread -> Stack \cup {NULL}]

(* The pending stack is released.                                             *)
LEMMA PartedRelease ==
  ASSUME NEW pool, NEW bases \in Bases, NEW live \in SUBSET Thread, NEW pend \in Stack,
         Parted(pool, bases, live, pend)
  PROVE  Parted(Release(pool, pend), bases, live, NULL)
<1>1. pend \in HandedOut(pool)
  BY Constants DEF Parted
<1>2. ArenaOK(Release(pool, pend), StackCap) /\ HandedOut(Release(pool, pend)) = HandedOut(pool) \ {pend}
  BY <1>1, Constants, ReleaseArena DEF Parted
<1> QED
  BY <1>2 DEF Parted

(* A live thread without a stack takes one of the pool.                       *)
LEMMA PartedAlloc ==
  ASSUME NEW pool, NEW bases \in Bases, NEW live \in SUBSET Thread,
         NEW pend \in Stack \cup {NULL}, Parted(pool, bases, live, pend),
         NEW t \in live, bases[t] = NULL, ~Exhausted(pool, StackCap)
  PROVE  /\ [bases EXCEPT ![t] = Alloc(pool)] \in Bases
         /\ Parted(AfterAlloc(pool), [bases EXCEPT ![t] = Alloc(pool)], live, pend)
<1> DEFINE x == Alloc(pool)
           b == [bases EXCEPT ![t] = x]
<1>1. /\ x \in Stack /\ x \notin HandedOut(pool) /\ ArenaOK(AfterAlloc(pool), StackCap)
      /\ HandedOut(AfterAlloc(pool)) = HandedOut(pool) \cup {x}
  BY Constants, AllocArena DEF Parted
<1>2. b \in Bases /\ b[t] = x /\ \A u \in Thread \ {t} : b[u] = bases[u]
  BY <1>1 DEF Bases
<1>3. x # pend /\ x # NULL /\ \A u \in live : bases[u] # x
  BY <1>1, Constants DEF Parted
<1> HIDE DEF x, b
<1>4. {b[u] : u \in live} \cup {pend} = ({bases[u] : u \in live \ {t}} \cup {pend}) \cup {x}
  BY <1>2
<1>5. {bases[u] : u \in live} = {bases[u] : u \in live \ {t}} \cup {NULL}
  OBVIOUS
<1>6. HandedOut(AfterAlloc(pool)) = ({b[u] : u \in live} \cup {pend}) \ {NULL}
  BY <1>1, <1>3, <1>4, <1>5 DEF Parted
<1>7. \A v \in live : b[v] # NULL => b[v] # pend /\ \A u \in live \ {v} : b[u] # b[v]
  BY <1>2, <1>3 DEF Parted
<1> QED
  BY <1>1, <1>2, <1>6, <1>7 DEF Parted, x, b

(* The stack of a thread goes back to the pool, and the thread with it or not. *)
LEMMA PartedFree ==
  ASSUME NEW pool, NEW bases \in Bases, NEW live \in SUBSET Thread,
         NEW pend \in Stack \cup {NULL}, Parted(pool, bases, live, pend),
         NEW t \in live, NEW after,
         after = IF bases[t] # NULL THEN Release(pool, bases[t]) ELSE pool
  PROVE  /\ Parted(after, bases, live \ {t}, pend)
         /\ Parted(after, [bases EXCEPT ![t] = NULL], live, pend)
<1> DEFINE b == [bases EXCEPT ![t] = NULL]
<1>1. b[t] = NULL /\ \A u \in Thread \ {t} : b[u] = bases[u]
  BY DEF Bases
<1>2. {b[u] : u \in live} = {bases[u] : u \in live \ {t}} \cup {NULL}
  BY <1>1
<1>3. ArenaOK(after, StackCap) /\ HandedOut(after) = HandedOut(pool) \ {bases[t]}
  <2>1. CASE bases[t] # NULL
    <3>1. bases[t] \in HandedOut(pool)
      BY <2>1 DEF Parted
    <3> QED
      BY <2>1, <3>1, Constants, ReleaseArena DEF Parted
  <2>2. CASE bases[t] = NULL
    BY <2>2 DEF Parted
  <2> QED
    BY <2>1, <2>2
<1>4. HandedOut(after) = ({bases[u] : u \in live \ {t}} \cup {pend}) \ {NULL}
  BY <1>3 DEF Parted
<1>5. Parted(after, bases, live \ {t}, pend)
  BY <1>3, <1>4 DEF Parted
<1>6. \A v \in live : b[v] # NULL => b[v] # pend /\ \A u \in live \ {v} : b[u] # b[v]
  BY <1>1 DEF Parted
<1> HIDE DEF b
<1>7. Parted(after, b, live, pend)
  BY <1>2, <1>3, <1>4, <1>6 DEF Parted
<1> QED
  BY <1>5, <1>7 DEF b

(* A new thread has no stack.                                                 *)
LEMMA PartedCreate ==
  ASSUME NEW pool, NEW bases \in Bases, NEW live \in SUBSET Thread,
         NEW pend \in Stack \cup {NULL}, Parted(pool, bases, live, pend),
         NEW t \in Thread \ live
  PROVE  Parted(pool, [bases EXCEPT ![t] = NULL], live \cup {t}, pend)
<1> DEFINE b == [bases EXCEPT ![t] = NULL]
<1>1. b[t] = NULL /\ \A u \in Thread \ {t} : b[u] = bases[u]
  BY DEF Bases
<1> HIDE DEF b
<1>2. {b[u] : u \in live \cup {t}} = {bases[u] : u \in live} \cup {NULL}
  BY <1>1
<1>3. \A v \in live \cup {t} : b[v] # NULL => b[v] # pend /\ \A u \in (live \cup {t}) \ {v} : b[u] # b[v]
  BY <1>1 DEF Parted
<1>4. Parted(pool, b, live \cup {t}, pend)
  BY <1>2, <1>3 DEF Parted
<1> QED
  BY <1>4 DEF b

(* The stack of a thread that exits becomes the pending one.                  *)
LEMMA PartedPend ==
  ASSUME NEW pool, NEW bases \in Bases, NEW live \in SUBSET Thread,
         Parted(pool, bases, live, NULL), NEW t \in live
  PROVE  Parted(pool, [bases EXCEPT ![t] = NULL], live, bases[t])
<1> DEFINE b == [bases EXCEPT ![t] = NULL]
<1>1. b[t] = NULL /\ \A u \in Thread \ {t} : b[u] = bases[u]
  BY DEF Bases
<1> HIDE DEF b
<1>2. {b[u] : u \in live} \cup {bases[t]} = {bases[u] : u \in live} \cup {NULL}
  BY <1>1
<1>3. \A v \in live : b[v] # NULL => b[v] # bases[t] /\ \A u \in live \ {v} : b[u] # b[v]
  BY <1>1 DEF Parted
<1>4. Parted(pool, b, live, bases[t])
  BY <1>2, <1>3 DEF Parted
<1> QED
  BY <1>4 DEF b

-------------------------------------------------------------------------------
(* What TypeOK and StackPartition say in the words of the lemmas.             *)
LEMMA Types ==
  ASSUME TypeOK
  PROVE  /\ ring \in Links(Thread) /\ stackBase \in Bases
         /\ phase = "running" => current \in Thread
         /\ StackPartition <=> Parted(stacks, stackBase, Live, pendingDead)
BY DEF TypeOK, Links, Bases, StackPartition, Parted, NULL

(* flush_last_created leaves a cycle of the members and the flushed thread.   *)
FlushedMembers ==
  {t \in Thread : \/ t = current
                  \/ pc[t] \in {"yield", "woken"}
                  \/ pc[t] = "fresh" /\ FlushedFunc[t]}

LEMMA FlushOK ==
  ASSUME TypeOK, phase = "running", LastOK, Cycle(ring, Members)
  PROVE  /\ FlushedRing \in Links(Thread) /\ Cycle(FlushedRing, FlushedMembers)
         /\ FlushedFunc \in [Thread -> BOOLEAN]
         /\ \A t \in Thread : FlushedFunc[t] <=> func[t] \/ t = lastCreated
         /\ current \in FlushedMembers
<1>1. /\ current \in Members /\ Members \in SUBSET Thread /\ ring \in Links(Thread)
      /\ lastCreated \in Thread \cup {NULL} /\ func \in [Thread -> BOOLEAN]
  BY Types DEF Members, InRing, TypeOK
<1>2. CASE lastCreated = NULL
  <2>1. FlushedMembers = Members /\ FlushedRing = ring /\ FlushedFunc = func
    BY <1>2 DEF FlushedMembers, Members, InRing, FlushedFunc, FlushedRing
  <2>2. \A t \in Thread : t # lastCreated
    BY <1>2, Constants
  <2> QED
    BY <1>1, <2>1, <2>2
<1>3. CASE lastCreated # NULL
  <2>1. lastCreated \in Thread \ Members
    BY <1>1, <1>3 DEF LastOK, Members, InRing
  <2>2. /\ FlushedRing = Enqueue(ring, current, lastCreated)
        /\ FlushedFunc = [func EXCEPT ![lastCreated] = TRUE]
    BY <1>3 DEF FlushedRing, FlushedFunc
  <2>3. FlushedMembers = Members \cup {lastCreated}
    BY <1>1, <1>3, <2>1, <2>2 DEF FlushedMembers, Members, InRing, LastOK
  <2> QED
    BY <1>1, <2>1, <2>2, <2>3, EnqueueCycle
<1> QED
  BY <1>2, <1>3

(* A switch to a thread that may be elected: what the load of its stack       *)
(* pointer makes of the threads and of the pool, ...                          *)
LEMMA LoadOK ==
  ASSUME NEW t \in Thread, NEW rsps \in [Thread -> {"null", "saved", "stale"}],
         NEW bases \in Bases, NEW pool, NEW live \in SUBSET Thread,
         NEW pend \in Stack \cup {NULL}, Parted(pool, bases, live, pend), t \in live,
         rsps[t] = "saved" \/ (rsps[t] = "null" /\ bases[t] = NULL),
         phase = "running", Load(t, rsps, bases, pool)
  PROVE  /\ current' = t /\ rsp' = [rsps EXCEPT ![t] = "stale"]
         /\ rsp' \in [Thread -> {"null", "saved", "stale"}]
         /\ phase' \in {"running", "aborted"}
         /\ stackBase' \in Bases /\ Parted(PoolAfter(t, rsps, pool), stackBase', live, pend)
         /\ \A u \in Thread \ {t} : stackBase'[u] = bases[u]
<1>1. /\ current' = t /\ rsp' = [rsps EXCEPT ![t] = "stale"]
      /\ phase' \in {"running", "aborted"}
  BY DEF Load
<1>2. CASE Taken(t, rsps, pool)
  <2>1. stackBase' = [bases EXCEPT ![t] = Alloc(pool)] /\ PoolAfter(t, rsps, pool) = AfterAlloc(pool)
    BY <1>2 DEF Load, PoolAfter
  <2>2. bases[t] = NULL /\ ~Exhausted(pool, StackCap)
    BY <1>2 DEF Taken
  <2>3. /\ stackBase' \in Bases /\ Parted(PoolAfter(t, rsps, pool), stackBase', live, pend)
    BY <2>1, <2>2, PartedAlloc
  <2>4. \A u \in Thread \ {t} : stackBase'[u] = bases[u]
    BY <2>1 DEF Bases
  <2> QED
    BY <1>1, <2>3, <2>4
<1>3. CASE ~Taken(t, rsps, pool)
  <2>1. stackBase' = bases /\ PoolAfter(t, rsps, pool) = pool
    BY <1>3 DEF Load, PoolAfter
  <2> QED
    BY <1>1, <2>1
<1> QED
  BY <1>2, <1>3

(* ... and the switch of every call but a yield, which leaves it at that.     *)
LEMMA SwitchOK ==
  ASSUME NEW t \in Thread, NEW rsps \in [Thread -> {"null", "saved", "stale"}],
         NEW bases \in Bases, NEW pool, NEW live \in SUBSET Thread,
         NEW pend \in Stack \cup {NULL}, Parted(pool, bases, live, pend), t \in live,
         rsps[t] = "saved" \/ (rsps[t] = "null" /\ bases[t] = NULL),
         phase = "running", SwitchTo(t, rsps, bases, pool)
  PROVE  /\ current' = t /\ rsp' = [rsps EXCEPT ![t] = "stale"]
         /\ rsp' \in [Thread -> {"null", "saved", "stale"}]
         /\ phase' \in {"running", "aborted"}
         /\ stackBase' \in Bases /\ Parted(stacks', stackBase', live, pend)
         /\ \A u \in Thread \ {t} : stackBase'[u] = bases[u]
<1>1. Load(t, rsps, bases, pool) /\ stacks' = PoolAfter(t, rsps, pool)
  BY DEF SwitchTo
<1> QED
  BY <1>1, LoadOK

(* How a step that ends in another state establishes the invariant.           *)
LEMMA Assemble ==
  ASSUME TypeOK', Parted(stacks', stackBase', Live', pendingDead'), phase' # "crashed",
         phase' = "running" => Running'
  PROVE  IInv'
BY DEF IInv, StackPartition, Parted

(* The initial state.                                                         *)
LEMMA InitOK == Init => IInv
<1> SUFFICES ASSUME Init PROVE IInv
  OBVIOUS
<1>1. TypeOK
  <2>1. <<>> \in Seq(Thread) /\ <<>> \in Seq(Stack)
    OBVIOUS
  <2>2. slots = [free |-> <<>>, next |-> 1] /\ stacks = [free |-> <<>>, next |-> 0]
    BY DEF Init, ArenaInit, AfterAlloc
  <2> QED
    BY <2>1, <2>2, Constants DEF Init, TypeOK, Phase, Pc, UfInit
<1>2. Live = {Main} /\ Members = {Main}
  BY Constants DEF Init, Live, Members, InRing
<1>3. ArenaOK(slots, ThreadCap) /\ HandedOut(slots) = {Main}
  <2>1. ThreadCap >= 1 /\ Main = 1
    BY CapAssumption DEF Main
  <2>2. ~Exhausted(ArenaInit, ThreadCap) /\ Alloc(ArenaInit) = Main
    <3>1. ArenaInit.free = <<>> /\ ArenaInit.next = 0
      BY DEF ArenaInit
    <3> QED
      BY <2>1, <3>1, CapAssumption DEF Exhausted, Alloc
  <2>3. slots = AfterAlloc(ArenaInit)
    BY DEF Init
  <2> QED
    BY <2>2, <2>3, Constants, InitArena, AllocArena
<1>4. StackPartition
  BY <1>2, Constants, InitArena DEF Init, StackPartition
<1>5. Cycle(ring, Members)
  BY <1>2, Constants DEF Init, Cycle, Linked
<1>6. InlineOK
  <2>1. {t \in Thread : inliner[t] # NULL} = {}
    BY DEF Init
  <2> QED
    BY <2>1, FS_EmptySet DEF Init, InlineOK
<1>7. LastOK /\ FramesOK /\ JoinsOK /\ ResumedOK
  BY <1>2, Constants DEF Init, LastOK, FramesOK, JoinsOK, ResumedOK
<1> QED
  BY <1>1, <1>2, <1>3, <1>4, <1>5, <1>6, <1>7 DEF IInv, Running, SlotsOK, Init

-------------------------------------------------------------------------------
(* The steps that leave every variable of the parts of IInv as it is.         *)
Parts == <<current, ring, lastCreated, inlineExec, pc, rsp, func, waiting, target,
           inliner, stackBase, slots, stacks, pendingDead>>

LEMMA PartsOK ==
  ASSUME IInv, UNCHANGED Parts, UNCHANGED phase \/ (phase = "running" /\ phase' = "asserted"),
         prio' \in [Thread -> PriorityMin .. PriorityMax]
  PROVE  IInv'
<1>1. TypeOK'
  BY DEF IInv, TypeOK, Parts, Phase
<1>2. /\ Live' = Live /\ Members' = Members
      /\ ring' = ring /\ stacks' = stacks /\ stackBase' = stackBase /\ slots' = slots
      /\ pendingDead' = pendingDead
  BY DEF Live, Members, InRing, Parts
<1>3. StackPartition'
  BY <1>2 DEF IInv, StackPartition
<1>4. Running => Running'
  BY <1>2 DEF Running, SlotsOK, LastOK, FramesOK, JoinsOK, ResumedOK, InlineOK, Parts
<1> QED
  BY <1>1, <1>3, <1>4 DEF IInv

(* thread_create returns -1, and the client stops.                            *)
LEMMA CreateFailsStep == ASSUME ClientAsserts, IInv, CreateFails PROVE IInv'
<1>1. phase = "running" /\ phase' = "asserted" /\ UNCHANGED Parts /\ prio' = prio
  BY DEF CreateFails, Calling, Fail, Parts
<1> QED
  BY <1>1, PartsOK DEF IInv, TypeOK

(* thread_setpriority writes nothing but a priority.                          *)
LEMMA SetPriorityStep ==
  ASSUME IInv, NEW t \in Thread, NEW p, SetPriority(t, p) PROVE IInv'
<1>1. UNCHANGED phase /\ UNCHANGED Parts
  BY DEF SetPriority, Parts
<1>2. prio' \in [Thread -> PriorityMin .. PriorityMax]
  BY DEF SetPriority, IInv, TypeOK
<1> QED
  BY <1>1, <1>2, PartsOK

(* A join refused with EDEADLK writes nothing but the forest.                 *)
LEMMA JoinDeadlockStep == ASSUME IInv, NEW t \in Thread, JoinDeadlock(t) PROVE IInv'
<1>1. UNCHANGED phase /\ UNCHANGED Parts /\ prio' = prio
  BY DEF JoinDeadlock, Parts
<1> QED
  BY <1>1, PartsOK DEF IInv, TypeOK

(* The members of the list are the same when current only leaves its call.    *)
LEMMA ThreadEntryStep == ASSUME IInv, ThreadEntry PROVE IInv'
<1>1. /\ phase = "running" /\ Running /\ TypeOK /\ current \in Thread /\ pc[current] = "fresh"
      /\ pc' = [pc EXCEPT ![current] = "user"] /\ pc \in [Thread -> Pc]
      /\ Parted(stacks, stackBase, Live, pendingDead)
  BY Types DEF ThreadEntry, Resumed, IInv, TypeOK
<1>2. TypeOK'
  BY <1>1 DEF ThreadEntry, TypeOK, Pc
<1>3. Live' = Live /\ Members' = Members
  BY <1>1 DEF ThreadEntry, Live, Members, InRing
<1>4. Parted(stacks', stackBase', Live', pendingDead')
  BY <1>1, <1>3 DEF ThreadEntry
<1>5. SlotsOK' /\ Cycle(ring, Members)' /\ InlineOK'
  BY <1>1, <1>3 DEF ThreadEntry, Running, SlotsOK, InlineOK
<1>6. LastOK' /\ FramesOK' /\ JoinsOK' /\ ResumedOK'
  BY <1>1 DEF ThreadEntry, Running, LastOK, FramesOK, JoinsOK, ResumedOK, Pc
<1> QED
  BY <1>1, <1>2, <1>4, <1>5, <1>6, Assemble DEF ThreadEntry, Running

(* A thread comes back from its yield.                                        *)
LEMMA YieldReturnStep == ASSUME IInv, YieldReturn PROVE IInv'
<1>1. /\ phase = "running" /\ Running /\ TypeOK /\ current \in Thread /\ pc[current] = "yield"
      /\ pc' = [pc EXCEPT ![current] = "user"] /\ pc \in [Thread -> Pc]
      /\ Parted(stacks, stackBase, Live, pendingDead)
  BY Types DEF YieldReturn, Resumed, IInv, TypeOK
<1>2. TypeOK'
  BY <1>1 DEF YieldReturn, TypeOK, Pc
<1>3. Live' = Live /\ Members' = Members
  BY <1>1 DEF YieldReturn, Live, Members, InRing
<1>4. Parted(stacks', stackBase', Live', pendingDead')
  BY <1>1, <1>3 DEF YieldReturn
<1>5. SlotsOK' /\ Cycle(ring, Members)' /\ InlineOK'
  BY <1>1, <1>3 DEF YieldReturn, Running, SlotsOK, InlineOK
<1>6. LastOK' /\ FramesOK' /\ JoinsOK' /\ ResumedOK'
  BY <1>1 DEF YieldReturn, Running, LastOK, FramesOK, JoinsOK, ResumedOK, Pc
<1> QED
  BY <1>1, <1>2, <1>4, <1>5, <1>6, Assemble DEF YieldReturn, Running

-------------------------------------------------------------------------------
(* What every call of the API finds.                                          *)
LEMMA CallOK ==
  ASSUME IInv, phase = "running", pc[current] = "user"
  PROVE  /\ TypeOK /\ Running /\ current \in Thread /\ pc \in [Thread -> Pc] /\ current \in Live
         /\ rsp \in [Thread -> {"null", "saved", "stale"}] /\ stackBase \in Bases
         /\ pendingDead \in Stack \cup {NULL} /\ Live \in SUBSET Thread
         /\ Parted(stacks, stackBase, Live, pendingDead)
         /\ FlushedRing \in Links(Thread) /\ Cycle(FlushedRing, FlushedMembers)
         /\ FlushedFunc \in [Thread -> BOOLEAN]
         /\ \A t \in Thread : FlushedFunc[t] <=> func[t] \/ t = lastCreated
         /\ current \in FlushedMembers /\ FlushedMembers \in SUBSET Thread
BY Types, FlushOK DEF IInv, TypeOK, Running, Live, FlushedMembers

(* What a step that hands over to another thread keeps of the stack of the    *)
(* thread it leaves.                                                          *)
Handover ==
  /\ current \in Live' /\ current' \in Live'
  /\ stackBase'[current] = stackBase[current] \/ pendingDead' = stackBase[current]

(* A thread of the list other than current can be switched to.                *)
LEMMA Electable ==
  ASSUME TypeOK, Running, NEW t \in FlushedMembers \ {current}
  PROVE  /\ t \in Live /\ pc[t] \in {"fresh", "yield", "woken"}
         /\ rsp[t] = "saved" \/ (rsp[t] = "null" /\ stackBase[t] = NULL)
BY DEF FlushedMembers, Running, FramesOK, Live

(* Both elections take such a thread, and with priorities one that no other   *)
(* exceeds.                                                                   *)
LEMMA Elected ==
  ASSUME IInv, phase = "running", pc[current] = "user", ~Alone(FlushedRing, current),
         NEW t, t = PickNext(FlushedRing) \/ t = YieldNext(FlushedRing)
  PROVE  /\ t \in FlushedMembers \ {current}
         /\ UsePriority => \A u \in FlushedMembers \ {current} : prio[u] <= prio[t]
<1>1. CASE UsePriority
  <2>1. t = PickHighest(FlushedRing, current, prio)
    BY <1>1 DEF PickNext, YieldNext
  <2>2. \A u \in FlushedMembers : prio[u] \in Int
    <3>1. \A u \in Thread : prio[u] \in PriorityMin .. PriorityMax
      BY CallOK DEF TypeOK
    <3> QED
      BY <3>1, CallOK, BuildAssumption
  <2> QED
    BY <2>1, <2>2, CallOK, Constants, PickHighestCycle
<1>2. CASE ~UsePriority
  BY <1>2, CallOK, AloneCycle DEF PickNext, YieldNext
<1> QED
  BY <1>1, <1>2

(* A yield that keeps current only flushes.                                   *)
LEMMA YieldKeepsStep == ASSUME IInv, YieldKeeps PROVE IInv'
<1>1. phase = "running" /\ pc[current] = "user"
  BY DEF YieldKeeps, Calling
<1>2. /\ ring' = FlushedRing /\ func' = FlushedFunc /\ lastCreated' = NULL
      /\ UNCHANGED <<phase, current, inlineExec, pc, rsp, waiting, target, inliner, stackBase,
                     prio, uf, slots, stacks, pendingDead>>
  BY DEF YieldKeeps, Flush
<1>3. TypeOK'
  BY <1>1, <1>2, CallOK DEF TypeOK, Links, NULL
<1>4. Live' = Live /\ Members' = FlushedMembers
  BY <1>2 DEF Live, Members, InRing, FlushedMembers
<1>5. Running'
  BY <1>1, <1>2, <1>4, CallOK
     DEF Running, SlotsOK, LastOK, FramesOK, JoinsOK, ResumedOK, InlineOK
<1> QED
  BY <1>1, <1>2, <1>3, <1>4, <1>5, CallOK, Assemble

(* A yield that switches: it puts the pending stack back in the pool once the *)
(* thread it switches to has its own, when it does so at all.                 *)
LEMMA YieldSwitchesStep == ASSUME IInv, YieldSwitches PROVE IInv' /\ Handover
<1> DEFINE t == YieldNext(FlushedRing)
           pool == PoolAfter(t, Saved, stacks)
<1>1. phase = "running" /\ pc[current] = "user" /\ ~Alone(FlushedRing, current)
  BY DEF YieldSwitches, Calling, Keeps, NobodyReady
<1>2. /\ ring' = FlushedRing /\ func' = FlushedFunc /\ lastCreated' = NULL
      /\ pc' = [pc EXCEPT ![current] = "yield"] /\ Load(t, Saved, stackBase, stacks)
      /\ UNCHANGED <<inlineExec, waiting, target, inliner, prio, uf, slots>>
      /\ \/ pendingDead # NULL /\ stacks' = Release(pool, pendingDead) /\ pendingDead' = NULL
         \/ stacks' = pool /\ pendingDead' = pendingDead
  BY DEF YieldSwitches, Flush, YieldReleases, PoolAfterYield
<1>3. t \in FlushedMembers \ {current}
  BY <1>1, Elected
<1>4. /\ t \in Live /\ t \in Thread /\ pc[t] \in {"fresh", "yield", "woken"}
      /\ Saved[t] = "saved" \/ (Saved[t] = "null" /\ stackBase[t] = NULL)
      /\ Saved \in [Thread -> {"null", "saved", "stale"}]
  <2> HIDE DEF t, pool
  <2> QED
    BY <1>1, <1>3, CallOK, Electable DEF Saved
<1> HIDE DEF t, pool
<1>5. /\ current' = t /\ rsp' = [Saved EXCEPT ![t] = "stale"]
      /\ rsp' \in [Thread -> {"null", "saved", "stale"}]
      /\ phase' \in {"running", "aborted"}
      /\ stackBase' \in Bases /\ Parted(pool, stackBase', Live, pendingDead)
      /\ \A u \in Thread \ {t} : stackBase'[u] = stackBase[u]
  <2>1. /\ stackBase \in Bases /\ Live \in SUBSET Thread /\ pendingDead \in Stack \cup {NULL}
        /\ Parted(stacks, stackBase, Live, pendingDead)
    BY <1>1, CallOK
  <2> QED
    BY <1>1, <1>2, <1>4, <2>1, LoadOK DEF pool
<1>6. Live' = Live /\ Members' = FlushedMembers
  BY <1>1, <1>2, <1>3, <1>4, <1>5, CallOK DEF Live, Members, InRing, FlushedMembers
<1>7. \A u \in Thread \ {t} : rsp'[u] = IF u = current THEN "saved" ELSE rsp[u]
  BY <1>1, <1>4, <1>5, CallOK DEF Saved
<1>8. Parted(stacks', stackBase', Live', pendingDead') /\ pendingDead' \in Stack \cup {NULL}
  BY <1>1, <1>2, <1>5, <1>6, CallOK, PartedRelease
<1>9. TypeOK'
  BY <1>1, <1>2, <1>4, <1>5, <1>8, CallOK, Constants
     DEF TypeOK, Links, NULL, Phase, Pc, Parted, ArenaOK, Stack, Bases
<1>10. SlotsOK' /\ InlineOK' /\ Cycle(ring, Members)'
  BY <1>1, <1>2, <1>6, CallOK DEF Running, SlotsOK, InlineOK
<1>11. LastOK' /\ FramesOK' /\ ResumedOK'
  BY <1>1, <1>2, <1>3, <1>4, <1>5, <1>7, CallOK DEF Running, LastOK, FramesOK, ResumedOK, Pc
<1>12. JoinsOK'
  BY <1>1, <1>2, <1>3, <1>4, <1>5, <1>7, CallOK DEF TypeOK, Running, JoinsOK, Pc
<1>13. Handover
  BY <1>1, <1>2, <1>3, <1>4, <1>5, <1>6, CallOK DEF Handover
<1> QED
  BY <1>2, <1>5, <1>8, <1>9, <1>10, <1>11, <1>12, <1>13, Assemble DEF Running

(* thread_create takes a descriptor and flushes the previous thread.          *)
LEMMA CreateStep == ASSUME IInv, Create PROVE IInv'
<1> DEFINE t == Alloc(slots)
<1>1. phase = "running" /\ pc[current] = "user" /\ ~Exhausted(slots, ThreadCap)
  BY DEF Create, Calling
<1>2. /\ slots' = AfterAlloc(slots) /\ pc' = [pc EXCEPT ![t] = "fresh"]
      /\ rsp' = [rsp EXCEPT ![t] = "null"] /\ prio' = [prio EXCEPT ![t] = PriorityDefault]
      /\ waiting' = [waiting EXCEPT ![t] = NULL] /\ inliner' = [inliner EXCEPT ![t] = NULL]
      /\ stackBase' = [stackBase EXCEPT ![t] = NULL]
      /\ ring' = FlushedRing /\ func' = [FlushedFunc EXCEPT ![t] = FALSE] /\ lastCreated' = t
      /\ UNCHANGED <<phase, current, inlineExec, target, stacks, pendingDead>>
  BY DEF Create
<1>3. /\ t \in Thread /\ t \notin HandedOut(slots) /\ ArenaOK(slots', ThreadCap)
      /\ HandedOut(slots') = HandedOut(slots) \cup {t}
  BY <1>1, <1>2, CallOK, Constants, AllocArena DEF Running, SlotsOK
<1>4. t \notin Live /\ pc[t] = "free" /\ t # current /\ inliner[t] = NULL
  BY <1>1, <1>3, CallOK DEF Running, SlotsOK, Live, JoinsOK
<1>5. slots' \in [free : Seq(Thread), next : 0 .. ThreadCap]
  BY <1>3, Constants DEF ArenaOK
<1> HIDE DEF t
<1>6. TypeOK'
  BY <1>1, <1>2, <1>3, <1>5, CallOK, Constants DEF TypeOK, Links, NULL, Pc
<1>7. Live' = Live \cup {t} /\ Members' = FlushedMembers
  BY <1>1, <1>2, <1>3, <1>4, CallOK DEF TypeOK, Live, Members, InRing, FlushedMembers, Pc
<1>8. Parted(stacks', stackBase', Live', pendingDead')
  BY <1>1, <1>2, <1>3, <1>4, <1>7, CallOK, PartedCreate
<1>9. SlotsOK' /\ Cycle(ring, Members)'
  BY <1>1, <1>2, <1>3, <1>7, CallOK DEF Running, SlotsOK
<1>10. LastOK' /\ FramesOK' /\ ResumedOK'
  BY <1>1, <1>2, <1>3, <1>4, CallOK DEF TypeOK, Running, LastOK, FramesOK, ResumedOK, Bases
<1>11. JoinsOK'
  BY <1>1, <1>2, <1>3, <1>4, CallOK DEF TypeOK, Running, JoinsOK
<1>12. InlineOK'
  <2>1. inliner' = inliner
    BY <1>2, <1>4, CallOK, <1>1 DEF TypeOK
  <2> QED
    BY <1>1, <1>2, <2>1, CallOK DEF Running, InlineOK
<1> QED
  BY <1>1, <1>2, <1>6, <1>8, <1>9, <1>10, <1>11, <1>12, Assemble DEF Running

(* The end of thread_join, by a call or after a switch, frees a thread that   *)
(* has finished.                                                              *)
LEMMA CleanupStep ==
  ASSUME IInv, phase = "running", NEW t \in Thread, pc[t] = "done",
         pc[current] \in {"user", "join"}, current \in Thread, Cleanup(t)
  PROVE  IInv'
<1>1. /\ TypeOK /\ Running /\ pc \in [Thread -> Pc] /\ t # current /\ t \in Live
      /\ stackBase \in Bases /\ Live \in SUBSET Thread /\ pendingDead \in Stack \cup {NULL}
      /\ Parted(stacks, stackBase, Live, pendingDead)
  BY Types DEF IInv, TypeOK, Live
<1>2. /\ pc' = [pc EXCEPT ![t] = "free", ![current] = "user"] /\ func' = [func EXCEPT ![t] = FALSE]
      /\ stacks' = WithStackOf(t) /\ slots' = Release(slots, t)
      /\ rsp' = [rsp EXCEPT ![t] = IF slots.free = <<>> THEN "null" ELSE "stale"]
      /\ target' = [target EXCEPT ![current] = NULL]
      /\ UNCHANGED <<phase, current, ring, lastCreated, inlineExec, waiting, inliner,
                     stackBase, prio, uf, pendingDead>>
  BY DEF Cleanup
<1>3. Live' = Live \ {t} /\ Members' = Members
  BY <1>1, <1>2 DEF Live, Members, InRing
<1>4. Parted(stacks', stackBase', Live', pendingDead')
  BY <1>1, <1>2, <1>3, PartedFree DEF WithStackOf
<1>5. SlotsOK' /\ slots' \in [free : Seq(Thread), next : 0 .. ThreadCap]
  <2>1. ArenaOK(slots', ThreadCap) /\ HandedOut(slots') = Live'
    BY <1>1, <1>2, <1>3, Constants, ReleaseArena DEF Running, SlotsOK
  <2> QED
    BY <2>1, Constants DEF SlotsOK, ArenaOK
<1>6. TypeOK'
  BY <1>1, <1>2, <1>4, <1>5 DEF TypeOK, Pc, Parted, ArenaOK, Stack
<1>7. Cycle(ring, Members)' /\ InlineOK'
  BY <1>1, <1>2, <1>3 DEF Running, InlineOK
<1>8. LastOK' /\ FramesOK' /\ ResumedOK'
  BY <1>1, <1>2 DEF TypeOK, Running, LastOK, FramesOK, ResumedOK
<1>9. JoinsOK'
  BY <1>1, <1>2 DEF TypeOK, Running, JoinsOK
<1> QED
  BY <1>2, <1>4, <1>5, <1>6, <1>7, <1>8, <1>9, Assemble DEF Running

(* A join of a thread that has finished.                                      *)
LEMMA JoinFinishedStep == ASSUME IInv, NEW t \in Thread, JoinFinished(t) PROVE IInv'
BY CleanupStep, CallOK DEF JoinFinished, Joining, Calling

(* A join that returns after an inline run or a switch.                       *)
LEMMA JoinReturnStep == ASSUME IInv, JoinReturn PROVE IInv'
<1>1. phase = "running" /\ pc[current] = "join" /\ Cleanup(target[current])
  BY DEF JoinReturn, Resumed
<1>2. /\ current \in Thread /\ target[current] \in Thread
      /\ pc[target[current]] = "done"
  BY <1>1, Types DEF IInv, Running, ResumedOK
<1> QED
  BY <1>1, <1>2, CleanupStep

-------------------------------------------------------------------------------
(* thread_join of a thread that no one joins: what it finds.                  *)
LEMMA JoiningOK ==
  ASSUME IInv, NEW t \in Thread, Accepted(t)
  PROVE  /\ phase = "running" /\ pc[current] = "user" /\ pc[t] \notin {"free", "done"}
         /\ t \in Live /\ inliner[t] = NULL
BY CallOK DEF Accepted, Joining, Calling, Joinable, Running, JoinsOK, Live, TypeOK

(* A thread starts to run inline: inline_executing counts it.                 *)
LEMMA InlineStarts ==
  ASSUME TypeOK, InlineOK, NEW t \in Thread, inliner[t] = NULL, current \in Thread,
         inliner' = [inliner EXCEPT ![t] = current], inlineExec' = inlineExec + 1
  PROVE  InlineOK' /\ inlineExec' \in Nat
<1> DEFINE S == {u \in Thread : inliner[u] # NULL}
           T == {u \in Thread : inliner'[u] # NULL}
<1>1. T = S \cup {t} /\ t \notin S
  BY Constants DEF TypeOK
<1>2. IsFiniteSet(S)
  BY Constants, FS_Subset
<1>3. Cardinality(S \cup {t}) = Cardinality(S) + 1
  BY <1>1, <1>2, FS_AddElement
<1>4. inlineExec = Cardinality(S) /\ inlineExec \in Nat
  BY DEF InlineOK, TypeOK
<1> HIDE DEF S, T
<1>5. inlineExec' = Cardinality(T) /\ inlineExec' \in Nat
  BY <1>1, <1>3, <1>4
<1> QED
  BY <1>5 DEF InlineOK, T

(* It ends.                                                                   *)
LEMMA InlineEnds ==
  ASSUME TypeOK, InlineOK, NEW t \in Thread, inliner[t] # NULL,
         inliner' = [inliner EXCEPT ![t] = NULL], inlineExec' = inlineExec - 1
  PROVE  InlineOK' /\ inlineExec' \in Nat
<1> DEFINE S == {u \in Thread : inliner[u] # NULL}
           T == {u \in Thread : inliner'[u] # NULL}
<1>1. T = S \ {t} /\ t \in S
  BY Constants DEF TypeOK
<1>2. IsFiniteSet(S)
  BY Constants, FS_Subset
<1> HIDE DEF S, T
<1>3. IsFiniteSet(S \ {t}) /\ Cardinality(S \ {t}) = Cardinality(S) - 1
  BY <1>1, <1>2, FS_RemoveElement
<1>4. Cardinality(S \ {t}) \in Nat
  BY <1>3, FS_CardinalityType
<1> QED
  BY <1>1, <1>3, <1>4 DEF InlineOK, S, T

(* The last created thread is run inline in the place of its joiner.          *)
LEMMA JoinInlineLastStep == ASSUME IInv, NEW t \in Thread, JoinInlineLast(t) PROVE IInv' /\ Handover
<1>1. phase = "running" /\ pc[current] = "user" /\ t \in Live /\ inliner[t] = NULL
  BY JoiningOK DEF JoinInlineLast
<1>2. /\ lastCreated = t /\ lastCreated' = NULL /\ ring' = Replace(ring, current, t)
      /\ current' = t /\ pc' = [pc EXCEPT ![current] = "join", ![t] = "user"]
      /\ target' = [target EXCEPT ![current] = t]
      /\ inliner' = [inliner EXCEPT ![t] = current] /\ inlineExec' = inlineExec + 1
      /\ UNCHANGED <<phase, rsp, func, waiting, stackBase, prio, slots, stacks, pendingDead>>
  BY DEF JoinInlineLast, InlineRun
<1>3. pc[t] = "fresh" /\ ~func[t] /\ t # current /\ t # NULL
  BY <1>1, <1>2, CallOK, Constants DEF Running, LastOK
<1>4. t \in Thread \ Members /\ current \in Members /\ Members \in SUBSET Thread /\ Cycle(ring, Members)
  BY <1>1, <1>3, CallOK DEF Members, InRing, Running
<1>5. ring' \in Links(Thread) /\ Cycle(ring', (Members \ {current}) \cup {t})
  BY <1>1, <1>2, <1>4, CallOK, Types, ReplaceCycle
<1>6. Live' = Live /\ Members' = (Members \ {current}) \cup {t}
  BY <1>1, <1>2, <1>3, CallOK DEF Live, Members, InRing
<1>7. InlineOK' /\ inlineExec' \in Nat
  BY <1>1, <1>2, CallOK, InlineStarts DEF Running
<1>8. TypeOK'
  BY <1>1, <1>2, <1>5, <1>7, CallOK, Constants DEF TypeOK, Links, NULL, Pc
<1>9. SlotsOK' /\ Cycle(ring, Members)'
  BY <1>1, <1>2, <1>5, <1>6, CallOK DEF Running, SlotsOK
<1>10. LastOK' /\ FramesOK' /\ ResumedOK'
  <2>1. \A u \in Thread \ {t, current} : pc'[u] = pc[u]
    BY <1>1, <1>2, CallOK
  <2>2. pc'[current] = "join" /\ pc'[t] = "user"
    BY <1>1, <1>2, <1>3, CallOK
  <2>3. LastOK
    BY <1>1, CallOK DEF Running
  <2>4. LastOK'
    BY <1>2, <2>1, <2>2, <2>3 DEF LastOK
  <2>5. FramesOK
    BY <1>1, CallOK DEF Running
  <2>6. FramesOK'
    BY <1>1, <1>2, <1>3, <2>1, <2>2, <2>5, CallOK DEF FramesOK
  <2>7. ResumedOK'
    BY <1>2, <2>2 DEF ResumedOK
  <2> QED
    BY <2>4, <2>6, <2>7
<1>11. JoinsOK'
  <2>1. JoinsOK /\ pc \in [Thread -> Pc] /\ current \in Thread
    BY <1>1, CallOK DEF Running
  <2>2. /\ target \in [Thread -> Thread \cup {NULL}] /\ inliner \in [Thread -> Thread \cup {NULL}]
        /\ waiting \in [Thread -> Thread \cup {NULL}]
    BY <1>1, CallOK DEF TypeOK
  <2> QED
    BY <1>1, <1>2, <1>3, <2>1, <2>2 DEF JoinsOK, Live
<1>12. Handover
  BY <1>1, <1>2, <1>6, CallOK DEF Handover
<1> QED
  BY <1>1, <1>2, <1>6, <1>7, <1>8, <1>9, <1>10, <1>11, CallOK, <1>12, Assemble DEF Running

(* A flushed thread leaves its place, and takes that of its joiner.           *)
LEMMA JoinInlineFlushedStep == ASSUME IInv, NEW t \in Thread, JoinInlineFlushed(t) PROVE IInv' /\ Handover
<1> DEFINE L == Remove(FlushedRing, t)
           S == FlushedMembers \ {t}
<1>1. phase = "running" /\ pc[current] = "user" /\ t \in Live /\ inliner[t] = NULL
  BY JoiningOK DEF JoinInlineFlushed
<1>2. /\ lastCreated # t /\ lastCreated' = NULL /\ pc[t] = "fresh" /\ func[t]
      /\ func' = FlushedFunc /\ ring' = Replace(L, current, t)
      /\ current' = t /\ pc' = [pc EXCEPT ![current] = "join", ![t] = "user"]
      /\ target' = [target EXCEPT ![current] = t]
      /\ inliner' = [inliner EXCEPT ![t] = current] /\ inlineExec' = inlineExec + 1
      /\ stacks' = WithStackOf(t) /\ stackBase' = [stackBase EXCEPT ![t] = NULL]
      /\ rsp' = [rsp EXCEPT ![t] = "null"]
      /\ UNCHANGED <<phase, waiting, prio, slots, pendingDead>>
  BY DEF JoinInlineFlushed, InlineRun, Unelected
<1>3. t # current /\ t \in FlushedMembers
  BY <1>1, <1>2, CallOK DEF FlushedMembers
<1>4. ~Alone(FlushedRing, t)
  BY <1>1, <1>3, CallOK, AloneCycle
<1>5. L \in Links(Thread) /\ Cycle(L, S)
  BY <1>1, <1>3, <1>4, CallOK, RemoveCycle
<1>6. S \in SUBSET Thread /\ current \in S /\ t \in Thread \ S
  BY <1>1, <1>3, CallOK
<1> HIDE DEF L, S
<1>7. ring' \in Links(Thread) /\ Cycle(ring', (S \ {current}) \cup {t})
  BY <1>2, <1>5, <1>6, ReplaceCycle
<1>8. Live' = Live /\ Members' = (S \ {current}) \cup {t}
  BY <1>1, <1>2, <1>3, CallOK DEF Live, Members, InRing, FlushedMembers, S
<1>9. Parted(stacks', stackBase', Live', pendingDead') /\ stackBase' \in Bases
  <2>1. stackBase' \in Bases
    BY <1>1, <1>2, CallOK DEF Bases
  <2> QED
    BY <1>1, <1>2, <1>8, <2>1, CallOK, PartedFree DEF WithStackOf
<1>10. InlineOK' /\ inlineExec' \in Nat
  BY <1>1, <1>2, CallOK, InlineStarts DEF Running
<1>11. TypeOK'
  BY <1>1, <1>2, <1>7, <1>9, <1>10, CallOK, Constants
     DEF TypeOK, Links, NULL, Pc, Parted, ArenaOK, Stack, Bases
<1>12. SlotsOK' /\ Cycle(ring, Members)'
  BY <1>1, <1>2, <1>7, <1>8, CallOK DEF Running, SlotsOK
<1>13. LastOK' /\ FramesOK' /\ ResumedOK'
  BY <1>1, <1>2, <1>3, CallOK DEF Running, LastOK, FramesOK, ResumedOK, Bases
<1>14. JoinsOK'
  <2>1. \A u \in Thread \ {t} : rsp'[u] = rsp[u] /\ inliner'[u] = inliner[u]
    BY <1>1, <1>2, CallOK DEF TypeOK
  <2>2. \A u \in Thread \ {t, current} : pc'[u] = pc[u] /\ target'[u] = target[u]
    BY <1>1, <1>2, CallOK DEF TypeOK
  <2>3. /\ pc'[current] = "join" /\ target'[current] = t /\ pc'[t] = "user" /\ inliner'[t] = current
        /\ waiting' = waiting /\ current' = t
    BY <1>1, <1>2, <1>3, CallOK DEF TypeOK
  <2>4. JoinsOK /\ waiting \in [Thread -> Thread \cup {NULL}] /\ inliner \in [Thread -> Thread \cup {NULL}]
    BY <1>1, CallOK DEF TypeOK, Running
  <2>5. ASSUME NEW u \in Thread, waiting'[u] # NULL, pc'[u] \notin {"free", "done"}
        PROVE  /\ pc'[waiting'[u]] = "join" /\ target'[waiting'[u]] = u
               /\ waiting'[u] # current' /\ rsp'[waiting'[u]] = "saved"
    <3>1. pc[u] \notin {"free", "done"} /\ waiting[u] \in Thread
      BY <1>1, <1>2, <2>2, <2>3, <2>4, <2>5
    <3>2. waiting[u] \in Thread \ {t, current} /\ pc[waiting[u]] = "join"
          /\ target[waiting[u]] = u /\ rsp[waiting[u]] = "saved"
      BY <1>1, <1>2, <2>3, <2>4, <2>5, <3>1 DEF JoinsOK
    <3> QED
      BY <2>1, <2>2, <2>3, <3>2
  <2>6. ASSUME NEW u \in Thread, inliner'[u] # NULL
        PROVE  /\ pc'[u] \notin {"free", "done"}
               /\ pc'[inliner'[u]] = "join" /\ target'[inliner'[u]] = u /\ inliner'[u] # current'
    <3>1. CASE u = t
      BY <1>3, <2>3, <3>1
    <3>2. CASE u # t
      <4>1. inliner[u] \in Thread /\ inliner'[u] = inliner[u]
        BY <2>1, <2>4, <2>6, <3>2
      <4>2. /\ pc[u] \notin {"free", "done"} /\ pc[inliner[u]] = "join" /\ target[inliner[u]] = u
            /\ inliner[u] \in Thread \ {t, current}
        BY <1>1, <1>2, <2>4, <2>6, <4>1 DEF JoinsOK
      <4> QED
        BY <2>2, <2>3, <3>2, <4>1, <4>2
    <3> QED
      BY <3>1, <3>2
  <2> QED
    BY <2>5, <2>6 DEF JoinsOK
<1>15. Running' /\ phase' = "running"
  BY <1>1, <1>2, <1>10, <1>12, <1>13, <1>14 DEF Running
<1>16. Handover
  BY <1>1, <1>2, <1>3, <1>8, CallOK DEF Handover, Bases
<1> QED
  BY <1>9, <1>11, <1>15, <1>16, Assemble

(* A join that finds nobody ready returns -1, and the client stops.           *)
LEMMA JoinWaitFailsStep == ASSUME ClientAsserts, IInv, NEW t \in Thread, JoinWaitFails(t) PROVE IInv'
<1>1. phase = "running" /\ pc[current] = "user"
  BY JoiningOK DEF JoinWaitFails, Waited
<1>2. /\ waiting' = [waiting EXCEPT ![t] = current] /\ func' = FlushedFunc /\ lastCreated' = NULL
      /\ ring' = FlushedRing /\ phase' = "asserted"
      /\ UNCHANGED <<current, inlineExec, pc, rsp, target, inliner, stackBase, prio, slots,
                     stacks, pendingDead>>
  BY DEF JoinWaitFails, Waited, Fail
<1>3. TypeOK'
  BY <1>1, <1>2, CallOK DEF TypeOK, Links, NULL, Phase
<1>4. Live' = Live
  BY <1>2 DEF Live
<1> QED
  BY <1>1, <1>2, <1>3, <1>4, CallOK, Assemble

(* A join that blocks: current leaves the list for its predecessor.           *)
LEMMA JoinWaitStep == ASSUME IInv, NEW t \in Thread, JoinWait(t) PROVE IInv' /\ Handover
<1> DEFINE n == PickNext(FlushedRing)
<1>1. phase = "running" /\ pc[current] = "user" /\ ~Alone(FlushedRing, current)
  BY JoiningOK DEF JoinWait, Waited, NobodyReady
<1>2. /\ waiting' = [waiting EXCEPT ![t] = current] /\ func' = FlushedFunc /\ lastCreated' = NULL
      /\ ring' = Remove(FlushedRing, current)
      /\ pc' = [pc EXCEPT ![current] = "join"] /\ target' = [target EXCEPT ![current] = t]
      /\ SwitchTo(n, Saved, stackBase, stacks)
      /\ UNCHANGED <<inlineExec, inliner, prio, slots, pendingDead>>
  BY DEF JoinWait, Waited, WithoutCurrent, ContextSwitch
<1>3. n \in FlushedMembers \ {current}
  BY <1>1, Elected
<1>4. /\ n \in Live /\ n \in Thread /\ pc[n] \in {"fresh", "yield", "woken"}
      /\ Saved[n] = "saved" \/ (Saved[n] = "null" /\ stackBase[n] = NULL)
      /\ Saved \in [Thread -> {"null", "saved", "stale"}]
  BY <1>1, <1>3, CallOK, Electable DEF Saved
<1> HIDE DEF n
<1>5. /\ current' = n /\ rsp' = [Saved EXCEPT ![n] = "stale"]
      /\ rsp' \in [Thread -> {"null", "saved", "stale"}]
      /\ phase' \in {"running", "aborted"}
      /\ stackBase' \in Bases /\ Parted(stacks', stackBase', Live, pendingDead)
      /\ \A u \in Thread \ {n} : stackBase'[u] = stackBase[u]
  BY <1>1, <1>2, <1>4, CallOK, SwitchOK
<1>6. ring' \in Links(Thread) /\ Cycle(ring', FlushedMembers \ {current})
  BY <1>1, <1>2, CallOK, RemoveCycle
<1>7. Live' = Live /\ Members' = FlushedMembers \ {current}
  BY <1>1, <1>2, <1>3, <1>4, <1>5, CallOK DEF Live, Members, InRing, FlushedMembers
<1>8. \A u \in Thread \ {n} : rsp'[u] = IF u = current THEN "saved" ELSE rsp[u]
  BY <1>1, <1>4, <1>5, CallOK DEF Saved
<1>9. TypeOK'
  BY <1>1, <1>2, <1>4, <1>5, <1>6, CallOK, Constants
     DEF TypeOK, Links, NULL, Phase, Pc, Parted, ArenaOK, Stack, Bases
<1>10. SlotsOK' /\ InlineOK' /\ Cycle(ring, Members)'
  BY <1>1, <1>2, <1>6, <1>7, CallOK DEF Running, SlotsOK, InlineOK
<1>11. LastOK' /\ FramesOK' /\ ResumedOK'
  BY <1>1, <1>2, <1>3, <1>4, <1>5, <1>8, CallOK DEF Running, LastOK, FramesOK, ResumedOK, Pc
<1>12. JoinsOK'
  BY <1>1, <1>2, <1>3, <1>4, <1>5, <1>8, CallOK DEF TypeOK, Running, JoinsOK, Pc
<1>13. Handover
  BY <1>1, <1>2, <1>3, <1>4, <1>5, <1>7, CallOK DEF Handover
<1> QED
  BY <1>2, <1>5, <1>7, <1>9, <1>10, <1>11, <1>12, <1>13, Assemble DEF Running

-------------------------------------------------------------------------------
(* The thread that takes the place of current when it exits is blocked on it, *)
(* in thread_join, and outside the list.                                      *)
LEMMA Successor ==
  ASSUME IInv, phase = "running", pc[current] = "user", NEW h \in Thread,
         pc[h] = "join", target[h] = current, h # current,
         current' = h, ring' = Replace(ring, current, h), pc' = [pc EXCEPT ![current] = "done"],
         UNCHANGED <<lastCreated, func, target, slots>>,
         phase' \in {"running", "aborted"},
         \A u \in Thread \ {h} : rsp'[u] = rsp[u] /\ stackBase'[u] = stackBase[u],
         waiting' = waiting, inliner' = [inliner EXCEPT ![current] = NULL]
  PROVE  /\ ring' \in Links(Thread) /\ Live' = Live
         /\ SlotsOK' /\ LastOK' /\ FramesOK' /\ JoinsOK' /\ ResumedOK' /\ Cycle(ring, Members)'
<1>1. h \in Thread \ Members /\ current \in Members /\ Members \in SUBSET Thread /\ Cycle(ring, Members)
  BY CallOK DEF Members, InRing, Running
<1>2. ring' \in Links(Thread) /\ Cycle(ring', (Members \ {current}) \cup {h})
  BY <1>1, CallOK, Types, ReplaceCycle
<1>3. Live' = Live /\ Members' = (Members \ {current}) \cup {h}
  BY CallOK DEF Live, Members, InRing
<1>4. SlotsOK' /\ Cycle(ring, Members)'
  BY <1>2, <1>3, CallOK DEF Running, SlotsOK
<1>5. LastOK' /\ FramesOK' /\ ResumedOK'
  BY CallOK DEF Running, LastOK, FramesOK, ResumedOK
<1>6. JoinsOK'
  BY CallOK DEF TypeOK, Running, JoinsOK
<1> QED
  BY <1>2, <1>3, <1>4, <1>5, <1>6

(* A thread that was run inline gives its place back to the joiner.           *)
LEMMA ExitInlineStep == ASSUME IInv, ExitInline PROVE IInv' /\ Handover
<1> DEFINE h == inliner[current]
<1>1. phase = "running" /\ pc[current] = "user" /\ inliner[current] # NULL
  BY DEF ExitInline, Calling
<1>2. /\ pc' = [pc EXCEPT ![current] = "done"] /\ inliner' = [inliner EXCEPT ![current] = NULL]
      /\ inlineExec' = inlineExec - 1 /\ ring' = Replace(ring, current, h) /\ current' = h
      /\ UNCHANGED <<phase, lastCreated, rsp, func, waiting, target, stackBase, prio, uf,
                     slots, stacks, pendingDead>>
  BY DEF ExitInline
<1>3. h \in Thread /\ pc[h] = "join" /\ target[h] = current /\ h # current
  BY <1>1, CallOK DEF Running, JoinsOK, TypeOK
<1> HIDE DEF h
<1>4. /\ ring' \in Links(Thread) /\ Live' = Live
      /\ SlotsOK' /\ LastOK' /\ FramesOK' /\ JoinsOK' /\ ResumedOK' /\ Cycle(ring, Members)'
  BY <1>1, <1>2, <1>3, Successor
<1>5. InlineOK' /\ inlineExec' \in Nat
  BY <1>1, <1>2, CallOK, InlineEnds DEF Running
<1>6. TypeOK'
  BY <1>1, <1>2, <1>3, <1>4, <1>5, CallOK, Constants DEF TypeOK, Links, NULL, Pc
<1>7. Parted(stacks', stackBase', Live', pendingDead')
  BY <1>1, <1>2, <1>4, CallOK
<1>8. Handover
  BY <1>1, <1>2, <1>3, <1>4, CallOK DEF Handover, Live
<1> QED
  BY <1>1, <1>2, <1>4, <1>5, <1>6, <1>7, <1>8, Assemble DEF Running

(* A thread gives its place to the joiner that is blocked on it.              *)
LEMMA ExitToWaiterStep == ASSUME IInv, ExitToWaiter PROVE IInv' /\ Handover
<1> DEFINE w == waiting[current]
<1>1. phase = "running" /\ pc[current] = "user" /\ inliner[current] = NULL /\ w # NULL
  BY DEF ExitToWaiter, Exiting, Calling, HasJoiner
<1>2. /\ pc' = [pc EXCEPT ![current] = "done"] /\ ring' = Replace(ring, current, w)
      /\ SwitchTo(w, rsp, stackBase, stacks)
      /\ UNCHANGED <<lastCreated, inlineExec, func, waiting, target, inliner, prio, uf, slots,
                     pendingDead>>
  BY DEF ExitToWaiter
<1>3. /\ w \in Thread /\ pc[w] = "join" /\ target[w] = current /\ w # current
      /\ rsp[w] = "saved" /\ w \in Live
  <2>1. current \in Thread /\ waiting \in [Thread -> Thread \cup {NULL}] /\ JoinsOK
    BY <1>1, CallOK DEF Running, TypeOK
  <2>2. w \in Thread
    BY <1>1, <2>1
  <2>3. pc[w] = "join" /\ target[w] = current /\ w # current /\ rsp[w] = "saved"
    BY <1>1, <2>1, <2>2 DEF JoinsOK
  <2> QED
    BY <2>2, <2>3 DEF Live
<1> HIDE DEF w
<1>4. /\ current' = w /\ rsp' = [rsp EXCEPT ![w] = "stale"]
      /\ rsp' \in [Thread -> {"null", "saved", "stale"}]
      /\ phase' \in {"running", "aborted"}
      /\ stackBase' \in Bases /\ Parted(stacks', stackBase', Live, pendingDead)
      /\ \A u \in Thread \ {w} : stackBase'[u] = stackBase[u]
  BY <1>1, <1>2, <1>3, CallOK, SwitchOK
<1>5. \A u \in Thread \ {w} : rsp'[u] = rsp[u] /\ stackBase'[u] = stackBase[u]
  BY <1>1, <1>3, <1>4, CallOK
<1>6. inliner' = [inliner EXCEPT ![current] = NULL]
  BY <1>1, <1>2, CallOK DEF TypeOK
<1>7. /\ ring' \in Links(Thread) /\ Live' = Live
      /\ SlotsOK' /\ LastOK' /\ FramesOK' /\ JoinsOK' /\ ResumedOK' /\ Cycle(ring, Members)'
  BY <1>1, <1>2, <1>3, <1>4, <1>5, <1>6, Successor
<1>8. TypeOK'
  BY <1>1, <1>2, <1>3, <1>4, <1>7, CallOK, Constants
     DEF TypeOK, Links, NULL, Pc, Phase, Parted, ArenaOK, Stack, Bases
<1>9. InlineOK'
  BY <1>1, <1>2, CallOK DEF Running, InlineOK
<1>10. Handover
  BY <1>1, <1>2, <1>3, <1>4, <1>7, CallOK DEF Handover
<1> QED
  BY <1>2, <1>4, <1>7, <1>8, <1>9, <1>10, Assemble DEF Running

(* The last thread ends the process.                                          *)
LEMMA ExitLastStep == ASSUME IInv, ExitLast PROVE IInv'
<1>1. phase = "running" /\ pc[current] = "user"
  BY DEF ExitLast, ExitUnjoined, Exiting, Calling
<1>2. /\ pc' = [pc EXCEPT ![current] = "done"] /\ func' = [FlushedFunc EXCEPT ![current] = FALSE]
      /\ lastCreated' = NULL /\ ring' = FlushedRing /\ phase' = "exited" /\ current' = NULL
      /\ UNCHANGED <<inlineExec, rsp, waiting, target, inliner, stackBase, prio, uf, slots,
                     stacks, pendingDead>>
  BY DEF ExitLast, ExitUnjoined
<1>3. Live' = Live
  BY <1>1, <1>2, CallOK DEF Live
<1>4. TypeOK'
  BY <1>1, <1>2, CallOK, Constants DEF TypeOK, Links, NULL, Pc, Phase
<1> QED
  BY <1>1, <1>2, <1>3, <1>4, CallOK, Assemble

(* main returns, and the list is emptied.                                     *)
LEMMA MainReturnsStep == ASSUME IInv, MainReturns PROVE IInv'
<1>1. phase = "running" /\ pc[current] = "user"
  BY DEF MainReturns, Calling
<1>2. /\ phase' = "returned" /\ current' = NULL /\ ring' = Drained
      /\ UNCHANGED <<lastCreated, inlineExec, pc, rsp, func, waiting, target, inliner,
                     stackBase, prio, uf, slots, stacks, pendingDead>>
  BY DEF MainReturns
<1>3. Drained \in Links(Thread)
  BY <1>1, CallOK, Types DEF Drained, Links
<1>4. TypeOK' /\ Live' = Live
  BY <1>1, <1>2, <1>3, CallOK, Constants DEF TypeOK, Links, NULL, Phase, Live
<1> QED
  BY <1>1, <1>2, <1>4, CallOK, Assemble

(* A thread exits unjoined: its stack is pending and the previous one free.   *)
LEMMA ExitSwitchesStep == ASSUME IInv, ExitSwitches PROVE IInv' /\ Handover
<1> DEFINE n == PickNext(FlushedRing)
           bases == [stackBase EXCEPT ![current] = NULL]
           dead == stackBase[current]
<1>1. /\ phase = "running" /\ pc[current] = "user" /\ inliner[current] = NULL
      /\ ~Alone(FlushedRing, current)
  BY DEF ExitSwitches, ExitUnjoined, Exiting, Calling, NobodyReady
<1>2. /\ pc' = [pc EXCEPT ![current] = "done"] /\ func' = [FlushedFunc EXCEPT ![current] = FALSE]
      /\ lastCreated' = NULL /\ ring' = Remove(FlushedRing, current) /\ pendingDead' = dead
      /\ SwitchTo(n, rsp, bases, PoolAtExit)
      /\ UNCHANGED <<inlineExec, waiting, target, inliner, prio, uf, slots>>
  BY DEF ExitSwitches, ExitUnjoined, WithoutCurrent
<1>3. n \in FlushedMembers \ {current}
  BY <1>1, Elected
<1>4. /\ bases \in Bases /\ dead \in Stack \cup {NULL}
      /\ \A u \in Thread \ {current} : bases[u] = stackBase[u]
  BY <1>1, CallOK DEF Bases
<1>5. /\ n \in Live /\ n \in Thread /\ pc[n] \in {"fresh", "yield", "woken"}
      /\ rsp[n] = "saved" \/ (rsp[n] = "null" /\ bases[n] = NULL)
  BY <1>1, <1>3, <1>4, CallOK, Electable
<1>6. Parted(PoolAtExit, bases, Live, dead)
  <2>1. Parted(PoolAtExit, stackBase, Live, NULL)
    BY <1>1, CallOK, PartedRelease DEF PoolAtExit
  <2> QED
    BY <1>1, <2>1, CallOK, PartedPend
<1> HIDE DEF n, bases, dead
<1>7. /\ current' = n /\ rsp' = [rsp EXCEPT ![n] = "stale"]
      /\ rsp' \in [Thread -> {"null", "saved", "stale"}]
      /\ phase' \in {"running", "aborted"}
      /\ stackBase' \in Bases /\ Parted(stacks', stackBase', Live, dead)
      /\ \A u \in Thread \ {n} : stackBase'[u] = bases[u]
  BY <1>1, <1>2, <1>4, <1>5, <1>6, CallOK, SwitchOK
<1>8. ring' \in Links(Thread) /\ Cycle(ring', FlushedMembers \ {current})
  BY <1>1, <1>2, CallOK, RemoveCycle
<1>9. Live' = Live /\ Members' = FlushedMembers \ {current}
  BY <1>1, <1>2, <1>3, <1>5, <1>7, CallOK DEF Live, Members, InRing, FlushedMembers
<1>10. \A u \in Thread \ {n} : rsp'[u] = rsp[u]
  BY <1>1, <1>5, <1>7, CallOK
<1>11. TypeOK'
  BY <1>1, <1>2, <1>4, <1>5, <1>7, <1>8, CallOK, Constants
     DEF TypeOK, Links, NULL, Phase, Pc, Parted, ArenaOK, Stack, Bases
<1>12. SlotsOK' /\ InlineOK' /\ Cycle(ring, Members)'
  BY <1>1, <1>2, <1>8, <1>9, CallOK DEF Running, SlotsOK, InlineOK
<1>13. LastOK' /\ FramesOK' /\ ResumedOK'
  BY <1>1, <1>2, <1>3, <1>4, <1>5, <1>7, <1>10, CallOK DEF Running, LastOK, FramesOK, ResumedOK, Pc
<1>14. JoinsOK'
  BY <1>1, <1>2, <1>3, <1>5, <1>7, <1>10, CallOK DEF TypeOK, Running, JoinsOK, Pc
<1>15. Handover
  BY <1>1, <1>2, <1>3, <1>5, <1>7, <1>9, CallOK DEF Handover, dead
<1> QED
  BY <1>2, <1>7, <1>9, <1>11, <1>12, <1>13, <1>14, <1>15, Assemble DEF Running

-------------------------------------------------------------------------------
(* IInv is inductive.                                                         *)
LEMMA StepOK ==
  ASSUME ClientAsserts, IInv, [Next \/ Ended]_vars
  PROVE  IInv'
<1>1. CASE Create
  BY <1>1, CreateStep
<1>2. CASE Operate
  <2>1. CASE CreateFails
    BY <2>1, CreateFailsStep
  <2>2. CASE \E t \in Thread, p \in PriorityMin - 1 .. PriorityMax + 1 : SetPriority(t, p)
    BY <2>2, SetPriorityStep
  <2>3. CASE YieldKeeps
    BY <2>3, YieldKeepsStep
  <2>4. CASE YieldSwitches
    BY <2>4, YieldSwitchesStep
  <2>5. ASSUME NEW t \in Thread, Join(t) PROVE IInv'
    BY <2>5, JoinFinishedStep, JoinDeadlockStep, JoinInlineLastStep, JoinInlineFlushedStep,
       JoinWaitStep, JoinWaitFailsStep DEF Join
  <2>6. CASE Resume
    BY <2>6, YieldReturnStep, ThreadEntryStep, JoinReturnStep DEF Resume
  <2>7. CASE YieldDisabled
    <3>1. UNCHANGED phase /\ UNCHANGED Parts /\ prio' = prio
      BY <2>7 DEF YieldDisabled, vars, Parts
    <3> QED
      BY <3>1, PartsOK DEF IInv, TypeOK
  <2> QED
    BY <1>2, <2>1, <2>2, <2>3, <2>4, <2>5, <2>6, <2>7 DEF Operate
<1>3. CASE Finish
  BY <1>3, ExitInlineStep, ExitToWaiterStep, ExitLastStep, ExitSwitchesStep, MainReturnsStep
     DEF Finish, Exit
<1>4. CASE UNCHANGED vars
  <2>1. UNCHANGED phase /\ UNCHANGED Parts /\ prio' = prio
    BY <1>4 DEF vars, Parts
  <2> QED
    BY <2>1, PartsOK DEF IInv, TypeOK
<1> QED
  BY <1>1, <1>2, <1>3, <1>4 DEF Next, Ended

(* For a client that stops at the first -1, the invariant holds in every      *)
(* reachable state.                                                           *)
THEOREM Invariance ==
  ASSUME ClientAsserts
  PROVE  Spec => []IInv
<1>1. Init => IInv
  BY InitOK
<1>2. IInv /\ [Next \/ Ended]_vars => IInv'
  BY StepOK
<1> QED
  BY <1>1, <1>2, PTL DEF Spec

(* Every variable holds what its C counterpart can, for ever.                 *)
THEOREM TypeCorrect ==
  ASSUME ClientAsserts
  PROVE  Spec => []TypeOK
<1>1. IInv => TypeOK
  BY DEF IInv
<1> QED
  BY <1>1, Invariance, PTL

(* scheduler.h:6-7: the list is one cycle of the running and the ready        *)
(* threads, whatever the number of threads and the order of their calls.      *)
THEOREM RingCorrect ==
  ASSUME ClientAsserts
  PROVE  Spec => []RingOK
<1>1. IInv => RingOK
  BY DEF IInv, Running, RingOK
<1> QED
  BY <1>1, Invariance, PTL

(* No stack of the arena is lost, handed out twice or shared.                 *)
THEOREM StacksCorrect ==
  ASSUME ClientAsserts
  PROVE  Spec => []StackPartition
<1>1. IInv => StackPartition
  BY DEF IInv
<1> QED
  BY <1>1, Invariance, PTL

(* Every switch finds a saved frame or makes a stack.                         *)
THEOREM SwitchesCorrect ==
  ASSUME ClientAsserts
  PROVE  Spec => []SwitchTargetValid
<1>1. IInv => SwitchTargetValid
  BY DEF IInv, SwitchTargetValid
<1> QED
  BY <1>1, Invariance, PTL

(* A thread comes back from thread_join only when its target has finished.    *)
THEOREM JoinsCorrect ==
  ASSUME ClientAsserts
  PROVE  Spec => []JoinAwaitsFinish
<1>1. IInv => JoinAwaitsFinish
  BY DEF IInv, Running, ResumedOK, JoinAwaitsFinish
<1> QED
  BY <1>1, Invariance, PTL

(* thread.c:23-28: the stack a thread exits on is not the one of the thread   *)
(* it switches to.                                                            *)
THEOREM ExitStackCorrect ==
  ASSUME ClientAsserts
  PROVE  Spec => ExitStackNotReused
<1> DEFINE Kept == \A t \in Thread :
              t = current /\ stackBase[t] # NULL /\ current' \notin {t, NULL}
                => stackBase'[current'] # stackBase[t]
<1>1. IInv /\ IInv' /\ [Next \/ Ended]_vars => [Kept]_vars
  <2> SUFFICES ASSUME IInv, IInv', Next \/ Ended, current \in Thread, stackBase[current] # NULL,
                      current' \notin {current, NULL}
               PROVE  stackBase'[current'] # stackBase[current]
    OBVIOUS
  <2>1. Handover
    <3>1. YieldSwitches \/ (\E t \in Thread : JoinInlineLast(t) \/ JoinInlineFlushed(t) \/ JoinWait(t))
            \/ ExitInline \/ ExitToWaiter \/ ExitSwitches
      BY DEF Next, Ended, vars, Create, Operate, CreateFails, SetPriority, YieldDisabled, YieldKeeps,
             Join, JoinFinished, JoinDeadlock, JoinWaitFails, Cleanup, Resume, YieldReturn,
             ThreadEntry, JoinReturn, Finish, Exit, ExitLast, MainReturns
    <3> QED
      BY <3>1, YieldSwitchesStep, JoinInlineLastStep, JoinInlineFlushedStep, JoinWaitStep,
         ExitInlineStep, ExitToWaiterStep, ExitSwitchesStep
  <2> QED
    BY <2>1 DEF Handover, IInv, StackPartition
<1> QED
  BY <1>1, Invariance, PTL DEF Spec, ExitStackNotReused

(* Whatever is ready can be elected: flush_last_created has brought the newest *)
(* thread into the list.                                                      *)
LEMMA ReadyElectable ==
  ASSUME IInv, phase = "running", pc[current] = "user", NEW t \in Thread, Ready(t)
  PROVE  t \in FlushedMembers \ {current}
<1>1. t # current /\ (pc[t] = "fresh" => func[t] \/ t = lastCreated)
  BY CallOK DEF Ready, Running, LastOK
<1> QED
  BY <1>1, CallOK DEF Ready, FlushedMembers

(* -DUSE_PRIORITY: no thread that is ready when another is elected, the one   *)
(* just created included, has a higher priority than it.                      *)
THEOREM ElectionCorrect ==
  ASSUME UsePriority, ClientAsserts
  PROVE  Spec => PriorityElection
<1> DEFINE Best == current' \notin {current, NULL} /\ Ready(current') /\ pc'[current'] = pc[current']
                     => \A t \in Thread : Ready(t) => prio[t] <= prio[current']
<1>1. IInv /\ [Next \/ Ended]_vars => [Best]_vars
  <2> SUFFICES ASSUME IInv, Next \/ Ended, current' \notin {current, NULL},
                      Ready(current'), pc'[current'] = pc[current'], NEW u \in Thread, Ready(u)
               PROVE  prio[u] <= prio[current']
    OBVIOUS
  <2>1. \/ YieldSwitches \/ (\E t \in Thread : JoinWait(t)) \/ ExitSwitches
        \/ (\E t \in Thread : JoinInlineLast(t) \/ JoinInlineFlushed(t))
        \/ ExitInline \/ ExitToWaiter
    BY DEF Next, Ended, vars, Create, Operate, CreateFails, SetPriority, YieldDisabled, YieldKeeps,
           Join, JoinFinished, JoinDeadlock, JoinWaitFails, Cleanup, Resume, YieldReturn,
           ThreadEntry, JoinReturn, Finish, Exit, ExitLast, MainReturns
  <2>2. /\ phase = "running" /\ pc[current] = "user"
        /\ current' \in {PickNext(FlushedRing), YieldNext(FlushedRing)} /\ ~Alone(FlushedRing, current)
    <3>1. phase = "running" /\ pc[current] = "user"
      BY <2>1 DEF YieldSwitches, JoinWait, Waited, Accepted, Joining, ExitSwitches, ExitUnjoined, Exiting,
                  JoinInlineLast, JoinInlineFlushed, ExitInline, ExitToWaiter, Calling
    <3>2. ASSUME NEW t \in Thread, JoinInlineLast(t) \/ JoinInlineFlushed(t) PROVE FALSE
      <4>1. current' = t /\ pc' = [pc EXCEPT ![current] = "join", ![t] = "user"]
        BY <3>2 DEF JoinInlineLast, JoinInlineFlushed, InlineRun
      <4> QED
        BY <3>1, <4>1, CallOK DEF Ready
    <3>3. ASSUME ExitInline \/ ExitToWaiter PROVE FALSE
      <4>1. /\ current' = inliner[current] \/ (current' = waiting[current] /\ waiting[current] # NULL)
            /\ current' = inliner[current] => inliner[current] # NULL
        BY <3>3 DEF ExitInline, ExitToWaiter, HasJoiner, SwitchTo, Load
      <4>2. pc[current'] = "join"
        BY <3>1, <4>1, CallOK DEF Running, JoinsOK
      <4> QED
        BY <4>2 DEF Ready
    <3> QED
      BY <2>1, <3>1, <3>2, <3>3
         DEF YieldSwitches, JoinWait, ExitSwitches, ExitUnjoined, ContextSwitch, SwitchTo, Load, NobodyReady, Keeps
  <2> QED
    BY <2>2, Elected, ReadyElectable
<1> QED
  BY <1>1, Invariance, PTL DEF Spec, PriorityElection

-------------------------------------------------------------------------------
(* A thread that has finished keeps its stack only while the joiner it hands  *)
(* over to is about to release it; and a process that aborts has no stack     *)
(* left, none of them with a thread that has finished.                        *)
NoneKept == \A t \in Thread : pc[t] = "done" => stackBase[t] = NULL

StacksHeld ==
  /\ phase = "running" =>
       \A t \in Thread : pc[t] = "done" /\ stackBase[t] # NULL =>
         pc[current] = "join" /\ target[current] = t
  /\ phase = "aborted" => Exhausted(stacks, StackCap) /\ NoneKept

(* When the arena is exhausted every stack but the pending one has a holder,  *)
(* and no two of them the same.                                               *)
LEMMA FullArena ==
  ASSUME NEW pool, NEW bases \in Bases, NEW live \in SUBSET Thread,
         NEW pend \in Stack \cup {NULL}, Parted(pool, bases, live, pend),
         Exhausted(pool, StackCap)
  PROVE  Cardinality({t \in live : bases[t] # NULL}) >= StackCap - 1
<1> DEFINE H == {t \in live : bases[t] # NULL}
           I == {bases[t] : t \in H}
           f == [t \in H |-> bases[t]]
<1>1. HandedOut(pool) = Stack
  <2>1. /\ pool.free = <<>> /\ pool.next >= StackCap /\ pool.next \in 0 .. StackCap
        /\ StackCap \in Nat
    BY Constants DEF Parted, ArenaOK, Exhausted
  <2>2. pool.next = StackCap
    BY <2>1
  <2>3. DOMAIN pool.free = {}
    BY <2>1, EmptySeq
  <2> QED
    BY <2>2, <2>3 DEF HandedOut, Stack
<1>2. Stack = ({bases[t] : t \in live} \cup {pend}) \ {NULL}
  BY <1>1 DEF Parted
<1>3. Stack \ {pend} \in SUBSET I /\ IsFiniteSet(H)
  BY <1>2, Constants, FS_Subset
<1>4. f \in Surjection(H, I)
  BY DEF Surjection
<1> HIDE DEF H, I, f
<1>5. /\ IsFiniteSet(I) /\ Cardinality(I) <= Cardinality(H)
      /\ Cardinality(Stack \ {pend}) <= Cardinality(I)
  BY <1>3, <1>4, FS_Surjection, FS_Subset
<1>6. IsFiniteSet(Stack) /\ Cardinality(Stack) = StackCap
  <2>1. StackCap \in Nat /\ Stack = 1 .. StackCap
    BY Constants
  <2>2. IsFiniteSet(Stack) /\ Cardinality(Stack) = IF 1 > StackCap THEN 0 ELSE StackCap - 1 + 1
    BY <2>1, FS_Interval
  <2> QED
    BY <2>1, <2>2
<1>7. Cardinality(Stack \ {pend}) >= StackCap - 1
  <2>1. Cardinality(Stack \ {pend}) = IF pend \in Stack THEN Cardinality(Stack) - 1
                                                       ELSE Cardinality(Stack)
    BY <1>6, FS_RemoveElement
  <2> QED
    BY <1>6, <2>1, Constants
<1>8. /\ Cardinality(H) \in Nat /\ Cardinality(I) \in Nat /\ Cardinality(Stack \ {pend}) \in Nat
      /\ StackCap \in Nat
  BY <1>3, <1>5, <1>6, Constants, FS_CardinalityType, FS_RemoveElement
<1>9. Cardinality(H) >= StackCap - 1
  BY <1>5, <1>7, <1>8
<1> QED
  BY <1>9 DEF H

(* A switch to a thread that has not finished gives nobody else a stack, and  *)
(* aborts only when the pool has none, which then stays as it is.             *)
LEMMA LoadHolds ==
  ASSUME NEW t \in Thread, NEW rsps, NEW bases \in Bases, NEW pool,
         phase = "running", Load(t, rsps, bases, pool)
  PROVE  /\ \A u \in Thread \ {t} : stackBase'[u] = bases[u]
         /\ phase' = "aborted" =>
              /\ Full(t, rsps, pool) /\ rsps[t] = "null"
              /\ PoolAfter(t, rsps, pool) = pool /\ Exhausted(pool, StackCap)
BY DEF Load, Full, Taken, PoolAfter, Bases

(* The steps of a thread that does not come back from thread_join, unless it  *)
(* exits: nobody finishes, and nobody who has finished is given a stack.      *)
LEMMA QuietHolds ==
  ASSUME StacksHeld, phase = "running", pc[current] # "join",
         \A u \in Thread : pc'[u] = "done" => pc[u] = "done" /\ stackBase'[u] = stackBase[u],
         phase' = "aborted" => Exhausted(stacks', StackCap)
  PROVE  StacksHeld'
<1>1. \A u \in Thread : pc[u] = "done" => stackBase[u] = NULL
  BY DEF StacksHeld
<1>2. NoneKept'
  BY <1>1 DEF NoneKept
<1> QED
  BY <1>2 DEF StacksHeld, NoneKept

(* The switches of a call that keeps every stack.                             *)
LEMMA ElectionHolds ==
  ASSUME IInv, StacksHeld, phase = "running", pc[current] = "user", NEW place,
         NEW t \in FlushedMembers \ {current}, NEW rsps, place # "done",
         Load(t, rsps, stackBase, stacks), pc' = [pc EXCEPT ![current] = place],
         Full(t, rsps, stacks) => stacks' = PoolAfter(t, rsps, stacks)
  PROVE  StacksHeld'
<1>1. t \in Thread /\ pc[t] # "done" /\ current \in Thread /\ pc \in [Thread -> Pc]
  BY CallOK, Electable
<1>2. /\ \A u \in Thread \ {t} : stackBase'[u] = stackBase[u]
      /\ phase' = "aborted" => Exhausted(stacks', StackCap)
  <2>1. /\ \A u \in Thread \ {t} : stackBase'[u] = stackBase[u]
        /\ phase' = "aborted" =>
             Full(t, rsps, stacks) /\ PoolAfter(t, rsps, stacks) = stacks /\ Exhausted(stacks, StackCap)
    <3>1. stackBase \in Bases
      BY CallOK
    <3> QED
      BY <1>1, <3>1 DEF Load, Full, Taken, PoolAfter, Bases
  <2> QED
    BY <2>1
<1>3. \A u \in Thread : pc'[u] = "done" => pc[u] = "done" /\ stackBase'[u] = stackBase[u]
  BY <1>1, <1>2
<1> QED
  BY <1>2, <1>3, QuietHolds

LEMMA YieldSwitchesHolds == ASSUME IInv, StacksHeld, YieldSwitches PROVE StacksHeld'
<1> DEFINE t == YieldNext(FlushedRing)
<1>1. /\ phase = "running" /\ pc[current] = "user" /\ ~Alone(FlushedRing, current)
      /\ pc' = [pc EXCEPT ![current] = "yield"] /\ Load(t, Saved, stackBase, stacks)
      /\ Full(t, Saved, stacks) => stacks' = PoolAfter(t, Saved, stacks)
  BY DEF YieldSwitches, Calling, Keeps, NobodyReady
<1>2. t \in FlushedMembers \ {current}
  BY <1>1, Elected
<1> HIDE DEF t
<1> QED
  BY <1>1, <1>2, ElectionHolds

LEMMA JoinWaitHolds ==
  ASSUME IInv, StacksHeld, NEW t \in Thread, JoinWait(t) PROVE StacksHeld'
<1>1. /\ phase = "running" /\ pc[current] = "user" /\ ~Alone(FlushedRing, current)
      /\ pc' = [pc EXCEPT ![current] = "join"]
      /\ Load(PickNext(FlushedRing), Saved, stackBase, stacks)
      /\ stacks' = PoolAfter(PickNext(FlushedRing), Saved, stacks)
  BY JoiningOK DEF JoinWait, Waited, NobodyReady, ContextSwitch, SwitchTo
<1>2. PickNext(FlushedRing) \in FlushedMembers \ {current}
  BY <1>1, Elected
<1> QED
  BY <1>1, <1>2, ElectionHolds

(* The calls that neither exit nor switch by election.                        *)
LEMMA CallHolds ==
  ASSUME IInv, StacksHeld,
         \/ Create \/ CreateFails \/ YieldDisabled \/ YieldKeeps
         \/ \E t \in Thread, p \in PriorityMin - 1 .. PriorityMax + 1 : SetPriority(t, p)
         \/ \E t \in Thread : \/ JoinFinished(t) \/ JoinDeadlock(t) \/ JoinWaitFails(t)
                              \/ JoinInlineLast(t) \/ JoinInlineFlushed(t)
  PROVE  StacksHeld'
<1>1. phase = "running" /\ pc[current] = "user"
  BY JoiningOK DEF Create, CreateFails, YieldDisabled, YieldKeeps, SetPriority, JoinFinished,
     JoinDeadlock, JoinWaitFails, Waited, JoinInlineLast, JoinInlineFlushed, Joining, Calling
<1>2. phase' # "aborted"
  BY <1>1 DEF Create, CreateFails, YieldDisabled, YieldKeeps, SetPriority, JoinFinished, Cleanup,
     JoinDeadlock, JoinWaitFails, JoinInlineLast, JoinInlineFlushed, Fail, vars
<1>3. current \in Thread /\ pc \in [Thread -> Pc] /\ stackBase \in Bases
  BY <1>1, CallOK
<1>4. \A u \in Thread : pc'[u] = "done" => pc[u] = "done" /\ stackBase'[u] = stackBase[u]
  <2>1. CASE Create
    BY <1>3, <2>1 DEF Create, Bases
  <2>2. CASE UNCHANGED <<pc, stackBase>>
    BY <2>2
  <2>3. ASSUME NEW t \in Thread,
               JoinFinished(t) \/ JoinInlineLast(t) \/ JoinInlineFlushed(t)
        PROVE  \A u \in Thread : pc'[u] = "done" => pc[u] = "done" /\ stackBase'[u] = stackBase[u]
    BY <1>3, <2>3 DEF JoinFinished, Cleanup, JoinInlineLast, JoinInlineFlushed, InlineRun, Bases
  <2> QED
    BY <2>1, <2>2, <2>3
       DEF CreateFails, YieldDisabled, YieldKeeps, SetPriority, JoinDeadlock, JoinWaitFails, vars
<1> QED
  BY <1>1, <1>2, <1>4, QuietHolds

(* A thread goes on after a switch; after thread_join it releases the stack   *)
(* of the thread it has waited for.                                           *)
LEMMA ResumeHolds == ASSUME IInv, StacksHeld, Resume PROVE StacksHeld'
<1>1. phase = "running" /\ phase' = "running"
  BY DEF Resume, YieldReturn, ThreadEntry, JoinReturn, Resumed, Cleanup
<1>2. current \in Thread /\ pc \in [Thread -> Pc]
  BY <1>1, Types DEF IInv, TypeOK
<1>3. CASE YieldReturn \/ ThreadEntry
  <2>1. pc[current] # "join"
    BY <1>3 DEF YieldReturn, ThreadEntry, Resumed
  <2>2. \A u \in Thread : pc'[u] = "done" => pc[u] = "done" /\ stackBase'[u] = stackBase[u]
    BY <1>2, <1>3 DEF YieldReturn, ThreadEntry
  <2> QED
    BY <1>1, <2>1, <2>2, QuietHolds
<1>4. CASE JoinReturn
  <2> DEFINE t == target[current]
  <2>1. /\ pc[current] = "join" /\ t \in Thread /\ t # current /\ pc[t] = "done"
        /\ pc' = [pc EXCEPT ![t] = "free", ![current] = "user"] /\ stackBase' = stackBase
    BY <1>1, <1>4 DEF JoinReturn, Resumed, Cleanup, IInv, Running, ResumedOK
  <2>2. NoneKept'
    BY <1>1, <1>2, <2>1 DEF StacksHeld, NoneKept
  <2> QED
    BY <1>1, <2>2 DEF StacksHeld, NoneKept
<1> QED
  BY <1>3, <1>4 DEF Resume

(* A thread exits: to its joiner, which will release its stack; to another    *)
(* thread, its stack pending; or with the process.                            *)
LEMMA FinishHolds == ASSUME IInv, StacksHeld, Finish PROVE StacksHeld'
<1>1. phase = "running" /\ pc[current] = "user"
  BY DEF Finish, Exit, ExitInline, ExitToWaiter, ExitLast, ExitSwitches, ExitUnjoined, Exiting,
     MainReturns, Calling
<1>2. /\ current \in Thread /\ pc \in [Thread -> Pc] /\ stackBase \in Bases
      /\ target \in [Thread -> Thread \cup {NULL}]
      /\ rsp \in [Thread -> {"null", "saved", "stale"}] /\ JoinsOK
  BY <1>1, CallOK DEF TypeOK, Running
<1>3. \A u \in Thread : pc[u] = "done" => stackBase[u] = NULL
  BY <1>1 DEF StacksHeld
<1>4. CASE ExitInline
  <2> DEFINE h == inliner[current]
  <2>1. h \in Thread /\ pc[h] = "join" /\ target[h] = current /\ h # current
    BY <1>1, <1>2, <1>4, CallOK DEF ExitInline, JoinsOK, TypeOK
  <2>2. /\ phase' = "running" /\ current' = h /\ pc' = [pc EXCEPT ![current] = "done"]
        /\ target' = target /\ stackBase' = stackBase
    BY <1>1, <1>4 DEF ExitInline
  <2> QED
    BY <1>2, <1>3, <2>1, <2>2 DEF StacksHeld
<1>5. CASE ExitToWaiter
  <2> DEFINE w == waiting[current]
  <2>1. /\ w \in Thread /\ pc[w] = "join" /\ target[w] = current /\ w # current
        /\ rsp[w] = "saved"
    <3>1. waiting[current] # NULL /\ waiting \in [Thread -> Thread \cup {NULL}]
      BY <1>1, <1>5, CallOK DEF ExitToWaiter, HasJoiner, TypeOK
    <3> QED
      BY <1>1, <1>2, <3>1 DEF JoinsOK
  <2>2. /\ SwitchTo(w, rsp, stackBase, stacks) /\ pc' = [pc EXCEPT ![current] = "done"]
        /\ target' = target
    BY <1>5 DEF ExitToWaiter
  <2>3. phase' # "aborted" /\ current' = w /\ \A u \in Thread \ {w} : stackBase'[u] = stackBase[u]
    <3>1. current' = w
      BY <2>2 DEF SwitchTo, Load
    <3> QED
      BY <1>1, <1>2, <2>1, <2>2, <3>1, LoadHolds DEF SwitchTo
  <2> QED
    BY <1>2, <1>3, <2>1, <2>2, <2>3 DEF StacksHeld
<1>6. CASE ExitSwitches
  <2> DEFINE n == PickNext(FlushedRing)
             bases == [stackBase EXCEPT ![current] = NULL]
  <2>1. /\ ~Alone(FlushedRing, current) /\ SwitchTo(n, rsp, bases, PoolAtExit)
        /\ pc' = [pc EXCEPT ![current] = "done"]
    BY <1>6 DEF ExitSwitches, ExitUnjoined, NobodyReady
  <2>2. n \in FlushedMembers \ {current}
    BY <1>1, <2>1, Elected
  <2>3. n \in Thread /\ pc[n] # "done" /\ n # current /\ bases \in Bases
    BY <1>1, <1>2, <2>2, CallOK, Electable DEF Bases
  <2>4. \A u \in Thread : u # current => bases[u] = stackBase[u]
    BY <1>2 DEF Bases
  <2>5. bases[current] = NULL
    BY <1>2 DEF Bases
  <2> HIDE DEF n, bases
  <2>6. /\ \A u \in Thread \ {n} : stackBase'[u] = bases[u]
        /\ phase' = "aborted" => Exhausted(stacks', StackCap)
    <3>1. Load(n, rsp, bases, PoolAtExit) /\ stacks' = PoolAfter(n, rsp, PoolAtExit)
      BY <2>1 DEF SwitchTo
    <3>2. /\ \A u \in Thread \ {n} : stackBase'[u] = bases[u]
          /\ phase' = "aborted" => /\ PoolAfter(n, rsp, PoolAtExit) = PoolAtExit
                                   /\ Exhausted(PoolAtExit, StackCap)
      BY <1>1, <2>3, <3>1, LoadHolds
    <3> QED
      BY <3>1, <3>2
  <2>7. NoneKept'
    BY <1>2, <1>3, <2>1, <2>3, <2>4, <2>5, <2>6 DEF NoneKept
  <2> QED
    BY <2>6, <2>7 DEF StacksHeld, NoneKept
<1>7. CASE ExitLast \/ MainReturns
  <2>1. phase' \in {"exited", "returned"}
    BY <1>7 DEF ExitLast, MainReturns
  <2> QED
    BY <2>1 DEF StacksHeld
<1> QED
  BY <1>4, <1>5, <1>6, <1>7 DEF Finish, Exit

(* abort is called only when every stack but the pending one belongs to a     *)
(* thread that has not finished: no finished thread, joined or not, and no    *)
(* inline run withholds one.                                                  *)
THEOREM AbortsCorrect ==
  ASSUME ClientAsserts
  PROVE  Spec => []AbortOnlyWhenFull
<1>1. Init => StacksHeld
  BY DEF Init, StacksHeld
<1>2. IInv /\ StacksHeld /\ [Next \/ Ended]_vars => StacksHeld'
  <2> SUFFICES ASSUME IInv, StacksHeld, [Next \/ Ended]_vars PROVE StacksHeld'
    OBVIOUS
  <2>1. CASE UNCHANGED vars
    BY <2>1 DEF vars, StacksHeld, NoneKept
  <2>2. CASE Next
    BY <2>2, CallHolds, YieldSwitchesHolds, JoinWaitHolds, ResumeHolds, FinishHolds
       DEF Next, Operate, Join
  <2> QED
    BY <2>1, <2>2 DEF Ended
<1>3. IInv /\ StacksHeld => AbortOnlyWhenFull
  <2> SUFFICES ASSUME IInv, StacksHeld, phase = "aborted" PROVE AbortOnlyWhenFull
    BY DEF AbortOnlyWhenFull
  <2>1. /\ Parted(stacks, stackBase, Live, pendingDead) /\ stackBase \in Bases
        /\ Live \in SUBSET Thread /\ pendingDead \in Stack \cup {NULL}
    BY Types DEF IInv, TypeOK, Live
  <2>2. Cardinality({t \in Live : stackBase[t] # NULL}) >= StackCap - 1
    BY <2>1, FullArena DEF StacksHeld
  <2>3. {t \in Live : stackBase[t] # NULL}
          = {t \in Thread : pc[t] \notin {"free", "done"} /\ stackBase[t] # NULL}
    BY DEF StacksHeld, NoneKept, Live
  <2> QED
    BY <2>2, <2>3 DEF AbortOnlyWhenFull
<1> QED
  BY <1>1, <1>2, <1>3, Invariance, PTL DEF Spec

-------------------------------------------------------------------------------
(* The forest of the deadlock detection.  thread_create cuts a descriptor off *)
(* when it is used again; a join halves paths and links roots.                *)
ForestOK == uf = [parent |-> uf.parent, rank |-> uf.rank] /\ Forest(Thread, uf.parent)

LEMMA ForestInit == Init => ForestOK
<1> SUFFICES ASSUME Init PROVE ForestOK
  OBVIOUS
<1> DEFINE p == [x \in Thread |-> x]
           d == [x \in Thread |-> 0]
<1>1. uf = [parent |-> p, rank |-> [x \in Thread |-> 0]]
  BY DEF Init, UfInit
<1>2. p \in [Thread -> Thread] /\ Descends(Thread, p, d)
  BY DEF Descends
<1>3. uf.parent = p /\ uf = [parent |-> uf.parent, rank |-> uf.rank]
  BY <1>1
<1> QED
  BY <1>2, <1>3 DEF ForestOK, Forest

(* The verdict on a join, in terms of the trees.                              *)
LEMMA VerdictOK ==
  ASSUME IInv, ForestOK, phase = "running", NEW t \in Thread, NEW V, V = Verdict(t)
  PROVE  /\ V.uf = [parent |-> V.uf.parent, rank |-> V.uf.rank] /\ Forest(Thread, V.uf.parent)
         /\ \A c : Roots(Thread, uf.parent, c) =>
              /\ V.ok <=> c[current] # c[t]
              /\ ~V.ok => Roots(Thread, V.uf.parent, c) /\ V.uf.rank = uf.rank
              /\ V.ok => \/ Unites(Thread, uf, V.uf, c, c[current], c[t])
                         \/ Unites(Thread, uf, V.uf, c, c[t], c[current])
              /\ V.ok => \E m : /\ Roots(Thread, V.uf.parent, m)
                                /\ Merges(Thread, c, m, c[current], c[t])
<1>1. current \in Thread
  BY Types DEF IInv
<1>2. /\ IsFiniteSet(Thread) /\ V = UfUnion(uf, current, t)
      /\ uf = [parent |-> uf.parent, rank |-> uf.rank] /\ Forest(Thread, uf.parent)
  BY Constants DEF Verdict, ForestOK
<1>3. /\ V.uf = [parent |-> V.uf.parent, rank |-> V.uf.rank] /\ Forest(Thread, V.uf.parent)
      /\ \A c : Roots(Thread, uf.parent, c) =>
           /\ V.ok <=> c[current] # c[t]
           /\ ~V.ok => Roots(Thread, V.uf.parent, c) /\ V.uf.rank = uf.rank
           /\ V.ok => \/ Unites(Thread, uf, V.uf, c, c[current], c[t])
                      \/ Unites(Thread, uf, V.uf, c, c[t], c[current])
  BY <1>1, <1>2, UnionOK
<1>4. ASSUME NEW c, Roots(Thread, uf.parent, c), V.ok
      PROVE  \E m : Roots(Thread, V.uf.parent, m) /\ Merges(Thread, c, m, c[current], c[t])
  <2>1. ASSUME Unites(Thread, uf, V.uf, c, c[current], c[t])
        PROVE  \E m : Roots(Thread, V.uf.parent, m) /\ Merges(Thread, c, m, c[current], c[t])
    BY <2>1, MovedMerges DEF Unites
  <2>2. ASSUME Unites(Thread, uf, V.uf, c, c[t], c[current])
        PROVE  \E m : Roots(Thread, V.uf.parent, m) /\ Merges(Thread, c, m, c[current], c[t])
    BY <2>2, MovedMerges DEF Unites
  <2> QED
    BY <1>3, <1>4, <2>1, <2>2
<1> QED
  BY <1>3, <1>4

(* The calls that write in the forest.                                        *)
LEMMA UfWriters ==
  ASSUME [Next \/ Ended]_vars
  PROVE  \/ uf' = uf
         \/ Create
         \/ \E t \in Thread : phase = "running" /\ uf' = Verdict(t).uf
<1>1. CASE Finish
  BY <1>1 DEF Finish, Exit, ExitInline, ExitToWaiter, ExitLast, ExitSwitches, MainReturns
<1>2. CASE Resume
  BY <1>2 DEF Resume, YieldReturn, ThreadEntry, JoinReturn, Cleanup
<1>3. ASSUME NEW t \in Thread, Join(t)
      PROVE  uf' = uf \/ (phase = "running" /\ uf' = Verdict(t).uf)
  BY <1>3 DEF Join, JoinFinished, Cleanup, JoinDeadlock, JoinInlineLast, JoinInlineFlushed,
              JoinWait, JoinWaitFails, Waited, Accepted, Joining, Calling
<1>4. CASE UNCHANGED vars
  BY <1>4 DEF vars
<1> QED
  BY <1>1, <1>2, <1>3, <1>4
     DEF Next, Ended, Operate, CreateFails, SetPriority, YieldDisabled, YieldKeeps, YieldSwitches, vars

LEMMA ForestStep == ASSUME IInv, ForestOK, [Next \/ Ended]_vars PROVE ForestOK'
<1>1. CASE uf' = uf
  BY <1>1 DEF ForestOK
<1>2. CASE Create
  <2>1. Alloc(slots) \in Thread
    BY <1>2, Constants, AllocArena DEF Create, Calling, IInv, Running, SlotsOK
  <2>2. uf' = UfReset(uf, Alloc(slots))
    BY <1>2 DEF Create
  <2>3. Forest(Thread, uf'.parent)
    BY <2>1, <2>2, ResetOK DEF ForestOK
  <2>4. uf' = [parent |-> uf'.parent, rank |-> uf'.rank]
    BY <2>2 DEF UfReset
  <2> QED
    BY <2>3, <2>4 DEF ForestOK
<1>3. ASSUME NEW t \in Thread, phase = "running", uf' = Verdict(t).uf PROVE ForestOK'
  <2> DEFINE V == Verdict(t)
  <2>1. V.uf = [parent |-> V.uf.parent, rank |-> V.uf.rank] /\ Forest(Thread, V.uf.parent)
    BY <1>3, VerdictOK
  <2> QED
    BY <1>3, <2>1 DEF ForestOK
<1> QED
  BY <1>1, <1>2, <1>3, UfWriters

(* uf_find ends, although descriptors are used again under it.                *)
THEOREM FindsEnd ==
  ASSUME ClientAsserts
  PROVE  Spec => []FindTerminates
<1>1. ForestOK => FindTerminates
  <2> SUFFICES ASSUME ForestOK, NEW t \in Thread
               PROVE  \E k \in 0 .. ThreadCap :
                        uf.parent[Iterate(uf.parent, t)[k]] = Iterate(uf.parent, t)[k]
    BY DEF FindTerminates
  <2>1. Cardinality(Thread) = ThreadCap /\ ThreadCap \in Nat
    <3>1. Cardinality(1 .. ThreadCap) = IF 1 > ThreadCap THEN 0 ELSE ThreadCap - 1 + 1
      BY CapAssumption, FS_Interval
    <3> QED
      BY <3>1, CapAssumption DEF Thread
  <2> QED
    BY <2>1, Constants, RootReached DEF ForestOK
<1> QED
  BY <1>1, ForestInit, ForestStep, Invariance, PTL DEF Spec

-------------------------------------------------------------------------------
(* Chains of joins.  Whoever waits for nobody, or only for one who is done,   *)
(* is ahead of the others.                                                    *)
Ahead(t) == pc[t] \notin {"free", "done"} /\ (pc[t] = "join" => pc[target[t]] = "done")

(* Whoever joins is known to its target, which nobody else joins, and goes on *)
(* at once when that has finished.                                            *)
JoinersOK ==
  /\ \A t \in Thread : pc[t] = "join" =>
       /\ target[t] \in Thread /\ pc[target[t]] # "free"
       /\ IF pc[target[t]] = "done" THEN t = current
          ELSE waiting[target[t]] = t \/ inliner[target[t]] = t
  /\ \A t, u \in Thread : pc[t] = "join" /\ pc[u] = "join" /\ target[t] = target[u] => t = u
  /\ \A t \in Thread : pc[t] \notin {"parked", "woken"} /\ (pc[t] = "user" => t = current)

(* When descriptors are not used again, a tree of the forest, with roots c,   *)
(* is a chain of joins, in which the level e goes down towards the one thread *)
(* that is ahead; a descriptor that was never used is alone.                  *)
TreesOK(c, e) ==
  /\ Roots(Thread, uf.parent, c) /\ e \in [Thread -> Nat]
  /\ \A t \in Thread : pc[t] = "join" => c[target[t]] = c[t] /\ e[target[t]] < e[t]
  /\ \A t, u \in Thread : Ahead(t) /\ Ahead(u) /\ c[t] = c[u] => t = u
  /\ \A t, u \in Thread : slots.next < t /\ c[t] = c[u] => t = u

ChainsOK == JoinersOK /\ \E c, e : TreesOK(c, e)

(* The running thread is ahead of all those in its tree.                      *)
LEMMA CurrentAhead ==
  ASSUME IInv, phase = "running", pc[current] = "user"
  PROVE  Ahead(current) /\ current \in Thread
BY CallOK DEF Ahead

(* A descriptor that was never used is free.                                  *)
LEMMA NeverUsed ==
  ASSUME IInv, phase = "running", NEW t \in Thread, slots.next < t
  PROVE  pc[t] = "free"
<1>1. slots.next \in Nat /\ t \in Nat /\ t \notin HandedOut(slots)
  BY Constants DEF IInv, TypeOK, HandedOut
<1> QED
  BY <1>1 DEF IInv, Running, SlotsOK, Live

LEMMA ChainsInit == Init => ChainsOK
<1> SUFFICES ASSUME Init PROVE ChainsOK
  OBVIOUS
<1> DEFINE c == [x \in Thread |-> x]
           e == [x \in Thread |-> 0]
<1>1. \A t \in Thread : pc[t] = IF t = Main THEN "user" ELSE "free"
  BY DEF Init
<1>2. JoinersOK
  BY <1>1 DEF Init, JoinersOK
<1>3. Roots(Thread, uf.parent, c)
  BY DEF Init, UfInit, Roots
<1>4. TreesOK(c, e)
  BY <1>1, <1>3 DEF TreesOK, Ahead
<1> QED
  BY <1>2, <1>4 DEF ChainsOK

(* The calls that only move the running thread from one place to another, and *)
(* perhaps elect another.                                                     *)
LEMMA PlaceChains ==
  ASSUME IInv, ChainsOK, phase = "running", pc[current] \in {"user", "yield", "fresh"},
         NEW place \in {"user", "yield"}, pc' = [pc EXCEPT ![current] = place],
         place = "user" => current' = current,
         UNCHANGED <<target, waiting, inliner, uf, slots>>
  PROVE  ChainsOK'
<1>1. current \in Thread /\ pc \in [Thread -> Pc]
  BY Types DEF IInv, TypeOK
<1>2. /\ pc'[current] = place /\ \A t \in Thread \ {current} : pc'[t] = pc[t]
      /\ pc[current] \notin {"free", "done", "join"} /\ place \notin {"free", "done", "join"}
  BY <1>1
<1>3. JoinersOK'
  BY <1>1, <1>2 DEF ChainsOK, JoinersOK
<1>4. PICK c, e : TreesOK(c, e)
  BY DEF ChainsOK
<1>5. \A t \in Thread : Ahead(t)' <=> Ahead(t)
  BY <1>1, <1>2 DEF Ahead, ChainsOK, JoinersOK
<1>6. TreesOK(c, e)'
  BY <1>1, <1>2, <1>4, <1>5 DEF TreesOK
<1> QED
  BY <1>3, <1>6 DEF ChainsOK

(* The calls that do not touch what chains are made of.                       *)
LEMMA StillChains ==
  ASSUME ChainsOK, UNCHANGED <<current, pc, target, waiting, inliner, uf, slots>>
  PROVE  ChainsOK'
<1>1. PICK c, e : TreesOK(c, e)
  BY DEF ChainsOK
<1>2. JoinersOK'
  BY DEF ChainsOK, JoinersOK
<1>3. TreesOK(c, e)'
  BY <1>1 DEF TreesOK, Ahead
<1> QED
  BY <1>2, <1>3 DEF ChainsOK

(* A refused join halves paths.                                               *)
LEMMA RefusedChains ==
  ASSUME IInv, ForestOK, ChainsOK, NEW t \in Thread, JoinDeadlock(t) PROVE ChainsOK'
<1>1. /\ phase = "running" /\ ~Verdict(t).ok /\ uf' = Verdict(t).uf
      /\ UNCHANGED <<current, pc, target, waiting, inliner, slots>>
  BY DEF JoinDeadlock, Joining, Calling
<1>2. PICK c, e : TreesOK(c, e)
  BY DEF ChainsOK
<1>3. Roots(Thread, uf'.parent, c)
  <2> DEFINE V == Verdict(t)
  <2>1. Roots(Thread, uf.parent, c) /\ ~V.ok /\ uf' = V.uf
    BY <1>1, <1>2 DEF TreesOK
  <2>2. ~V.ok => Roots(Thread, V.uf.parent, c)
    BY <1>1, <2>1, VerdictOK
  <2> QED
    BY <2>1, <2>2
<1>4. JoinersOK'
  BY <1>1 DEF ChainsOK, JoinersOK
<1>5. \A u \in Thread : Ahead(u)' <=> Ahead(u)
  BY <1>1 DEF Ahead
<1>6. TreesOK(c, e)'
  BY <1>1, <1>2, <1>3, <1>5 DEF TreesOK
<1> QED
  BY <1>4, <1>6 DEF ChainsOK

(* A new descriptor was alone in the forest, and still is.                    *)
LEMMA CreateChains == ASSUME IInv, ForestOK, ChainsOK, ~ClientRecycles, Create PROVE ChainsOK'
<1> DEFINE t == Alloc(slots)
<1>1. /\ phase = "running" /\ slots.free = <<>> /\ ~Exhausted(slots, ThreadCap)
      /\ slots' = AfterAlloc(slots) /\ pc' = [pc EXCEPT ![t] = "fresh"]
      /\ waiting' = [waiting EXCEPT ![t] = NULL] /\ inliner' = [inliner EXCEPT ![t] = NULL]
      /\ uf' = UfReset(uf, t) /\ UNCHANGED <<current, target>>
  BY DEF Create, Calling
<1>2. /\ t \in Thread /\ current \in Thread /\ pc \in [Thread -> Pc]
      /\ slots.next \in Nat /\ t = slots.next + 1
      /\ slots \in [free : Seq(Thread), next : 0 .. ThreadCap]
      /\ waiting \in [Thread -> Thread \cup {NULL}] /\ inliner \in [Thread -> Thread \cup {NULL}]
  <2>1. /\ current \in Thread /\ pc \in [Thread -> Pc]
        /\ slots \in [free : Seq(Thread), next : 0 .. ThreadCap]
        /\ waiting \in [Thread -> Thread \cup {NULL}] /\ inliner \in [Thread -> Thread \cup {NULL}]
    BY <1>1, Types DEF IInv, TypeOK
  <2>2. ArenaOK(slots, ThreadCap)
    BY <1>1 DEF IInv, Running, SlotsOK
  <2>3. t \in Thread
    BY <1>1, <2>2, Constants, AllocArena
  <2>4. slots.next \in Nat /\ t = slots.next + 1
    BY <1>1, <2>1, Constants DEF Alloc
  <2> QED
    BY <2>1, <2>3, <2>4
<1>3. slots'.next = t /\ slots.next < t
  BY <1>1, <1>2 DEF AfterAlloc
<1> HIDE DEF t
<1>4. pc[t] = "free"
  BY <1>1, <1>2, <1>3, NeverUsed
<1>5. /\ pc'[t] = "fresh" /\ \A u \in Thread \ {t} :
           pc'[u] = pc[u] /\ waiting'[u] = waiting[u] /\ inliner'[u] = inliner[u]
  BY <1>1, <1>2
<1>6. PICK c, e : TreesOK(c, e)
  BY DEF ChainsOK
<1>7. \A u \in Thread : c[u] = c[t] => u = t
  BY <1>2, <1>3, <1>6 DEF TreesOK
<1>8. Roots(Thread, uf'.parent, c)
  <2>1. c[t] = t /\ uf.parent[t] = t
    <3>1. c[t] \in Thread /\ uf.parent[c[t]] = c[t] /\ c[c[t]] = c[t]
      BY <1>2, <1>6 DEF TreesOK, Roots
    <3> QED
      BY <1>7, <3>1
  <2>2. uf'.parent = [uf.parent EXCEPT ![t] = t]
    BY <1>1 DEF UfReset
  <2>3. uf.parent \in [Thread -> Thread]
    BY DEF ForestOK, Forest
  <2>4. uf'.parent = uf.parent
    BY <2>1, <2>2, <2>3
  <2> QED
    BY <1>6, <2>4 DEF TreesOK
<1>9. \A u \in Thread : pc[u] = "join" => u # t /\ target[u] \in Thread \ {t}
  BY <1>4 DEF ChainsOK, JoinersOK
<1>10. \A u \in Thread : pc'[u] = "join" <=> pc[u] = "join"
  BY <1>4, <1>5
<1>11. JoinersOK'
  BY <1>1, <1>5, <1>9, <1>10 DEF ChainsOK, JoinersOK
<1>12. \A u \in Thread \ {t} : Ahead(u)' <=> Ahead(u)
  BY <1>1, <1>5, <1>9 DEF Ahead
<1>13. \A u, v \in Thread : Ahead(u)' /\ Ahead(v)' /\ c[u] = c[v] => u = v
  BY <1>6, <1>7, <1>12 DEF TreesOK
<1>14. \A u \in Thread : slots'.next < u => slots.next < u
  BY <1>2, <1>3, Constants
<1>15. TreesOK(c, e)'
  BY <1>1, <1>6, <1>8, <1>9, <1>10, <1>13, <1>14 DEF TreesOK
<1> QED
  BY <1>11, <1>15 DEF ChainsOK

(* The end of thread_join: the thread that has finished leaves its tree.      *)
LEMMA CleanupChains ==
  ASSUME IInv, ChainsOK, phase = "running", NEW t \in Thread, pc[t] = "done", Cleanup(t),
         \A u \in Thread : pc[u] = "join" => (u = current <=> target[u] = t),
         pc[current] \in {"user", "join"}
  PROVE  ChainsOK'
<1>1. /\ current \in Thread /\ pc \in [Thread -> Pc] /\ target \in [Thread -> Thread \cup {NULL}]
      /\ slots \in [free : Seq(Thread), next : 0 .. ThreadCap] /\ t # current
  BY Types DEF IInv, TypeOK
<1>2. /\ pc' = [pc EXCEPT ![t] = "free", ![current] = "user"] /\ slots' = Release(slots, t)
      /\ target' = [target EXCEPT ![current] = NULL]
      /\ UNCHANGED <<current, waiting, inliner, uf>>
  BY DEF Cleanup
<1>3. slots'.next = slots.next
  BY <1>1, <1>2 DEF Release
<1>4. /\ pc'[t] = "free" /\ pc'[current] = "user"
      /\ \A u \in Thread \ {t, current} : pc'[u] = pc[u] /\ target'[u] = target[u]
  BY <1>1, <1>2
<1>5. \A u \in Thread : pc'[u] = "join" =>
        /\ pc[u] = "join" /\ u \notin {t, current} /\ target'[u] = target[u]
        /\ target[u] \in Thread \ {t}
  BY <1>1, <1>4 DEF ChainsOK, JoinersOK
<1>6. \A u \in Thread : u \in Thread \ {t, current} \/ pc'[u] \in {"free", "user"}
  BY <1>4
<1>7. JoinersOK'
  <2>1. ASSUME NEW u \in Thread, pc'[u] = "join"
        PROVE  /\ target'[u] \in Thread /\ pc'[target'[u]] # "free"
               /\ IF pc'[target'[u]] = "done" THEN u = current'
                  ELSE waiting'[target'[u]] = u \/ inliner'[target'[u]] = u
    <3>1. /\ pc[u] = "join" /\ target'[u] = target[u] /\ target[u] \in Thread \ {t}
          /\ pc[target[u]] # "free" /\ u # current
          /\ IF pc[target[u]] = "done" THEN u = current
             ELSE waiting[target[u]] = u \/ inliner[target[u]] = u
      BY <1>5, <2>1 DEF ChainsOK, JoinersOK
    <3>2. pc'[target[u]] \notin {"free", "done"}
      BY <1>4, <3>1
    <3> QED
      BY <1>2, <3>1, <3>2
  <2>2. \A u, v \in Thread : pc'[u] = "join" /\ pc'[v] = "join" /\ target'[u] = target'[v] => u = v
    BY <1>5 DEF ChainsOK, JoinersOK
  <2>3. \A u \in Thread : pc'[u] \notin {"parked", "woken"} /\ (pc'[u] = "user" => u = current')
    BY <1>2, <1>4 DEF ChainsOK, JoinersOK
  <2> QED
    BY <2>1, <2>2, <2>3 DEF JoinersOK
<1>8. PICK c, e : TreesOK(c, e)
  BY DEF ChainsOK
<1>9. Ahead(current)
  BY <1>1 DEF Ahead
<1>10. \A u \in Thread : Ahead(u)' => Ahead(u)
  <2> SUFFICES ASSUME NEW u \in Thread, Ahead(u)' PROVE Ahead(u)
    OBVIOUS
  <2>1. pc'[u] \notin {"free", "done"} /\ (pc'[u] = "join" => pc'[target'[u]] = "done")
    BY DEF Ahead
  <2>2. CASE u = current
    BY <1>9, <2>2
  <2>3. CASE u # current
    <3>1. u # t /\ pc'[u] = pc[u] /\ target'[u] = target[u]
      BY <1>4, <2>1, <2>3
    <3>2. pc[u] = "join" => pc[target[u]] = "done"
      BY <1>4, <1>5, <2>1, <3>1
    <3> QED
      BY <2>1, <3>1, <3>2 DEF Ahead
  <2> QED
    BY <2>2, <2>3
<1>11. TreesOK(c, e)'
  BY <1>2, <1>3, <1>5, <1>8, <1>10 DEF TreesOK
<1> QED
  BY <1>7, <1>11 DEF ChainsOK

(* An accepted join puts the chain of the joiner behind that of its target.   *)
LEMMA AcceptedChains ==
  ASSUME IInv, ForestOK, ChainsOK, NEW t \in Thread, Accepted(t),
         pc'[current] = "join", pc'[t] = pc[t] \/ (pc[t] = "fresh" /\ pc'[t] = "user" /\ current' = t),
         \A u \in Thread \ {current, t} : pc'[u] = pc[u],
         target' = [target EXCEPT ![current] = t],
         waiting'[t] = current \/ inliner'[t] = current,
         \A u \in Thread \ {t} : waiting'[u] = waiting[u] /\ inliner'[u] = inliner[u],
         slots' = slots
  PROVE  ChainsOK'
<1> DEFINE V == Verdict(t)
<1>1. /\ phase = "running" /\ pc[current] = "user" /\ pc[t] \notin {"free", "done"}
      /\ \A w \in Thread : pc[w] = "join" => target[w] # t
      /\ V.ok /\ uf' = V.uf
  BY JoiningOK DEF Accepted, Joining, Joinable
<1>2. /\ current \in Thread /\ pc \in [Thread -> Pc] /\ target \in [Thread -> Thread \cup {NULL}]
      /\ slots.next \in Nat
  BY <1>1, CallOK, Constants DEF TypeOK
<1>3. PICK c, e : TreesOK(c, e)
  BY DEF ChainsOK
<1>4. Roots(Thread, uf.parent, c)
  BY <1>3 DEF TreesOK
<1>5. V.ok <=> c[current] # c[t]
  BY <1>1, <1>4, VerdictOK
<1>6. V.ok => \E m : Roots(Thread, V.uf.parent, m) /\ Merges(Thread, c, m, c[current], c[t])
  BY <1>1, <1>4, VerdictOK
<1>7. PICK m : Roots(Thread, uf'.parent, m) /\ Merges(Thread, c, m, c[current], c[t])
  BY <1>1, <1>6
<1>8. c[current] # c[t] /\ current # t
  BY <1>1, <1>5
<1> HIDE DEF V
<1>9. /\ target'[current] = t /\ \A u \in Thread \ {current} : target'[u] = target[u]
      /\ pc'[t] \notin {"free", "done"}
  BY <1>1, <1>2
<1>10. \A u \in Thread : pc[u] = "join" => u # current /\ pc'[u] = "join" /\ target[u] \in Thread \ {t}
  BY <1>1, <1>8 DEF ChainsOK, JoinersOK
<1>11. \A u \in Thread \ {current} : pc'[u] = "join" => pc[u] = "join"
  BY <1>8
<1>12. \A u \in Thread : (pc'[u] = "done" <=> pc[u] = "done") /\ (pc'[u] = "free" <=> pc[u] = "free")
  BY <1>1, <1>2, <1>9
<1>13. \A u \in Thread : pc[u] = "join" => pc[target[u]] # "done"
  BY <1>1 DEF ChainsOK, JoinersOK
<1>14. JoinersOK'
  <2>1. ASSUME NEW u \in Thread, pc'[u] = "join"
        PROVE  /\ target'[u] \in Thread /\ pc'[target'[u]] \notin {"free", "done"}
               /\ waiting'[target'[u]] = u \/ inliner'[target'[u]] = u
    <3>1. CASE u = current
      BY <1>9, <3>1
    <3>2. CASE u # current
      <4>1. /\ pc[u] = "join" /\ target'[u] = target[u] /\ target[u] \in Thread \ {t}
            /\ pc[target[u]] \notin {"free", "done"}
            /\ waiting[target[u]] = u \/ inliner[target[u]] = u
        BY <1>9, <1>10, <1>11, <1>13, <2>1, <3>2 DEF ChainsOK, JoinersOK
      <4> QED
        BY <1>12, <4>1
    <3> QED
      BY <3>1, <3>2
  <2>2. ASSUME NEW u \in Thread, NEW v \in Thread,
               pc'[u] = "join", pc'[v] = "join", target'[u] = target'[v]
        PROVE  u = v
    <3>1. CASE u = current \/ v = current
      BY <1>9, <1>10, <1>11, <2>2, <3>1
    <3>2. CASE u # current /\ v # current
      BY <1>9, <1>11, <2>2, <3>2 DEF ChainsOK, JoinersOK
    <3> QED
      BY <3>1, <3>2
  <2>3. \A u \in Thread : pc'[u] \notin {"parked", "woken"} /\ (pc'[u] = "user" => u = current')
    BY <1>1, <1>8 DEF ChainsOK, JoinersOK
  <2> QED
    BY <2>1, <2>2, <2>3 DEF JoinersOK
<1>15. ASSUME NEW u \in Thread, Ahead(u)' PROVE u # current /\ Ahead(u)
  <2>1. pc'[u] \notin {"free", "done"} /\ (pc'[u] = "join" => pc'[target'[u]] = "done")
    BY <1>15 DEF Ahead
  <2>2. u # current
    BY <1>9, <1>12, <2>1
  <2>3. pc'[u] # "join"
    BY <1>9, <1>10, <1>11, <1>12, <1>13, <2>1, <2>2
  <2> QED
    BY <1>10, <1>12, <2>1, <2>2, <2>3 DEF Ahead
<1>16. ASSUME NEW u \in Thread, NEW v \in Thread, Ahead(u)', Ahead(v)', m[u] = m[v] PROVE u = v
  <2>1. Ahead(u) /\ Ahead(v) /\ u # current /\ v # current /\ Ahead(current)
    BY <1>1, <1>15, <1>16, CurrentAhead
  <2>2. c[u] # c[current] /\ c[v] # c[current]
    BY <1>2, <1>3, <2>1 DEF TreesOK
  <2>3. c[u] = c[v]
    BY <1>7, <1>16, <2>2 DEF Merges
  <2> QED
    BY <1>3, <2>1, <2>3 DEF TreesOK
<1>17. ASSUME NEW u \in Thread, NEW v \in Thread, slots.next < u, m[u] = m[v] PROVE u = v
  <2>1. pc[u] = "free" /\ u # current /\ u # t
    BY <1>1, <1>17, NeverUsed
  <2>2. c[u] # c[current] /\ c[u] # c[t]
    BY <1>2, <1>3, <1>17, <2>1 DEF TreesOK
  <2>3. c[u] = c[v]
    BY <1>7, <1>17, <2>2 DEF Merges
  <2> QED
    BY <1>3, <1>17, <2>3 DEF TreesOK
<1>18. e \in [Thread -> Nat]
  BY <1>3 DEF TreesOK
<1> PICK f : f = [u \in Thread |-> IF c[u] = c[current] THEN e[u] + e[t] + 1 ELSE e[u]]
  OBVIOUS
<1>19. f \in [Thread -> Nat]
  BY <1>18
<1>20. ASSUME NEW u \in Thread, pc'[u] = "join"
       PROVE  m[target'[u]] = m[u] /\ f[target'[u]] < f[u]
  <2>1. CASE u = current
    <3>1. m[t] = m[current]
      BY <1>2, <1>7 DEF Merges
    <3>2. f[t] = e[t] /\ f[current] = e[current] + e[t] + 1 /\ e[t] \in Nat /\ e[current] \in Nat
      BY <1>2, <1>8, <1>18
    <3>3. f[t] < f[current]
      BY <3>2
    <3> QED
      BY <1>9, <2>1, <3>1, <3>3
  <2>2. CASE u # current
    <3>1. pc[u] = "join" /\ target'[u] = target[u] /\ target[u] \in Thread
      BY <1>9, <1>10, <1>11, <1>20, <2>2
    <3>2. c[target[u]] = c[u] /\ e[target[u]] < e[u]
      BY <1>3, <3>1 DEF TreesOK
    <3>3. m[target[u]] = m[u]
      BY <1>7, <3>1, <3>2 DEF Merges
    <3>4. e[target[u]] \in Nat /\ e[u] \in Nat /\ e[t] \in Nat
      BY <1>18, <3>1
    <3>5. \/ f[target[u]] = e[target[u]] /\ f[u] = e[u]
          \/ f[target[u]] = e[target[u]] + e[t] + 1 /\ f[u] = e[u] + e[t] + 1
      BY <3>1, <3>2
    <3>6. f[target[u]] < f[u]
      BY <3>2, <3>4, <3>5
    <3> QED
      BY <3>1, <3>3, <3>6
  <2> QED
    BY <2>1, <2>2
<1>21. TreesOK(m, f)'
  <2>1. \A u, v \in Thread : slots'.next < u /\ m[u] = m[v] => u = v
    BY <1>17
  <2>2. \A u, v \in Thread : Ahead(u)' /\ Ahead(v)' /\ m[u] = m[v] => u = v
    BY <1>16
  <2> QED
    BY <1>7, <1>19, <1>20, <2>1, <2>2 DEF TreesOK
<1> QED
  BY <1>14, <1>21 DEF ChainsOK

(* A thread that ends gives its place ahead to its joiner.                    *)
LEMMA HandbackChains ==
  ASSUME IInv, ChainsOK, phase = "running", pc[current] = "user", NEW h \in Thread,
         pc[h] = "join", target[h] = current, current' = h,
         pc' = [pc EXCEPT ![current] = "done"],
         \A u \in Thread \ {current} : inliner'[u] = inliner[u],
         UNCHANGED <<target, waiting, uf, slots>>
  PROVE  ChainsOK'
<1>1. current \in Thread /\ pc \in [Thread -> Pc] /\ h # current
  BY CallOK
<1>2. pc'[current] = "done" /\ \A u \in Thread \ {current} : pc'[u] = pc[u]
  BY <1>1
<1>3. \A u \in Thread : pc'[u] = "join" <=> pc[u] = "join"
  BY <1>1, <1>2
<1>4. \A u \in Thread : pc[u] = "join" /\ target[u] = current => u = h
  BY DEF ChainsOK, JoinersOK
<1>5. \A u \in Thread : pc[u] = "join" =>
        /\ target[u] \in Thread /\ pc[target[u]] \notin {"free", "done"} /\ u # current
        /\ waiting[target[u]] = u \/ inliner[target[u]] = u
  BY DEF ChainsOK, JoinersOK
<1>6. JoinersOK'
  <2>1. ASSUME NEW u \in Thread, pc'[u] = "join"
        PROVE  /\ target'[u] \in Thread /\ pc'[target'[u]] # "free"
               /\ IF pc'[target'[u]] = "done" THEN u = current'
                  ELSE waiting'[target'[u]] = u \/ inliner'[target'[u]] = u
    BY <1>2, <1>3, <1>4, <1>5, <2>1
  <2>2. \A u, v \in Thread : pc'[u] = "join" /\ pc'[v] = "join" /\ target'[u] = target'[v] => u = v
    BY <1>3 DEF ChainsOK, JoinersOK
  <2>3. \A u \in Thread : pc'[u] \notin {"parked", "woken"} /\ (pc'[u] = "user" => u = current')
    BY <1>2 DEF ChainsOK, JoinersOK
  <2> QED
    BY <2>1, <2>2, <2>3 DEF JoinersOK
<1>7. PICK c, e : TreesOK(c, e)
  BY DEF ChainsOK
<1>8. Ahead(current) /\ c[h] = c[current]
  BY <1>7, CurrentAhead DEF TreesOK
<1>9. ASSUME NEW u \in Thread, Ahead(u)' PROVE u # current /\ (u = h \/ Ahead(u))
  <2>1. pc'[u] \notin {"free", "done"} /\ (pc'[u] = "join" => pc'[target[u]] = "done")
    BY <1>9 DEF Ahead
  <2>2. u # current /\ pc'[u] = pc[u]
    BY <1>2, <2>1
  <2>3. pc[u] = "join" => u = h
    BY <1>2, <1>4, <1>5, <2>1, <2>2
  <2> QED
    BY <2>1, <2>2, <2>3 DEF Ahead
<1>10. ASSUME NEW u \in Thread, NEW v \in Thread, Ahead(u)', Ahead(v)', c[u] = c[v] PROVE u = v
  <2>1. u # current /\ v # current /\ (u = h \/ Ahead(u)) /\ (v = h \/ Ahead(v))
    BY <1>9, <1>10
  <2>2. \A x, y \in Thread : Ahead(x) /\ Ahead(y) /\ c[x] = c[y] => x = y
    BY <1>7 DEF TreesOK
  <2> QED
    BY <1>1, <1>8, <1>10, <2>1, <2>2
<1>11. TreesOK(c, e)'
  BY <1>3, <1>7, <1>10 DEF TreesOK
<1> QED
  BY <1>6, <1>11 DEF ChainsOK

(* A thread ends that nobody joins.                                           *)
LEMMA UnjoinedChains ==
  ASSUME IInv, ChainsOK, phase = "running", pc[current] = "user",
         waiting[current] = NULL, inliner[current] = NULL,
         pc' = [pc EXCEPT ![current] = "done"],
         UNCHANGED <<target, waiting, inliner, uf, slots>>
  PROVE  /\ ChainsOK'
         /\ \A u \in Thread : pc[u] = "join" => target[u] # current
<1>1. current \in Thread /\ pc \in [Thread -> Pc]
  BY CallOK
<1>2. pc'[current] = "done" /\ \A u \in Thread \ {current} : pc'[u] = pc[u]
  BY <1>1
<1>3. \A u \in Thread : pc[u] = "join" =>
        /\ target[u] \in Thread /\ pc[target[u]] \notin {"free", "done"} /\ u # current
        /\ waiting[target[u]] = u \/ inliner[target[u]] = u
  BY DEF ChainsOK, JoinersOK
<1>4. \A u \in Thread : pc[u] = "join" => target[u] # current
  BY <1>3, Constants
<1>5. \A u \in Thread : pc'[u] = "join" <=> pc[u] = "join"
  BY <1>1, <1>2
<1>6. JoinersOK'
  BY <1>2, <1>3, <1>4, <1>5 DEF ChainsOK, JoinersOK
<1>7. PICK c, e : TreesOK(c, e)
  BY DEF ChainsOK
<1>8. \A u \in Thread : Ahead(u)' => Ahead(u)
  BY <1>2, <1>3, <1>4 DEF Ahead
<1>9. TreesOK(c, e)'
  BY <1>5, <1>7, <1>8 DEF TreesOK
<1> QED
  BY <1>4, <1>6, <1>9 DEF ChainsOK

LEMMA JoinChains ==
  ASSUME IInv, ForestOK, ChainsOK, ClientAsserts, NEW t \in Thread, Join(t), phase' = "running"
  PROVE  ChainsOK'
<1>1. CASE JoinFinished(t)
  <2>1. /\ phase = "running" /\ pc[current] = "user" /\ pc[t] = "done" /\ Cleanup(t)
        /\ \A u \in Thread : pc[u] = "join" => u # current /\ target[u] # t
    BY <1>1 DEF JoinFinished, Joining, Joinable, Calling
  <2> QED
    BY <2>1, CleanupChains
<1>2. CASE JoinDeadlock(t)
  BY <1>2, RefusedChains
<1>3. ASSUME Accepted(t)
      PROVE  current \in Thread /\ t # current /\ pc \in [Thread -> Pc]
             /\ target \in [Thread -> Thread \cup {NULL}]
             /\ inliner \in [Thread -> Thread \cup {NULL}]
             /\ waiting \in [Thread -> Thread \cup {NULL}]
  <2> DEFINE V == Verdict(t)
  <2>1. phase = "running" /\ pc[current] = "user" /\ V.ok
    BY <1>3, JoiningOK DEF Accepted
  <2>2. PICK c, e : TreesOK(c, e)
    BY DEF ChainsOK
  <2>3. Roots(Thread, uf.parent, c)
    BY <2>2 DEF TreesOK
  <2>4. V.ok <=> c[current] # c[t]
    BY <2>1, <2>3, VerdictOK
  <2> HIDE DEF V
  <2> QED
    BY <2>1, <2>4, CallOK DEF TypeOK
<1>4. CASE JoinInlineLast(t) \/ JoinInlineFlushed(t)
  <2>1. /\ Accepted(t) /\ current' = t /\ pc' = [pc EXCEPT ![current] = "join", ![t] = "user"]
        /\ target' = [target EXCEPT ![current] = t] /\ inliner' = [inliner EXCEPT ![t] = current]
        /\ UNCHANGED <<waiting, slots>>
    BY <1>4 DEF JoinInlineLast, JoinInlineFlushed, InlineRun
  <2>2. pc[t] = "fresh"
    BY <1>4, <2>1, JoiningOK, Constants
       DEF JoinInlineLast, JoinInlineFlushed, Unelected, IInv, Running, LastOK
  <2>3. /\ pc'[current] = "join" /\ pc'[t] = "user" /\ \A u \in Thread \ {current, t} : pc'[u] = pc[u]
        /\ inliner'[t] = current /\ \A u \in Thread \ {t} : inliner'[u] = inliner[u]
    BY <1>3, <2>1
  <2> QED
    BY <2>1, <2>2, <2>3, AcceptedChains
<1>5. CASE JoinWait(t)
  <2>1. /\ Accepted(t) /\ pc' = [pc EXCEPT ![current] = "join"]
        /\ target' = [target EXCEPT ![current] = t] /\ waiting' = [waiting EXCEPT ![t] = current]
        /\ UNCHANGED <<inliner, slots>>
    BY <1>5 DEF JoinWait, Waited
  <2>2. /\ pc'[current] = "join" /\ \A u \in Thread \ {current} : pc'[u] = pc[u]
        /\ waiting'[t] = current /\ \A u \in Thread \ {t} : waiting'[u] = waiting[u]
    BY <1>3, <2>1
  <2> QED
    BY <1>3, <2>1, <2>2, AcceptedChains
<1>6. CASE JoinWaitFails(t)
  BY <1>6 DEF JoinWaitFails, Fail
<1> QED
  BY <1>1, <1>2, <1>4, <1>5, <1>6 DEF Join

LEMMA ResumeChains ==
  ASSUME IInv, ChainsOK, Resume PROVE ChainsOK'
<1>1. CASE YieldReturn \/ ThreadEntry
  <2>1. /\ phase = "running" /\ pc[current] \in {"yield", "fresh"} /\ pc' = [pc EXCEPT ![current] = "user"]
        /\ UNCHANGED <<current, target, waiting, inliner, uf, slots>>
    BY <1>1 DEF YieldReturn, ThreadEntry, Resumed
  <2> QED
    BY <2>1, PlaceChains
<1>2. CASE JoinReturn
  <2>1. phase = "running" /\ pc[current] = "join" /\ Cleanup(target[current])
    BY <1>2 DEF JoinReturn, Resumed
  <2>2. /\ current \in Thread /\ target[current] \in Thread /\ pc[target[current]] = "done"
    BY <2>1, Types DEF IInv, Running, ResumedOK
  <2>3. \A u \in Thread : pc[u] = "join" => (u = current <=> target[u] = target[current])
    BY <2>1, <2>2 DEF ChainsOK, JoinersOK
  <2> QED
    BY <2>1, <2>2, <2>3, CleanupChains
<1> QED
  BY <1>1, <1>2 DEF Resume

LEMMA FinishChains ==
  ASSUME IInv, ChainsOK, Finish, phase' = "running" PROVE ChainsOK'
<1>1. phase = "running" /\ pc[current] = "user"
  BY DEF Finish, Exit, ExitInline, ExitToWaiter, ExitLast, ExitSwitches, ExitUnjoined, Exiting,
         MainReturns, Calling
<1>2. /\ current \in Thread /\ pc[current] \notin {"free", "done"}
      /\ inliner \in [Thread -> Thread \cup {NULL}]
      /\ waiting \in [Thread -> Thread \cup {NULL}] /\ JoinsOK
  BY <1>1, CallOK DEF TypeOK, Running
<1>3. CASE ExitInline
  <2>1. /\ inliner[current] # NULL /\ pc' = [pc EXCEPT ![current] = "done"]
        /\ inliner' = [inliner EXCEPT ![current] = NULL] /\ current' = inliner[current]
        /\ UNCHANGED <<target, waiting, uf, slots>>
    BY <1>3 DEF ExitInline
  <2>2. /\ inliner[current] \in Thread /\ pc[inliner[current]] = "join"
        /\ target[inliner[current]] = current
    BY <1>2, <2>1 DEF JoinsOK
  <2>3. \A u \in Thread \ {current} : inliner'[u] = inliner[u]
    BY <1>2, <2>1
  <2> QED
    BY <1>1, <2>1, <2>2, <2>3, HandbackChains
<1>4. CASE ExitToWaiter
  <2>1. /\ waiting[current] # NULL /\ pc' = [pc EXCEPT ![current] = "done"]
        /\ current' = waiting[current] /\ UNCHANGED <<target, waiting, inliner, uf, slots>>
    BY <1>4 DEF ExitToWaiter, HasJoiner, SwitchTo, Load
  <2>2. /\ waiting[current] \in Thread /\ pc[waiting[current]] = "join"
        /\ target[waiting[current]] = current
    BY <1>2, <2>1 DEF JoinsOK
  <2> QED
    BY <1>1, <2>1, <2>2, HandbackChains
<1>5. CASE ExitSwitches
  <2>1. /\ waiting[current] = NULL /\ inliner[current] = NULL
        /\ pc' = [pc EXCEPT ![current] = "done"] /\ UNCHANGED <<target, waiting, inliner, uf, slots>>
    BY <1>5 DEF ExitSwitches, ExitUnjoined, Exiting, HasJoiner
  <2> QED
    BY <1>1, <2>1, UnjoinedChains
<1>6. ~(ExitLast \/ MainReturns)
  BY DEF ExitLast, MainReturns
<1> QED
  BY <1>3, <1>4, <1>5, <1>6 DEF Finish, Exit

LEMMA ChainsStep ==
  ASSUME ClientAsserts, ~ClientRecycles, IInv, ForestOK, ChainsOK, Next, phase' = "running"
  PROVE  ChainsOK'
<1>1. CASE YieldSwitches
  <2>1. /\ phase = "running" /\ pc[current] = "user" /\ pc' = [pc EXCEPT ![current] = "yield"]
        /\ UNCHANGED <<target, waiting, inliner, uf, slots>>
    BY <1>1 DEF YieldSwitches, Calling
  <2> QED
    BY <2>1, PlaceChains
<1>2. CASE \/ CreateFails \/ YieldDisabled \/ YieldKeeps
           \/ \E t \in Thread, p \in PriorityMin - 1 .. PriorityMax + 1 : SetPriority(t, p)
  <2>1. UNCHANGED <<current, pc, target, waiting, inliner, uf, slots>>
    BY <1>2 DEF CreateFails, YieldDisabled, YieldKeeps, SetPriority, vars
  <2> QED
    BY <2>1, StillChains
<1> QED
  BY <1>1, <1>2, CreateChains, JoinChains, ResumeChains, FinishChains DEF Next, Operate

(* The last thread that is ready ends: nobody is left in thread_join, since   *)
(* the end of a chain of joins would be ready.                                *)
LEMMA LastExit == ASSUME IInv, ChainsOK, ExitLast PROVE LastExitLosesNoThread'
<1>1. /\ phase = "running" /\ pc[current] = "user" /\ Alone(FlushedRing, current)
      /\ waiting[current] = NULL /\ inliner[current] = NULL
      /\ pc' = [pc EXCEPT ![current] = "done"]
  BY DEF ExitLast, ExitUnjoined, Exiting, HasJoiner, NobodyReady, Calling
<1>2. /\ current \in Thread /\ pc \in [Thread -> Pc] /\ FlushedMembers \in SUBSET Thread
      /\ FlushedRing \in Links(Thread) /\ Cycle(FlushedRing, FlushedMembers)
      /\ current \in FlushedMembers
  BY <1>1, CallOK
<1>3. FlushedMembers = {current}
  BY <1>1, <1>2, AloneCycle
<1>4. \A t \in Thread : ~Ready(t)
  <2>1. \A t \in Thread : Ready(t) => t \in FlushedMembers \ {current}
    BY <1>1, ReadyElectable
  <2> QED
    BY <1>3, <2>1
<1>5. \A t \in Thread \ {current} : pc[t] \in {"free", "done", "join"}
  BY <1>2, <1>4 DEF Ready, ChainsOK, JoinersOK, Pc
<1>6. ASSUME NEW t \in Thread, pc[t] = "join"
      PROVE  target[t] \in Thread /\ pc[target[t]] = "join"
  <2>1. /\ target[t] \in Thread /\ pc[target[t]] \notin {"free", "done"}
        /\ waiting[target[t]] = t \/ inliner[target[t]] = t
    BY <1>1, <1>6 DEF ChainsOK, JoinersOK
  <2>2. target[t] # current
    BY <1>1, <2>1, Constants
  <2> QED
    BY <1>5, <2>1, <2>2
<1>7. \A t \in Thread : pc[t] # "join"
  <2>1. PICK c, e : TreesOK(c, e)
    BY DEF ChainsOK
  <2> DEFINE T == {e[t] : t \in {u \in Thread : pc[u] = "join"}}
  <2>2. SUFFICES ASSUME T # {} PROVE FALSE
    OBVIOUS
  <2>3. e \in [Thread -> Nat]
    BY <2>1 DEF TreesOK
  <2>4. T \in SUBSET Nat
    BY <2>3
  <2>5. PICK m \in T : \A k \in T : m <= k
    <3> HIDE DEF T
    <3> QED
      BY <2>2, <2>4, Least
  <2>6. PICK t \in Thread : pc[t] = "join" /\ m = e[t]
    BY <2>5
  <2>7. target[t] \in Thread /\ e[target[t]] \in T /\ e[target[t]] < e[t]
    BY <1>6, <2>1, <2>6 DEF TreesOK
  <2>8. e[target[t]] \in Nat /\ e[t] \in Nat /\ e[t] <= e[target[t]]
    BY <2>3, <2>5, <2>6, <2>7
  <2> QED
    BY <2>7, <2>8
<1> QED
  BY <1>1, <1>2, <1>5, <1>7 DEF LastExitLosesNoThread

(* The invariant of a client that does not use descriptors again.             *)
DeadlockInv == (phase = "running" => ChainsOK) /\ LastExitLosesNoThread

LEMMA DeadlockInvariance ==
  ASSUME ClientAsserts, ~ClientRecycles
  PROVE  Spec => [](IInv /\ ForestOK /\ DeadlockInv)
<1>1. Init => DeadlockInv
  BY ChainsInit DEF DeadlockInv, Init, LastExitLosesNoThread
<1>2. IInv /\ ForestOK /\ DeadlockInv /\ [Next \/ Ended]_vars => DeadlockInv'
  <2> SUFFICES ASSUME IInv, ForestOK, DeadlockInv, [Next \/ Ended]_vars PROVE DeadlockInv'
    OBVIOUS
  <2>1. CASE UNCHANGED vars
    <3>1. UNCHANGED <<phase, current, pc, target, waiting, inliner, uf, slots>>
      BY <2>1 DEF vars
    <3>2. LastExitLosesNoThread'
      BY <3>1 DEF DeadlockInv, LastExitLosesNoThread
    <3> QED
      BY <3>1, <3>2, StillChains DEF DeadlockInv
  <2>2. CASE Next
    <3>1. phase = "running"
      BY <2>2 DEF Next, Create, Operate, CreateFails, SetPriority, YieldDisabled, YieldKeeps,
                  YieldSwitches, Join, JoinFinished, JoinDeadlock, JoinInlineLast,
                  JoinInlineFlushed, JoinWait, JoinWaitFails, Waited, Accepted, Joining, Resume,
                  YieldReturn, ThreadEntry, JoinReturn, Resumed, Finish, Exit, ExitInline,
                  ExitToWaiter, ExitLast, ExitSwitches, ExitUnjoined, Exiting, MainReturns, Calling
    <3>2. phase' = "running" => ChainsOK'
      BY <2>2, <3>1, ChainsStep DEF DeadlockInv
    <3>3. phase' = "exited" => ExitLast
      BY <2>2, <3>1 DEF Next, Create, Operate, CreateFails, Fail, SetPriority, YieldDisabled, YieldKeeps,
                  YieldSwitches, ContextSwitch, SwitchTo, Load, Join, JoinFinished, Cleanup, JoinDeadlock,
                  JoinInlineLast, JoinInlineFlushed, JoinWait, JoinWaitFails, Resume,
                  YieldReturn, ThreadEntry, JoinReturn, Finish, Exit, ExitInline,
                  ExitToWaiter, ExitSwitches, MainReturns, vars
    <3>4. LastExitLosesNoThread'
      BY <3>1, <3>3, LastExit DEF DeadlockInv, LastExitLosesNoThread
    <3> QED
      BY <3>2, <3>4 DEF DeadlockInv
  <2> QED
    BY <2>1, <2>2 DEF Ended
<1> QED
  BY <1>1, <1>2, ForestInit, ForestStep, Invariance, PTL DEF Spec

(* Waiting leads from a joiner to its target.                                 *)
LEMMA HopDef ==
  ASSUME NEW t \in Thread, NEW n \in Nat, n = ThreadCap
  PROVE  /\ Iterate(Hop, t)[0] = t
         /\ \A k \in 1 .. n : Iterate(Hop, t)[k] = Hop[Iterate(Hop, t)[k - 1]]
         /\ IsFiniteSet(Thread) /\ Cardinality(Thread) = n
<1>1. IsFiniteSet(Thread) /\ Cardinality(Thread) = n
  <2>1. Cardinality(1 .. ThreadCap) = IF 1 > ThreadCap THEN 0 ELSE ThreadCap - 1 + 1
    BY CapAssumption, FS_Interval
  <2> QED
    BY <2>1, CapAssumption, FS_Interval DEF Thread
<1>2. DOMAIN Hop = Thread \cup {NULL}
  BY DEF Hop
<1>3. Cardinality(DOMAIN Hop) = n + 1
  <2>1. Cardinality(Thread \cup {NULL})
          = IF NULL \in Thread THEN Cardinality(Thread) ELSE Cardinality(Thread) + 1
    BY <1>1, FS_AddElement
  <2> QED
    BY <1>1, <1>2, <2>1, Constants
<1>4. /\ Iterate(Hop, t)[0] = t
      /\ \A k \in 1 .. n + 1 : Iterate(Hop, t)[k] = Hop[Iterate(Hop, t)[k - 1]]
  <2> DEFINE f == Hop
  <2>1. n + 1 \in Nat /\ n + 1 = Cardinality(DOMAIN f)
    BY <1>3
  <2> HIDE DEF f
  <2>2. /\ Iterate(f, t)[0] = t
        /\ \A k \in 1 .. n + 1 : Iterate(f, t)[k] = f[Iterate(f, t)[k - 1]]
    BY <2>1, IterateDef
  <2> QED
    BY <2>2 DEF f
<1> QED
  BY <1>1, <1>4

(* A thread that waits for another is in its tree.                            *)
LEMMA WaitingInTree ==
  ASSUME NEW c, NEW e, TreesOK(c, e), JoinersOK, NEW t \in Thread, NEW u \in Thread, WaitsFor(t, u)
  PROVE  c[t] = c[u]
<1> DEFINE w == Iterate(Hop, t)
           n == ThreadCap
           S == {k \in 0 .. n : w[k] = NULL \/ (w[k] \in Thread /\ c[w[k]] = c[t])}
<1>1. n \in Nat /\ w[0] = t /\ \A k \in 1 .. n : w[k] = Hop[w[k - 1]]
  BY Constants, HopDef
<1> HIDE DEF w
<1>2. 0 \in S /\ 0 \in 0 .. n
  BY <1>1
<1>3. ASSUME NEW k \in 0 + 1 .. n, k - 1 \in S PROVE k \in S
  <2>1. k \in 1 .. n /\ k \in 0 .. n /\ k - 1 \in 0 .. n
    BY <1>1
  <2>2. w[k] = IF w[k - 1] # NULL /\ pc[w[k - 1]] = "join" THEN target[w[k - 1]] ELSE NULL
    BY <1>1, <1>3, <2>1 DEF Hop
  <2>3. CASE w[k - 1] # NULL /\ pc[w[k - 1]] = "join"
    <3>1. w[k - 1] \in Thread /\ c[w[k - 1]] = c[t]
      BY <1>3, <2>3
    <3>2. target[w[k - 1]] \in Thread /\ c[target[w[k - 1]]] = c[w[k - 1]]
      BY <2>3, <3>1 DEF TreesOK, JoinersOK
    <3> QED
      BY <2>1, <2>2, <2>3, <3>1, <3>2
  <2>4. CASE ~(w[k - 1] # NULL /\ pc[w[k - 1]] = "join")
    BY <2>1, <2>2, <2>4
  <2> QED
    BY <2>3, <2>4
<1> HIDE DEF S
<1>4. \A k \in 0 .. n : k \in S
  BY <1>1, <1>2, <1>3, Steps
<1>5. PICK k \in 0 .. n : w[k] = u
  BY DEF WaitsFor, w
<1> QED
  BY <1>4, <1>5, Constants DEF S

(* In the tree of the running thread everybody who has not finished waits for *)
(* it.                                                                        *)
LEMMA TreeWaits ==
  ASSUME IInv, phase = "running", pc[current] = "user", JoinersOK, NEW c, NEW e, TreesOK(c, e),
         NEW t \in Thread, pc[t] \notin {"free", "done"}, c[t] = c[current]
  PROVE  WaitsFor(t, current)
<1> SUFFICES ASSUME ~WaitsFor(t, current) PROVE FALSE
  OBVIOUS
<1> DEFINE w == Iterate(Hop, t)
           n == ThreadCap
           Good(x) == x \in Thread /\ pc[x] \notin {"free", "done"} /\ c[x] = c[current]
           S == {k \in 0 .. n : Good(w[k])}
<1>1. /\ n \in Nat /\ w[0] = t /\ \A k \in 1 .. n : w[k] = Hop[w[k - 1]]
      /\ IsFiniteSet(Thread) /\ Cardinality(Thread) = n
  BY Constants, HopDef
<1>2. \A k \in 0 .. n : w[k] # current
  BY DEF WaitsFor
<1> HIDE DEF w
<1>3. ASSUME NEW x, Good(x), x # current
      PROVE  Good(Hop[x]) /\ e[Hop[x]] < e[x]
  <2>1. ~Ahead(x)
    BY <1>3, CurrentAhead DEF TreesOK
  <2>2. pc[x] = "join" /\ pc[target[x]] # "done"
    BY <1>3, <2>1 DEF Ahead
  <2>3. Hop[x] = target[x]
    BY <1>3, <2>2, Constants DEF Hop
  <2>4. target[x] \in Thread /\ pc[target[x]] # "free" /\ c[target[x]] = c[x] /\ e[target[x]] < e[x]
    BY <1>3, <2>2 DEF TreesOK, JoinersOK
  <2> QED
    BY <1>3, <2>2, <2>3, <2>4
<1>4. 0 \in S /\ 0 \in 0 .. n
  BY <1>1
<1>5. ASSUME NEW k \in 0 + 1 .. n, k - 1 \in S PROVE k \in S
  <2>1. k \in 1 .. n /\ k \in 0 .. n /\ k - 1 \in 0 .. n
    BY <1>1
  <2>2. Good(w[k - 1])
    BY <1>5
  <2> HIDE DEF Good
  <2>3. Good(w[k])
    BY <1>1, <1>2, <1>3, <2>1, <2>2
  <2> QED
    BY <2>1, <2>3
<1> HIDE DEF S
<1>6. \A k \in 0 .. n : k \in S
  BY <1>1, <1>4, <1>5, Steps
<1>7. \A k \in 0 .. n : Good(w[k])
  BY <1>6 DEF S
<1>8. e \in [Thread -> Nat] /\ \A k \in 0 .. n : w[k] \in Thread
  BY <1>7 DEF TreesOK
<1> HIDE DEF Good
<1>9. PICK k \in 1 .. n : ~(e[w[k]] < e[w[k - 1]])
  BY <1>1, <1>8, Descent
<1>10. k - 1 \in 0 .. n /\ w[k] = Hop[w[k - 1]]
  BY <1>1
<1> QED
  BY <1>2, <1>3, <1>7, <1>9, <1>10

(* The verdict is exact.                                                      *)
LEMMA VerdictExact ==
  ASSUME IInv, ForestOK, DeadlockInv, NEW t \in Thread, CouldJoin(t)
  PROVE  Verdict(t).ok <=> ~WaitsFor(t, current)
<1> DEFINE V == Verdict(t)
<1>1. /\ phase = "running" /\ pc[current] = "user" /\ pc[t] \notin {"free", "done"}
  BY DEF CouldJoin, Joinable
<1>2. current \in Thread
  BY <1>1, CallOK
<1>3. JoinersOK /\ \E c, e : TreesOK(c, e)
  BY <1>1 DEF DeadlockInv, ChainsOK
<1>4. PICK c, e : TreesOK(c, e)
  BY <1>3
<1>5. Roots(Thread, uf.parent, c)
  BY <1>4 DEF TreesOK
<1>6. V.ok <=> c[current] # c[t]
  BY <1>1, <1>5, VerdictOK
<1>7. WaitsFor(t, current) => c[t] = c[current]
  BY <1>2, <1>3, <1>4, WaitingInTree
<1>8. c[t] = c[current] => WaitsFor(t, current)
  BY <1>1, <1>3, <1>4, TreeWaits
<1> HIDE DEF V
<1>9. V.ok <=> ~WaitsFor(t, current)
  BY <1>6, <1>7, <1>8
<1> QED
  BY <1>9 DEF V

(* A join that would close a cycle of joins is refused.                       *)
THEOREM CyclesAreRefused ==
  ASSUME ClientAsserts, ~ClientRecycles
  PROVE  Spec => []CycleRefused
<1>1. IInv /\ ForestOK /\ DeadlockInv => CycleRefused
  BY VerdictExact DEF CycleRefused
<1> QED
  BY <1>1, DeadlockInvariance, PTL

(* No other join is.                                                          *)
THEOREM OnlyCyclesAreRefused ==
  ASSUME ClientAsserts, ~ClientRecycles
  PROVE  Spec => []OnlyCycleRefused
<1>1. IInv /\ ForestOK /\ DeadlockInv => OnlyCycleRefused
  BY VerdictExact DEF OnlyCycleRefused
<1> QED
  BY <1>1, DeadlockInvariance, PTL

(* clean_exit finds no thread ready or blocked.                               *)
THEOREM LastExitCorrect ==
  ASSUME ClientAsserts, ~ClientRecycles
  PROVE  Spec => []LastExitLosesNoThread
<1>1. DeadlockInv => LastExitLosesNoThread
  BY DEF DeadlockInv
<1> QED
  BY <1>1, DeadlockInvariance, PTL

-------------------------------------------------------------------------------
(* The ranks of the forest.                                                   *)
RanksOK == \E c : Roots(Thread, uf.parent, c) /\ Weighs(Thread, uf.rank, c)

LEMMA RanksInit == Init => RanksOK
<1> SUFFICES ASSUME Init PROVE RanksOK
  OBVIOUS
<1> DEFINE c == [x \in Thread |-> x]
<1>1. Roots(Thread, uf.parent, c) /\ uf.rank = [x \in Thread |-> 0]
  BY DEF Init, UfInit, Roots
<1>2. ASSUME NEW r \in Thread PROVE PowerOfTwo(0) <= Cardinality({t \in Thread : c[t] = r})
  <2>1. {t \in Thread : c[t] = r} = {r}
    OBVIOUS
  <2>2. Cardinality({r}) = 1
    BY FS_Singleton
  <2>3. Cardinality({t \in Thread : c[t] = r}) = 1
    BY <2>1, <2>2
  <2>4. PowerOfTwo(0) = 1
    BY Powers
  <2> QED
    BY <2>3, <2>4
<1>3. Weighs(Thread, uf.rank, c)
  BY <1>1, <1>2 DEF Weighs
<1> QED
  BY <1>1, <1>3 DEF RanksOK

LEMMA RanksStep ==
  ASSUME ~ClientRecycles, IInv, ForestOK, phase = "running" => ChainsOK, RanksOK,
         [Next \/ Ended]_vars
  PROVE  RanksOK'
<1>1. PICK c : Roots(Thread, uf.parent, c) /\ Weighs(Thread, uf.rank, c)
  BY DEF RanksOK
<1>2. IsFiniteSet(Thread)
  BY Constants
<1>3. CASE uf' = uf
  BY <1>1, <1>3 DEF RanksOK
<1>4. CASE Create
  <2> DEFINE t == Alloc(slots)
  <2>1. phase = "running" /\ slots.free = <<>> /\ ~Exhausted(slots, ThreadCap) /\ uf' = UfReset(uf, t)
    BY <1>4 DEF Create, Calling
  <2>2. t \in Thread /\ slots.next < t
    <3>1. slots \in [free : Seq(Thread), next : 0 .. ThreadCap] /\ ArenaOK(slots, ThreadCap)
      BY <2>1, Types DEF IInv, TypeOK, Running, SlotsOK
    <3>2. t \in Thread
      BY <2>1, <3>1, Constants, AllocArena
    <3>3. slots.next \in Nat /\ t = slots.next + 1
      BY <2>1, <3>1, Constants DEF Alloc
    <3> QED
      BY <3>2, <3>3
  <2> HIDE DEF t
  <2>3. PICK o, e : TreesOK(o, e)
    BY <2>1 DEF ChainsOK
  <2>4. \A u \in Thread : c[u] = o[u]
    <3> SUFFICES ASSUME NEW u \in Thread PROVE c[u] = o[u]
      OBVIOUS
    <3> DEFINE F == UfFind(uf.parent, u)
    <3>1. Roots(Thread, uf.parent, o) /\ Forest(Thread, uf.parent)
      BY <2>3 DEF TreesOK, ForestOK
    <3>2. \A x : Roots(Thread, uf.parent, x) => F.root = x[u]
      BY <1>2, <3>1, FindOK
    <3> HIDE DEF F
    <3> QED
      BY <1>1, <3>1, <3>2
  <2>5. \A u \in Thread : c[u] = c[t] => u = t
    BY <2>2, <2>3, <2>4 DEF TreesOK
  <2>6. c[t] = t /\ uf.parent[t] = t
    <3>1. c[t] \in Thread /\ uf.parent[c[t]] = c[t] /\ c[c[t]] = c[t]
      BY <1>1, <2>2 DEF Roots
    <3> QED
      BY <2>5, <3>1
  <2>7. uf'.parent = uf.parent
    <3>1. uf'.parent = [uf.parent EXCEPT ![t] = t] /\ uf.parent \in [Thread -> Thread]
      BY <2>1 DEF UfReset, ForestOK, Forest
    <3> QED
      BY <2>6, <3>1
  <2>8. uf'.rank = [uf.rank EXCEPT ![t] = 0] /\ uf.rank \in [Thread -> Nat]
    BY <1>1, <2>1 DEF UfReset, Weighs
  <2>9. ASSUME NEW r \in Thread, c[r] = r
        PROVE  PowerOfTwo(uf'.rank[r]) <= Cardinality({u \in Thread : c[u] = r})
    <3>1. CASE r = t
      <4>1. {u \in Thread : c[u] = r} = {r}
        BY <2>5, <2>6, <3>1
      <4>2. Cardinality({r}) = 1 /\ uf'.rank[r] = 0
        BY <2>2, <2>8, <3>1, FS_Singleton
      <4>3. PowerOfTwo(0) = 1
        BY Powers
      <4> QED
        BY <4>1, <4>2, <4>3
    <3>2. CASE r # t
      BY <1>1, <2>8, <2>9, <3>2 DEF Weighs
    <3> QED
      BY <3>1, <3>2
  <2>10. Weighs(Thread, uf'.rank, c)
    <3>1. uf'.rank \in [Thread -> Nat]
      <4> DEFINE s == uf.rank
      <4>1. s \in [Thread -> Nat] /\ uf'.rank = [s EXCEPT ![t] = 0]
        BY <2>8
      <4> HIDE DEF s
      <4>2. [s EXCEPT ![t] = 0] \in [Thread -> Nat]
        BY <4>1
      <4> QED
        BY <4>1, <4>2, Zenon
    <3> QED
      BY <2>9, <3>1 DEF Weighs
  <2> QED
    BY <1>1, <2>7, <2>10 DEF RanksOK
<1>5. ASSUME NEW t \in Thread, phase = "running", uf' = Verdict(t).uf PROVE RanksOK'
  <2> DEFINE V == Verdict(t)
  <2>1. /\ ~V.ok => Roots(Thread, V.uf.parent, c) /\ V.uf.rank = uf.rank
        /\ V.ok => \/ Unites(Thread, uf, V.uf, c, c[current], c[t])
                   \/ Unites(Thread, uf, V.uf, c, c[t], c[current])
    BY <1>1, <1>5, VerdictOK
  <2>2. uf' = V.uf
    BY <1>5
  <2> HIDE DEF V
  <2>3. CASE ~V.ok
    BY <1>1, <2>1, <2>2, <2>3 DEF RanksOK
  <2>4. ASSUME NEW a, NEW b, Unites(Thread, uf, V.uf, c, a, b), c[a] = a, c[b] = b PROVE RanksOK'
    <3> DEFINE m == Moved(Thread, c, b, a)
    <3>1. Weighs(Thread, V.uf.rank, m)
      BY <1>1, <1>2, <2>4, UnitesWeighs
    <3>2. Roots(Thread, V.uf.parent, m)
      BY <2>4 DEF Unites
    <3> HIDE DEF m
    <3> QED
      BY <2>2, <3>1, <3>2 DEF RanksOK
  <2>5. c[c[current]] = c[current] /\ c[c[t]] = c[t]
    <3>1. current \in Thread
      BY <1>5, Types DEF IInv
    <3> QED
      BY <1>1, <3>1 DEF Roots
  <2> QED
    BY <2>1, <2>3, <2>4, <2>5
<1> QED
  BY <1>3, <1>4, <1>5, UfWriters

(* Ranks are the logarithms of the sizes of the trees.                        *)
THEOREM RanksAreLogarithmic ==
  ASSUME ClientAsserts
  PROVE  Spec => []RankIsLogarithmic
<1>1. ASSUME ~ClientRecycles PROVE Spec => []RankIsLogarithmic
  <2>1. IInv /\ ForestOK /\ DeadlockInv /\ RanksOK /\ [Next \/ Ended]_vars => RanksOK'
    BY <1>1, RanksStep DEF DeadlockInv
  <2>2. IInv /\ ForestOK /\ DeadlockInv /\ RanksOK => RankIsLogarithmic
    <3> SUFFICES ASSUME ForestOK, RanksOK, NEW r \in Thread, uf.parent[r] = r
                 PROVE  PowerOfTwo(uf.rank[r]) <= Cardinality(Tree(r))
      BY DEF RankIsLogarithmic
    <3>1. PICK c : Roots(Thread, uf.parent, c) /\ Weighs(Thread, uf.rank, c)
      BY DEF RanksOK
    <3>2. ASSUME NEW t \in Thread PROVE UfFind(uf.parent, t).root = c[t]
      <4> DEFINE F == UfFind(uf.parent, t)
      <4>1. IsFiniteSet(Thread) /\ Forest(Thread, uf.parent)
        BY Constants DEF ForestOK
      <4>2. F.root = c[t]
        BY <3>1, <4>1, FindOK
      <4> QED
        BY <4>2
    <3>3. Tree(r) = {t \in Thread : c[t] = r}
      BY <3>2 DEF Tree
    <3>4. c[r] = r
      BY <3>1 DEF Roots
    <3> QED
      BY <3>1, <3>3, <3>4 DEF Weighs
  <2> QED
    BY <1>1, <2>1, <2>2, RanksInit, DeadlockInvariance, PTL DEF Spec
<1>2. ASSUME ClientRecycles PROVE Spec => []RankIsLogarithmic
  <2>1. RankIsLogarithmic
    BY <1>2 DEF RankIsLogarithmic
  <2> QED
    BY <2>1, PTL
<1> QED
  BY <1>1, <1>2
===============================================================================
