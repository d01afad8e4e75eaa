------------------------------ MODULE MonoThread ------------------------------
(* Threads of the single-core library: src/src/thread.c, with scheduler.h and *)
(* context_switch.S.                                                          *)
(*                                                                            *)
(* One kernel thread runs everything, so one step is one call of the API up   *)
(* to its return or to the context switch in it; what the call does after it  *)
(* is resumed is an action of its own, taken when its thread is current       *)
(* again.  SIGALRM is masked inside the calls (preempt_block), so in the      *)
(* preemptive build the handler is one more call of thread_yield between two  *)
(* calls of the client.                                                       *)
EXTENDS Integers, Sequences, FiniteSets, SchedRing, UnionFind, Arena

CONSTANTS
  ThreadCap,       \* THREAD_CAP, the descriptors of the slab
  StackCap,        \* STACK_CAP, the stacks of the arena
  UsePriority,     \* the build has -DUSE_PRIORITY
  PriorityMin, PriorityMax, PriorityDefault,
  Calls,           \* the calls the client's threads make
  ClientRecycles,  \* the client creates threads after it has joined some
  ClientAsserts    \* the client stops when a call returns -1, as assert(!err)

ASSUME CapAssumption ==
  /\ ThreadCap \in Nat \ {0}
  /\ StackCap \in Nat
ASSUME BuildAssumption ==
  /\ UsePriority \in BOOLEAN
  /\ PriorityMin \in Int /\ PriorityMax \in Int
  /\ PriorityDefault \in PriorityMin .. PriorityMax
ASSUME ClientAssumption ==
  /\ Calls \subseteq {"create", "yield", "join", "exit", "setpriority", "return"}
  /\ ClientRecycles \in BOOLEAN
  /\ ClientAsserts \in BOOLEAN

Thread == 1 .. ThreadCap
Stack  == 1 .. StackCap
NULL   == 0
Main   == 1

(* Where a thread is.  "user": in its own code; "fresh": created and never    *)
(* elected (READY and not started); "yield" and "woken": ready, inside a      *)
(* call; "join" and "parked": blocked in thread_join or in thread_sync.c;     *)
(* "done": FINISHED, not joined yet; "free": the descriptor is in the slab.   *)
Pc == {"free", "fresh", "user", "yield", "join", "parked", "woken", "done"}

(* "returned" is the end of main, "exited" clean_exit, "aborted" abort,       *)
(* "crashed" a switch to a stack pointer that is not one, "asserted" a client *)
(* that gave up on an error code.                                             *)
Phase == {"running", "returned", "exited", "aborted", "crashed", "asserted"}

VARIABLES
  phase,        \* what became of the process
  current,      \* the running thread
  ring,         \* sched_next and sched_prev of every descriptor
  lastCreated,  \* last_created: the newest thread, not in the ring yet
  inlineExec,   \* inline_executing, the inline runs in progress
  pc,           \* started, state and the place of the thread in its call
  rsp,          \* "null", "saved" (a frame to resume) or "stale"
  func,         \* whether the descriptor's func is set
  waiting,      \* the thread to resume when this one finishes
  target,       \* the thread whose end a thread in thread_join awaits
  inliner,      \* the frame that runs this thread inline (inline_jmpbuf)
  stackBase,    \* stack_base
  prio,         \* priority
  uf,           \* parent and rank
  slots,        \* thread_slab_next and thread_free_head
  stacks,       \* stack_arena_next and stack_free_head
  pendingDead   \* pending_dead_stack

vars == <<phase, current, ring, lastCreated, inlineExec, pc, rsp, func, waiting,
          target, inliner, stackBase, prio, uf, slots, stacks, pendingDead>>

-------------------------------------------------------------------------------
(* init_system: the caller of main is thread 1, alone in the ring.            *)
Init ==
  /\ phase = "running"
  /\ current = Main
  /\ ring = [next |-> [t \in Thread |-> IF t = Main THEN Main ELSE NULL],
             prev |-> [t \in Thread |-> IF t = Main THEN Main ELSE NULL]]
  /\ lastCreated = NULL
  /\ inlineExec = 0
  /\ pc = [t \in Thread |-> IF t = Main THEN "user" ELSE "free"]
  /\ rsp = [t \in Thread |-> "null"]
  /\ func = [t \in Thread |-> FALSE]
  /\ waiting = [t \in Thread |-> NULL]
  /\ target = [t \in Thread |-> NULL]
  /\ inliner = [t \in Thread |-> NULL]
  /\ stackBase = [t \in Thread |-> NULL]
  /\ prio = [t \in Thread |-> PriorityDefault]
  /\ uf = UfInit(Thread)
  /\ slots = AfterAlloc(ArenaInit)
  /\ stacks = ArenaInit
  /\ pendingDead = NULL

(* The running thread and the ready ones: those the ring should hold.         *)
InRing(t) == \/ t = current
             \/ pc[t] \in {"yield", "woken"}
             \/ pc[t] = "fresh" /\ func[t]
Members == {t \in Thread : InRing(t)}

(* A thread in its own code makes a call of the API.                          *)
Calling(call) == phase = "running" /\ pc[current] = "user" /\ call \in Calls

(* Execution is back in the thread that was left at this place.               *)
Resumed(place) == phase = "running" /\ pc[current] = place

(* flush_last_created: what it makes of the ring and of func.                 *)
FlushedRing == IF lastCreated = NULL THEN ring ELSE Enqueue(ring, current, lastCreated)
FlushedFunc == IF lastCreated = NULL THEN func ELSE [func EXCEPT ![lastCreated] = TRUE]
Flush == ring' = FlushedRing /\ func' = FlushedFunc /\ lastCreated' = NULL

(* is_sched_empty, asked after the flush.                                     *)
MutNobodyReady == Alone(ring, current)  \* mutant: asked before the flush
NobodyReady == Alone(FlushedRing, current)

(* The list once current has left it.                                         *)
MutWithoutCurrent(L) == L  \* mutant: sched_remove is forgotten
WithoutCurrent(L) == Remove(L, current)

(* sched_pick_next: the thread elected when current leaves the list L.        *)
PickNext(L) == IF UsePriority THEN PickHighest(L, current, prio) ELSE L.prev[current]

(* lazy_stack_alloc(t), when t has no stack pointer: a stack of the pool is    *)
(* taken for it, or the process aborts.                                       *)
Full(t, rsps, pool) == rsps[t] = "null" /\ Exhausted(pool, StackCap)
Taken(t, rsps, pool) == rsps[t] = "null" /\ ~Exhausted(pool, StackCap)
PoolAfter(t, rsps, pool) == IF Taken(t, rsps, pool) THEN AfterAlloc(pool) ELSE pool

(* The end of every switch: lazy_stack_alloc(t), and then the load of t->rsp.  *)
(* The arguments are the three variables as the call has left them.           *)
MutLoad(t, rsps, bases, pool) ==  \* mutant: lazy_stack_alloc is forgotten
  /\ current' = t
  /\ rsp' = [rsps EXCEPT ![t] = "stale"]
  /\ phase' = IF rsps[t] = "saved" THEN phase ELSE "crashed"
  /\ stackBase' = bases
Load(t, rsps, bases, pool) ==
  /\ current' = t
  /\ rsp' = [rsps EXCEPT ![t] = "stale"]
  /\ phase' = IF Full(t, rsps, pool) THEN "aborted"
              ELSE IF rsps[t] = "stale" THEN "crashed" ELSE phase
  /\ stackBase' = IF Taken(t, rsps, pool) THEN [bases EXCEPT ![t] = Alloc(pool)] ELSE bases
SwitchTo(t, rsps, bases, pool) ==
  Load(t, rsps, bases, pool) /\ stacks' = PoolAfter(t, rsps, pool)

(* current saves its registers and t goes on.                                 *)
Saved == [rsp EXCEPT ![current] = "saved"]
ContextSwitch(t) == SwitchTo(t, Saved, stackBase, stacks)

(* A call returns -1.                                                         *)
Fail == phase' = IF ClientAsserts THEN "asserted" ELSE phase

-------------------------------------------------------------------------------
(* thread_create.                                                             *)
Create ==
  /\ Calling("create")
  /\ ClientRecycles \/ slots.free = <<>>
  /\ ~Exhausted(slots, ThreadCap)
  /\ LET t == Alloc(slots) IN
       /\ slots' = AfterAlloc(slots)
       /\ pc' = [pc EXCEPT ![t] = "fresh"]
       /\ rsp' = [rsp EXCEPT ![t] = "null"]
       /\ prio' = [prio EXCEPT ![t] = PriorityDefault]
       /\ waiting' = [waiting EXCEPT ![t] = NULL]
       /\ inliner' = [inliner EXCEPT ![t] = NULL]
       /\ stackBase' = [stackBase EXCEPT ![t] = NULL]
       /\ uf' = UfReset(uf, t)
       /\ ring' = FlushedRing
       /\ func' = [FlushedFunc EXCEPT ![t] = FALSE]
       /\ lastCreated' = t
  /\ UNCHANGED <<phase, current, inlineExec, target, stacks, pendingDead>>

CreateFails ==
  /\ Calling("create")
  /\ Exhausted(slots, ThreadCap)
  /\ Fail
  /\ UNCHANGED <<current, ring, lastCreated, inlineExec, pc, rsp, func, waiting, target,
                 inliner, stackBase, prio, uf, slots, stacks, pendingDead>>

(* thread_setpriority; a priority out of range changes nothing.               *)
SetPriority(t, p) ==
  /\ Calling("setpriority")
  /\ pc[t] # "free"
  /\ prio' = IF p \in PriorityMin .. PriorityMax THEN [prio EXCEPT ![t] = p] ELSE prio
  /\ UNCHANGED <<phase, current, ring, lastCreated, inlineExec, pc, rsp, func, waiting,
                 target, inliner, stackBase, uf, slots, stacks, pendingDead>>

-------------------------------------------------------------------------------
(* thread_yield: nothing at all while a thread is run inline, ...             *)
YieldDisabled ==
  /\ Calling("yield")
  /\ inlineExec > 0
  /\ UNCHANGED vars

(* The thread a yield hands over to, when current is not alone in L.          *)
MutYieldNext(L) == L.next[current]  \* mutant: the priorities are ignored
YieldNext(L) == IF UsePriority THEN PickHighest(L, current, prio) ELSE L.next[current]

Keeps(L) == ~NobodyReady => UsePriority /\ prio[YieldNext(L)] < prio[current]

(* ... back to the caller when nobody else should run, ...                    *)
YieldKeeps ==
  /\ Calling("yield")
  /\ inlineExec = 0
  /\ Keeps(FlushedRing)
  /\ Flush
  /\ UNCHANGED <<phase, current, inlineExec, pc, rsp, waiting, target, inliner, stackBase,
                 prio, uf, slots, stacks, pendingDead>>

(* thread_yield_asm releases the stack of the last dead thread as soon as it  *)
(* stands on the stack of the next thread, whoever that is; the thread_yield  *)
(* of the priority build does not.                                            *)
MutPoolAfterYield(pool) == pool  \* mutant: the pending stack leaks
PoolAfterYield(pool) == Release(pool, pendingDead)
YieldReleases == ~UsePriority /\ pendingDead # NULL

(* ... and otherwise to the next thread.                                      *)
YieldSwitches ==
  LET t    == YieldNext(FlushedRing)
      pool == PoolAfter(t, Saved, stacks)
  IN  /\ Calling("yield")
      /\ inlineExec = 0
      /\ ~Keeps(FlushedRing)
      /\ Flush
      /\ pc' = [pc EXCEPT ![current] = "yield"]
      /\ Load(t, Saved, stackBase, stacks)
      /\ IF YieldReleases /\ ~Full(t, Saved, stacks)
         THEN stacks' = PoolAfterYield(pool) /\ pendingDead' = NULL
         ELSE stacks' = pool /\ UNCHANGED pendingDead
      /\ UNCHANGED <<inlineExec, waiting, target, inliner, prio, uf, slots>>

(* The thread is back in its yield, which only returns: it was left by the    *)
(* switch of another thread, whose call has done what there was to do.        *)
YieldReturn ==
  /\ Resumed("yield")
  /\ pc' = [pc EXCEPT ![current] = "user"]
  /\ UNCHANGED <<phase, current, ring, lastCreated, inlineExec, rsp, func, waiting, target,
                 inliner, stackBase, prio, uf, slots, stacks, pendingDead>>

(* thread_trampoline and thread_entry: the first election of a thread.        *)
ThreadEntry ==
  /\ Resumed("fresh")
  /\ pc' = [pc EXCEPT ![current] = "user"]
  /\ UNCHANGED <<phase, current, ring, lastCreated, inlineExec, rsp, func, waiting, target,
                 inliner, stackBase, prio, uf, slots, stacks, pendingDead>>

-------------------------------------------------------------------------------
(* thread_join(t).  The client joins a thread at most once at a time: the API *)
(* leaves a double join undefined.                                            *)
Joinable(t) ==
  /\ pc[t] # "free"
  /\ \A w \in Thread : pc[w] = "join" => target[w] # t

Joining(t) == Calling("join") /\ Joinable(t)

(* The verdict of uf_union on joining a thread that has not finished.         *)
MutVerdict(t) == [ok |-> t # current, uf |-> uf]  \* mutant: only a self-join is seen
Verdict(t) == UfUnion(uf, current, t)

(* The last lines of thread_join: release the stack and the descriptor of t,  *)
(* whose rsp links it to the rest of the free list.                           *)
MutWithStackOf(t) == stacks  \* mutant: the joined thread's stack leaks
WithStackOf(t) == IF stackBase[t] # NULL THEN Release(stacks, stackBase[t]) ELSE stacks

Cleanup(t) ==
  /\ pc' = [pc EXCEPT ![t] = "free", ![current] = "user"]
  /\ func' = [func EXCEPT ![t] = FALSE]
  /\ stacks' = WithStackOf(t)
  /\ slots' = Release(slots, t)
  /\ rsp' = [rsp EXCEPT ![t] = IF slots.free = <<>> THEN "null" ELSE "stale"]
  /\ target' = [target EXCEPT ![current] = NULL]
  /\ UNCHANGED <<phase, current, ring, lastCreated, inlineExec, waiting, inliner,
                 stackBase, prio, uf, pendingDead>>

JoinFinished(t) ==
  /\ Joining(t)
  /\ pc[t] = "done"
  /\ Cleanup(t)

JoinDeadlock(t) ==
  /\ Joining(t)
  /\ pc[t] # "done"
  /\ ~Verdict(t).ok
  /\ uf' = Verdict(t).uf
  /\ UNCHANGED <<phase, current, ring, lastCreated, inlineExec, pc, rsp, func, waiting,
                 target, inliner, stackBase, prio, slots, stacks, pendingDead>>

(* uf_union accepts the join, and t is (not) still outside the ring, is (not) *)
(* still to be elected.                                                       *)
Accepted(t) == Joining(t) /\ pc[t] # "done" /\ Verdict(t).ok /\ uf' = Verdict(t).uf

Unelected(t) == pc[t] = "fresh" /\ func[t]

(* The start of inline_run: t takes the place of current in the list L.       *)
InlineRun(t, L) ==
  /\ ring' = Replace(L, current, t)
  /\ current' = t
  /\ pc' = [pc EXCEPT ![current] = "join", ![t] = "user"]
  /\ target' = [target EXCEPT ![current] = t]
  /\ inliner' = [inliner EXCEPT ![t] = current]
  /\ inlineExec' = inlineExec + 1

JoinInlineLast(t) ==
  /\ Accepted(t)
  /\ lastCreated = t
  /\ lastCreated' = NULL
  /\ InlineRun(t, ring)
  /\ UNCHANGED <<phase, rsp, func, waiting, stackBase, prio, slots, stacks, pendingDead>>

JoinInlineFlushed(t) ==
  /\ Accepted(t)
  /\ lastCreated # t
  /\ Unelected(t)
  /\ func' = FlushedFunc
  /\ lastCreated' = NULL
  /\ InlineRun(t, Remove(FlushedRing, t))
  /\ stacks' = WithStackOf(t)
  /\ stackBase' = [stackBase EXCEPT ![t] = NULL]
  /\ rsp' = [rsp EXCEPT ![t] = "null"]
  /\ UNCHANGED <<phase, waiting, prio, slots, pendingDead>>

(* The other threads are waited for; -1 when nobody else could run meanwhile. *)
Waited(t) ==
  /\ Accepted(t)
  /\ lastCreated # t
  /\ ~Unelected(t)
  /\ waiting' = [waiting EXCEPT ![t] = current]
  /\ func' = FlushedFunc
  /\ lastCreated' = NULL

JoinWait(t) ==
  /\ Waited(t)
  /\ ~NobodyReady
  /\ ring' = WithoutCurrent(FlushedRing)
  /\ pc' = [pc EXCEPT ![current] = "join"]
  /\ target' = [target EXCEPT ![current] = t]
  /\ ContextSwitch(PickNext(FlushedRing))
  /\ UNCHANGED <<inlineExec, inliner, prio, slots, pendingDead>>

JoinWaitFails(t) ==
  /\ Waited(t)
  /\ NobodyReady
  /\ ring' = FlushedRing
  /\ Fail
  /\ UNCHANGED <<current, inlineExec, pc, rsp, target, inliner, stackBase, prio, slots,
                 stacks, pendingDead>>

(* thread_join goes on after inline_run or after its context switch.          *)
JoinReturn ==
  /\ Resumed("join")
  /\ Cleanup(target[current])

-------------------------------------------------------------------------------
(* thread_exit, or the return of the thread's function.  Run inline: back to  *)
(* the frame of inline_run, which gives its place back to the joiner.         *)
ExitInline ==
  /\ Calling("exit")
  /\ inliner[current] # NULL
  /\ pc' = [pc EXCEPT ![current] = "done"]
  /\ inliner' = [inliner EXCEPT ![current] = NULL]
  /\ inlineExec' = inlineExec - 1
  /\ ring' = Replace(ring, current, inliner[current])
  /\ current' = inliner[current]
  /\ UNCHANGED <<phase, lastCreated, rsp, func, waiting, target, stackBase, prio, uf,
                 slots, stacks, pendingDead>>

Exiting == Calling("exit") /\ inliner[current] = NULL

(* The joiner takes the place of the thread it waits for.                     *)
MutHasJoiner == FALSE  \* mutant: the joiner is forgotten
HasJoiner == waiting[current] # NULL

ExitToWaiter ==
  /\ Exiting
  /\ HasJoiner
  /\ pc' = [pc EXCEPT ![current] = "done"]
  /\ ring' = Replace(ring, current, waiting[current])
  /\ SwitchTo(waiting[current], rsp, stackBase, stacks)
  /\ UNCHANGED <<lastCreated, inlineExec, func, waiting, target, inliner, prio, uf, slots,
                 pendingDead>>

ExitUnjoined ==
  /\ Exiting
  /\ ~HasJoiner
  /\ pc' = [pc EXCEPT ![current] = "done"]
  /\ func' = [FlushedFunc EXCEPT ![current] = FALSE]
  /\ lastCreated' = NULL

(* Nobody else is ready: clean_exit ends the process.                         *)
ExitLast ==
  /\ ExitUnjoined
  /\ NobodyReady
  /\ ring' = FlushedRing
  /\ phase' = "exited"
  /\ current' = NULL
  /\ UNCHANGED <<inlineExec, rsp, waiting, target, inliner, stackBase, prio, uf, slots,
                 stacks, pendingDead>>

(* The dead thread's stack becomes the pending one, the previous one is free. *)
MutLeakAtExit == stacks  \* mutant: the previous pending stack leaks
MutReleaseAtExit ==      \* mutant: the stack in use is released at once
  IF stackBase[current] # NULL THEN Release(stacks, stackBase[current]) ELSE stacks
PoolAtExit == IF pendingDead # NULL THEN Release(stacks, pendingDead) ELSE stacks

ExitSwitches ==
  /\ ExitUnjoined
  /\ ~NobodyReady
  /\ ring' = WithoutCurrent(FlushedRing)
  /\ pendingDead' = stackBase[current]
  /\ SwitchTo(PickNext(FlushedRing), rsp, [stackBase EXCEPT ![current] = NULL],
              PoolAtExit)
  /\ UNCHANGED <<inlineExec, waiting, target, inliner, prio, uf, slots>>

(* main returns: exit runs thread_system_destroy, whose loop unlinks the      *)
(* successor of current (sched_dequeue_fifo) until current is alone.          *)
Drained == [next |-> [ring.next EXCEPT ![current] = current],
            prev |-> [t \in Thread |-> IF InRing(t) THEN current ELSE ring.prev[t]]]

MainReturns ==
  /\ Calling("return")
  /\ current = Main
  /\ stackBase[Main] = NULL /\ inliner[Main] = NULL   \* slot 1 is main's still
  /\ phase' = "returned"
  /\ ring' = Drained
  /\ current' = NULL
  /\ UNCHANGED <<lastCreated, inlineExec, pc, rsp, func, waiting, target, inliner,
                 stackBase, prio, uf, slots, stacks, pendingDead>>

-------------------------------------------------------------------------------
Join(t) ==
  \/ JoinFinished(t) \/ JoinDeadlock(t)
  \/ JoinInlineLast(t) \/ JoinInlineFlushed(t)
  \/ JoinWait(t) \/ JoinWaitFails(t)

Exit == ExitInline \/ ExitToWaiter \/ ExitLast \/ ExitSwitches

(* What follows a switch without a choice of the client.                      *)
Resume == YieldReturn \/ ThreadEntry \/ JoinReturn

(* A thread ends, or the process does.                                        *)
Finish == Exit \/ MainReturns

(* Every other step but the one that initialises a descriptor.                *)
Operate ==
  \/ CreateFails
  \/ \E t \in Thread, p \in PriorityMin - 1 .. PriorityMax + 1 : SetPriority(t, p)
  \/ YieldDisabled \/ YieldKeeps \/ YieldSwitches
  \/ \E t \in Thread : Join(t)
  \/ Resume

Next == Create \/ Operate \/ Finish

(* The process has ended.                                                     *)
Ended == phase # "running" /\ UNCHANGED vars

Spec == Init /\ [][Next \/ Ended]_vars

-------------------------------------------------------------------------------
(* Every variable holds what its C counterpart can (uf: see FindTerminates).   *)
TypeOK ==
  /\ phase \in Phase
  /\ current \in Thread \cup {NULL}
  /\ current = NULL <=> phase \in {"returned", "exited"}
  /\ ring \in [next : [Thread -> Thread \cup {NULL}], prev : [Thread -> Thread \cup {NULL}]]
  /\ lastCreated \in Thread \cup {NULL}
  /\ inlineExec \in Nat
  /\ pc \in [Thread -> Pc]
  /\ rsp \in [Thread -> {"null", "saved", "stale"}]
  /\ func \in [Thread -> BOOLEAN]
  /\ waiting \in [Thread -> Thread \cup {NULL}]
  /\ target \in [Thread -> Thread \cup {NULL}]
  /\ inliner \in [Thread -> Thread \cup {NULL}]
  /\ stackBase \in [Thread -> Stack \cup {NULL}]
  /\ prio \in [Thread -> PriorityMin .. PriorityMax]
  /\ slots \in [free : Seq(Thread), next : 0 .. ThreadCap]
  /\ stacks \in [free : Seq(Stack), next : 0 .. StackCap]
  /\ pendingDead \in Stack \cup {NULL}

(* scheduler.h:6-7: "current est TOUJOURS dans la liste circulaire. Les       *)
(* threads READY sont dans la liste avec current."  The list is one cycle, in *)
(* both directions, of the running thread and the ready ones, and of nobody   *)
(* who is blocked, finished or not flushed yet.                               *)
RingOK == phase = "running" => Cycle(ring, Members)

(* A stack of the arena is in one place: once in the free list, or pending,   *)
(* or the stack of one thread, across exits, inline runs and joins.           *)
Live == {t \in Thread : pc[t] # "free"}

StackPartition ==
  /\ ArenaOK(stacks, StackCap)
  /\ HandedOut(stacks) = ({stackBase[t] : t \in Live} \cup {pendingDead}) \ {NULL}
  /\ \A t \in Live : stackBase[t] # NULL =>
       /\ stackBase[t] # pendingDead
       /\ \A u \in Live \ {t} : stackBase[u] # stackBase[t]

(* thread.c:23-28: the stack a thread exits on is not handed to the thread it *)
(* switches to, whose first frame would overwrite it.                         *)
ExitStackNotReused ==
  [][\A t \in Thread :
        t = current /\ stackBase[t] # NULL /\ current' \notin {t, NULL}
          => stackBase'[current'] # stackBase[t]]_vars

(* Every switch, from whatever call, finds a frame its target has saved and   *)
(* not resumed since, or a stack made for it.                                 *)
SwitchTargetValid == phase # "crashed"

(* abort is called only when the arena is full but for the pending stack.     *)
AbortOnlyWhenFull ==
  phase = "aborted" =>
    Cardinality({t \in Thread : pc[t] \notin {"free", "done"} /\ stackBase[t] # NULL})
      >= StackCap - 1

(* A thread comes back from thread_join only when its target has finished.    *)
JoinAwaitsFinish ==
  phase = "running" /\ pc[current] = "join" => pc[target[current]] = "done"

(* clean_exit is reached only when no thread is left ready or blocked.        *)
LastExitLosesNoThread == phase = "exited" => \A t \in Thread : pc[t] \in {"free", "done"}

(* t waits, directly or through others, for u; a thread waits for itself.     *)
Hop == [t \in Thread \cup {NULL} |->
          IF t # NULL /\ pc[t] = "join" THEN target[t] ELSE NULL]
WaitsFor(t, u) == \E k \in 0 .. ThreadCap : Iterate(Hop, t)[k] = u

CouldJoin(t) == phase = "running" /\ pc[current] = "user" /\ Joinable(t) /\ pc[t] # "done"

(* tests/81-deadlock.c: a join that would close a cycle of joins is refused   *)
(* with EDEADLK, ...                                                          *)
CycleRefused ==
  \A t \in Thread : CouldJoin(t) /\ WaitsFor(t, current) => ~Verdict(t).ok

(* ... "et les autres renvoient 0": no other join is.                         *)
OnlyCycleRefused ==
  \A t \in Thread : CouldJoin(t) /\ ~WaitsFor(t, current) => Verdict(t).ok

(* The loop of uf_find ends although descriptors are recycled under it: every *)
(* node is below a root.                                                      *)
FindTerminates ==
  \A t \in Thread : \E k \in 0 .. ThreadCap :
    LET r == Iterate(uf.parent, t)[k] IN uf.parent[r] = r

(* A root of rank k has 2^k nodes below it, so that in a program that creates *)
(* at most THREAD_CAP = 2^18 threads rank++ stays far from the top of uint8_t.*)
Tree(r) == {t \in Thread : UfFind(uf.parent, t).root = r}
RankIsLogarithmic ==
  ~ClientRecycles =>
    \A r \in Thread : uf.parent[r] = r => PowerOfTwo(uf.rank[r]) <= Cardinality(Tree(r))

(* -DUSE_PRIORITY: whoever is elected, by a yield, a wait or an exit, no      *)
(* ready thread has a higher priority, the one just created included.         *)
Ready(t) == pc[t] \in {"yield", "woken", "fresh"}
PriorityElection ==
  [][current' \notin {current, NULL} /\ Ready(current') /\ pc'[current'] = pc[current']
       => \A t \in Thread : Ready(t) => prio[t] <= prio[current']]_vars

-------------------------------------------------------------------------------
(* Fairness.  A thread that is resumed goes on.  A thread that keeps running  *)
(* yields in the end: by itself, or through preempt_handler, which the timer  *)
(* calls for ever.                                                            *)
FairSpec == Spec /\ WF_vars(Resume) /\ SF_vars(YieldSwitches)

(* When functions end, every thread that joins another is resumed: no wakeup  *)
(* is lost between thread_join and thread_exit, and the last exit does not    *)
(* end the process before.                                                    *)
FunctionsEnd == \A t \in Thread : SF_vars(current = t /\ Exit)

EveryJoinReturns ==
  FunctionsEnd =>
    \A t \in Thread : pc[t] = "join" ~> pc[t] # "join" \/ phase \notin {"running", "exited"}
=============================================================================
