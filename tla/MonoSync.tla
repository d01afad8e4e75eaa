------------------------------- MODULE MonoSync -------------------------------
(* Mutexes, semaphores and thread signals of the single-core library:         *)
(* src/src/thread_sync.c without MULTICORE, over the threads of MonoThread.   *)
(* One mutex, one semaphore and the signals of Sig stand for all of them: the *)
(* objects share nothing but the ring.                                        *)
(*                                                                            *)
(* A blocked thread has left the ring, and its sched_next links it into the   *)
(* wait queue of the object it waits for: the queues live in ring.next.       *)
EXTENDS MonoThread

CONSTANTS
  SyncCalls,  \* the calls of thread_sync.c the client makes
  SemInit,    \* the value given to thread_sem_init
  SemMax,     \* bound: the client posts no further
  Sig         \* the signals the client sends and waits for

ASSUME SyncAssumption ==
  /\ SyncCalls \subseteq {"lock", "unlock", "sem_wait", "sem_post", "kill", "sigwait"}
  /\ SemInit \in Nat /\ SemMax \in Nat
  /\ Sig \subseteq 1 .. 7

VARIABLES
  locked, mutexQ,   \* mutex_internal_t: locked, [head |-> wait_head, tail |-> wait_tail]
  count, semQ,      \* sem_internal_t: count and its wait queue
  blockedOn,        \* the object a parked or woken thread is at
  pendingSigs, waitMask, sigWaiting, receivedSig,  \* the fields of thread_cold_t
  holders           \* the threads between a lock that returned 0 and their unlock

sigVars  == <<pendingSigs, waitMask, sigWaiting, receivedSig>>
syncVars == <<locked, mutexQ, count, semQ, blockedOn, sigVars, holders>>
allVars  == <<vars, syncVars>>

Empty == [head |-> NULL, tail |-> NULL]

SyncInit ==
  /\ Init
  /\ locked = FALSE /\ mutexQ = Empty
  /\ count = SemInit /\ semQ = Empty
  /\ blockedOn = [t \in Thread |-> "none"]
  /\ pendingSigs = [t \in Thread |-> {}]
  /\ waitMask = [t \in Thread |-> {}]
  /\ sigWaiting = [t \in Thread |-> FALSE]
  /\ receivedSig = [t \in Thread |-> 0]
  /\ holders = {}

SyncCalling(call) == phase = "running" /\ pc[current] = "user" /\ call \in SyncCalls

-------------------------------------------------------------------------------
(* wq_append and wq_pop: what they make of the queue and of sched_next.       *)
WqAppend(L, q, t) ==
  LET next == [L.next EXCEPT ![t] = NULL] IN
  [ring  |-> [L EXCEPT !.next = IF q.tail = NULL THEN next ELSE [next EXCEPT ![q.tail] = t]],
   queue |-> [head |-> IF q.tail = NULL THEN t ELSE q.head, tail |-> t]]

MutWqPop(L, q) ==  \* mutant: the tail is left behind
  IF q.head = NULL THEN q ELSE [q EXCEPT !.head = L.next[q.head]]
WqPop(L, q) ==
  IF q.head = NULL THEN q
  ELSE LET h == L.next[q.head] IN [head |-> h, tail |-> IF h = NULL THEN NULL ELSE q.tail]

(* What a blocking call does before it switches: elect, leave the ring, then  *)
(* enter a queue.  last_created is not flushed.                               *)
MustBlock == ~Alone(ring, current)

Block(object) ==
  /\ pc' = [pc EXCEPT ![current] = "parked"]
  /\ blockedOn' = [blockedOn EXCEPT ![current] = object]

(* SYNC_WAKE: sched_enqueue.                                                  *)
MutWake(t) ==  \* mutant: the thread is made ready and not enqueued
  ring' = ring /\ pc' = [pc EXCEPT ![t] = "woken"]
Wake(t) ==
  /\ ring' = Enqueue(ring, current, t)
  /\ pc' = [pc EXCEPT ![t] = "woken"]

SameButRingPc == UNCHANGED <<phase, current, lastCreated, inlineExec, rsp, func, waiting,
                             target, inliner, stackBase, prio, uf, slots, stacks, pendingDead>>

(* A call returns -1 and touches nothing of the threads.                      *)
SyncFail ==
  /\ Fail
  /\ UNCHANGED <<current, ring, lastCreated, inlineExec, pc, rsp, func, waiting, target,
                 inliner, stackBase, prio, uf, slots, stacks, pendingDead>>

-------------------------------------------------------------------------------
(* The client does not lock a mutex it holds: they are not recursive.         *)
Locking ==
  /\ SyncCalling("lock")
  /\ current \notin holders

(* thread_mutex_lock: the mutex is free, or nobody else could run, ...        *)
Lock ==
  /\ Locking
  /\ ~locked
  /\ locked' = TRUE
  /\ holders' = holders \cup {current}
  /\ UNCHANGED <<vars, mutexQ, count, semQ, blockedOn, sigVars>>

LockFails ==
  /\ Locking
  /\ locked
  /\ ~MustBlock
  /\ SyncFail
  /\ UNCHANGED syncVars

(* ... or the thread parks.  The switch loads next->rsp as it is: this call   *)
(* has no lazy_stack_alloc.                                                   *)
LockParks ==
  /\ Locking
  /\ locked
  /\ MustBlock
  /\ LET next == PickNext(ring)
         w    == WqAppend(Remove(ring, current), mutexQ, current)
     IN  /\ ring' = w.ring
         /\ mutexQ' = w.queue
         /\ current' = next
         /\ rsp' = [rsp EXCEPT ![current] = "saved", ![next] = "stale"]
         /\ phase' = IF rsp[next] = "saved" THEN phase ELSE "crashed"
  /\ Block("mutex")
  /\ UNCHANGED <<lastCreated, inlineExec, func, waiting, target, inliner, stackBase, prio,
                 uf, slots, stacks, pendingDead, locked, count, semQ, sigVars, holders>>

(* thread_mutex_unlock by the holder: the first waiter inherits the mutex.    *)
MutUnlockFrees == TRUE  \* mutant: the mutex is released to whoever comes first
UnlockFrees == mutexQ.head = NULL

Unlock ==
  /\ SyncCalling("unlock")
  /\ current \in holders
  /\ holders' = holders \ {current}
  /\ locked' = ~UnlockFrees
  /\ mutexQ' = WqPop(ring, mutexQ)
  /\ IF mutexQ.head = NULL THEN UNCHANGED <<ring, pc>> ELSE Wake(mutexQ.head)
  /\ SameButRingPc
  /\ UNCHANGED <<count, semQ, blockedOn, sigVars>>

-------------------------------------------------------------------------------
(* thread_sem_wait.                                                           *)
SemWait ==
  /\ SyncCalling("sem_wait")
  /\ count' = count - 1
  /\ count' >= 0
  /\ UNCHANGED <<vars, locked, mutexQ, semQ, blockedOn, sigVars, holders>>

(* -1, with the count already taken.                                          *)
SemWaitFails ==
  /\ SyncCalling("sem_wait")
  /\ count' = count - 1
  /\ count' < 0
  /\ count' >= -SemMax
  /\ ~MustBlock
  /\ SyncFail
  /\ UNCHANGED <<locked, mutexQ, semQ, blockedOn, sigVars, holders>>

SemWaitParks ==
  /\ SyncCalling("sem_wait")
  /\ count' = count - 1
  /\ count' < 0
  /\ MustBlock
  /\ LET w == WqAppend(Remove(ring, current), semQ, current) IN
       ring' = w.ring /\ semQ' = w.queue
  /\ Block("sem")
  /\ ContextSwitch(PickNext(ring))
  /\ UNCHANGED <<lastCreated, inlineExec, func, waiting, target, inliner, prio, uf, slots,
                 pendingDead, locked, mutexQ, sigVars, holders>>

(* thread_sem_post.                                                           *)
WakesOne(n) == n <= 0

SemPost ==
  /\ SyncCalling("sem_post")
  /\ count < SemMax
  /\ count' = count + 1
  /\ semQ' = IF WakesOne(count') THEN WqPop(ring, semQ) ELSE semQ
  /\ IF WakesOne(count') /\ semQ.head # NULL THEN Wake(semQ.head) ELSE UNCHANGED <<ring, pc>>
  /\ SameButRingPc
  /\ UNCHANGED <<locked, mutexQ, blockedOn, sigVars, holders>>

-------------------------------------------------------------------------------
(* thread_kill(t, s): the signal wakes t if t waits for it, stays otherwise.  *)
MutAnswersOnly(t, s) == sigWaiting[t] /\ waitMask[t] = {s}  \* mutant: == for &
Answers(t, s) == sigWaiting[t] /\ s \in waitMask[t]

Kill(t, s) ==
  /\ SyncCalling("kill")
  /\ pc[t] # "free"
  /\ IF Answers(t, s)
     THEN /\ pendingSigs' = [pendingSigs EXCEPT ![t] = @ \ {s}]
          /\ receivedSig' = [receivedSig EXCEPT ![t] = s]
          /\ sigWaiting' = [sigWaiting EXCEPT ![t] = FALSE]
          /\ waitMask' = [waitMask EXCEPT ![t] = {}]
          /\ Wake(t)
     ELSE /\ pendingSigs' = [pendingSigs EXCEPT ![t] = @ \cup {s}]
          /\ UNCHANGED <<receivedSig, sigWaiting, waitMask, ring, pc>>
  /\ SameButRingPc
  /\ UNCHANGED <<locked, mutexQ, count, semQ, blockedOn, holders>>

(* thread_sigwait(mask): the lowest pending signal of the mask, if any.       *)
SigHit(mask) == pendingSigs[current] \cap mask

SigWait(mask) ==
  /\ SyncCalling("sigwait")
  /\ SigHit(mask) # {}
  /\ pendingSigs' = [pendingSigs EXCEPT ![current] = @ \ {Min(SigHit(mask))}]
  /\ UNCHANGED <<vars, locked, mutexQ, count, semQ, blockedOn, waitMask, sigWaiting,
                 receivedSig, holders>>

SigWaitFails(mask) ==
  /\ SyncCalling("sigwait")
  /\ SigHit(mask) = {}
  /\ ~MustBlock
  /\ SyncFail
  /\ UNCHANGED syncVars

SigWaitParks(mask) ==
  /\ SyncCalling("sigwait")
  /\ SigHit(mask) = {}
  /\ MustBlock
  /\ waitMask' = [waitMask EXCEPT ![current] = mask]
  /\ sigWaiting' = [sigWaiting EXCEPT ![current] = TRUE]
  /\ ring' = Remove(ring, current)
  /\ Block("sig")
  /\ ContextSwitch(PickNext(ring))
  /\ UNCHANGED <<lastCreated, inlineExec, func, waiting, target, inliner, prio, uf, slots,
                 pendingDead, locked, mutexQ, count, semQ, pendingSigs, receivedSig, holders>>

-------------------------------------------------------------------------------
(* The blocked call returns 0 when its thread runs again; nothing is tested   *)
(* anew.  A lock that returns makes a holder.                                 *)
SyncReturn ==
  /\ phase = "running"
  /\ pc[current] \in {"woken", "parked"}
  /\ pc' = [pc EXCEPT ![current] = "user"]
  /\ blockedOn' = [blockedOn EXCEPT ![current] = "none"]
  /\ holders' = IF blockedOn[current] = "mutex" THEN holders \cup {current} ELSE holders
  /\ UNCHANGED <<phase, current, ring, lastCreated, inlineExec, rsp, func, waiting, target,
                 inliner, stackBase, prio, uf, slots, stacks, pendingDead,
                 locked, mutexQ, count, semQ, sigVars>>

(* thread_create resets the signal fields of the descriptor.                  *)
CreateResets ==
  /\ Create
  /\ LET t == Alloc(slots) IN
       /\ pendingSigs' = [pendingSigs EXCEPT ![t] = {}]
       /\ waitMask' = [waitMask EXCEPT ![t] = {}]
       /\ sigWaiting' = [sigWaiting EXCEPT ![t] = FALSE]
       /\ receivedSig' = [receivedSig EXCEPT ![t] = 0]
  /\ UNCHANGED <<locked, mutexQ, count, semQ, blockedOn, holders>>

(* The other steps of the threads.  The client unlocks before it finishes.    *)
ThreadStep ==
  /\ Operate \/ (current \notin holders /\ Finish)
  /\ UNCHANGED syncVars

SyncNext ==
  \/ Lock \/ LockFails \/ LockParks \/ Unlock
  \/ SemWait \/ SemWaitFails \/ SemWaitParks \/ SemPost
  \/ \E t \in Thread, s \in Sig : Kill(t, s)
  \/ \E mask \in (SUBSET Sig) \ {{}} :
       SigWait(mask) \/ SigWaitFails(mask) \/ SigWaitParks(mask)
  \/ SyncReturn
  \/ CreateResets
  \/ ThreadStep

SyncSpec == SyncInit /\ [][SyncNext \/ (Ended /\ UNCHANGED syncVars)]_allVars

-------------------------------------------------------------------------------
BlockedOn(object) == {t \in Thread : pc[t] = "parked" /\ blockedOn[t] = object}

(* A locked mutex has one owner: the thread that holds it, or the waiter that *)
(* unlock has chosen and that has not run yet; a free one has none.           *)
OneOwner ==
  phase = "running" =>
    Cardinality(holders \cup {t \in Thread : pc[t] = "woken" /\ blockedOn[t] = "mutex"})
      = IF locked THEN 1 ELSE 0

(* thread_sync.c:49-51: sched_next serves the run list and the wait queues,   *)
(* and no thread is in two of them.  The chain of each queue ends at its tail *)
(* and meets the threads blocked on that object and nobody else.              *)
NextOrNull == [t \in Thread \cup {NULL} |-> IF t = NULL THEN NULL ELSE ring.next[t]]
Chain(q) == {Iterate(NextOrNull, q.head)[k] : k \in 0 .. ThreadCap} \ {NULL}

QueueOK(q, object) ==
  /\ Chain(q) = BlockedOn(object)
  /\ IF q.head = NULL THEN q.tail = NULL
     ELSE q.tail \in Chain(q) /\ ring.next[q.tail] = NULL

(* A negative count of the semaphore is the number of threads in its queue.   *)
SemCounted == Cardinality(BlockedOn("sem")) = IF count < 0 THEN -count ELSE 0

QueuesOK ==
  phase = "running" => /\ QueueOK(mutexQ, "mutex")
                       /\ QueueOK(semQ, "sem") /\ SemCounted

(* thread_sync.c:141: the one switch that loads the stack pointer of a thread *)
(* as it is.  No switch but that of a lock which has to wait goes astray, and *)
(* that one only when it elects a thread already in the ring that has never   *)
(* run, and so has no stack yet.                                              *)
CrashOnlyInLock ==
  [][phase = "running" /\ phase' = "crashed" =>
       /\ pc'[current] = "parked" /\ blockedOn'[current] = "mutex"
       /\ pc[current'] = "fresh" /\ func[current']]_allVars

(* No wakeup is lost between thread_kill and thread_sigwait: a thread that is *)
(* blocked on signals, and only such a thread, is flagged as waiting, and     *)
(* none of the signals it waits for is pending.                               *)
NoLostSignal ==
  phase = "running" =>
    \A t \in Thread :
      /\ sigWaiting[t] <=> t \in BlockedOn("sig")
      /\ sigWaiting[t] => pendingSigs[t] \cap waitMask[t] = {}

-------------------------------------------------------------------------------
(* Fairness, as in MonoThread.                                                *)
FairSyncSpec ==
  /\ SyncSpec
  /\ WF_allVars((Resume /\ UNCHANGED syncVars) \/ SyncReturn)
  /\ SF_allVars(YieldSwitches /\ UNCHANGED syncVars)

(* A thread blocked in thread_mutex_lock gets the mutex, whatever the others  *)
(* lock and unlock meanwhile, when a thread that holds it neither keeps it    *)
(* for ever nor blocks, and no inline run disables yields for ever.           *)
HoldersUnlock ==
  /\ \A t \in Thread : SF_allVars(current = t /\ Unlock)
  /\ [](\A t \in holders : pc[t] \notin {"parked", "join"})

EveryLockReturns ==
  HoldersUnlock /\ []<>(inlineExec = 0) =>
    \A t \in Thread : t \in BlockedOn("mutex") ~> t \in holders \/ phase # "running"
=============================================================================
