-------------------------------- MODULE MNSync --------------------------------
(* Mutexes, semaphores and signals of the M:N library: src/src/thread_sync.c  *)
(* with -DMULTICORE.  Each object has a spin lock, the signals of a thread    *)
(* have its cold_lock.  A thread that parks keeps the lock until its worker   *)
(* has left its stack (unlock_spinlock_cb); a thread that wakes another has   *)
(* unlocked before, so the push is a step of its own.                         *)
EXTENDS MNThread, SequencesExt

CONSTANTS SyncCalls,  \* the calls of this file that the client makes
          SemInit,    \* the first count of the semaphore
          SemMax,     \* the client posts no more beyond this count
          Sig         \* the signals in use, out of 1 .. 7

ASSUME SyncAssumption ==
  /\ SyncCalls \subseteq {"lock", "unlock", "sem_wait", "sem_post", "kill", "sigwait"}
  /\ SemInit \in Nat /\ SemMax \in Nat
  /\ Sig \subseteq 1 .. 7

VARIABLES
  locked, mutexQ,         \* a mutex: locked, and its waiters in order
  count, semQ,            \* a semaphore
  pendingSigs, waitMask,  \* pending_sigs; wait_mask, empty unless sig_waiting
  blockedOn,              \* the kind of object a parked thread has called on
  toWake,                 \* the waiter that a thread has taken out of a queue
  holders                 \* the threads between a return of lock and unlock

sigVars  == <<pendingSigs, waitMask>>
syncVars == <<locked, mutexQ, count, semQ, sigVars, blockedOn, toWake, holders>>
allVars  == <<vars, syncVars>>

MutexLock == -1
SemLock   == -2

(* thread_mutex_init and thread_sem_init.                                     *)
SyncInit ==
  /\ Init
  /\ locked = FALSE /\ mutexQ = <<>>
  /\ count = SemInit /\ semQ = <<>>
  /\ pendingSigs = [t \in Thread |-> {}]
  /\ waitMask = [t \in Thread |-> {}]
  /\ blockedOn = [t \in Thread |-> "none"]
  /\ toWake = [t \in Thread |-> NULL]
  /\ holders = {}

SyncCalling(w, call, lock) == At(w, "user") /\ call \in SyncCalls /\ ~Locked(lock)

(* flush_last_created_pub and schedule_park.                                  *)
Park(w, kind, lock) ==
  /\ Flush(w)
  /\ pc' = [pc EXCEPT ![current[w]] = "parked"]
  /\ blockedOn' = [blockedOn EXCEPT ![current[w]] = kind]
  /\ Leave(w, "unlock", lock)
  /\ UNCHANGED <<phase, foot, inlineExec, joins, arena, alive, toWake>>

(* The waiter at the head of a queue, if any, is to be woken.                 *)
HeadOf(q) == IF q = <<>> THEN NULL ELSE Head(q)
Popped(q) == IF q = <<>> THEN q ELSE Tail(q)

WillWake(w, t) ==
  /\ toWake' = [toWake EXCEPT ![current[w]] = t]
  /\ pc' = IF t = NULL THEN pc ELSE [pc EXCEPT ![current[w]] = "waker"]
  /\ UNCHANGED <<phase, ready, workers, lastCreated, inlineExec, joins, arena, alive,
                 blockedOn>>

(* SYNC_WAKE: runq_push.                                                      *)
Woken(w) == ready \cup {toWake[current[w]]}

SyncWake(w) ==
  /\ At(w, "waker")
  /\ ready' = Woken(w)
  /\ toWake' = [toWake EXCEPT ![current[w]] = NULL]
  /\ pc' = [pc EXCEPT ![current[w]] = "user"]
  /\ UNCHANGED <<phase, workers, lastCreated, inlineExec, joins, arena, alive, locked, mutexQ,
                 count, semQ, sigVars, blockedOn, holders>>

-------------------------------------------------------------------------------
(* thread_mutex_lock; the mutexes are not recursive.                          *)
Lock(w) ==
  /\ SyncCalling(w, "lock", MutexLock)
  /\ current[w] \notin holders
  /\ IF locked
     THEN /\ mutexQ' = Append(mutexQ, current[w])
          /\ Park(w, "mutex", MutexLock)
          /\ UNCHANGED <<locked, holders>>
     ELSE /\ locked' = TRUE
          /\ holders' = holders \cup {current[w]}
          /\ UNCHANGED <<vars, mutexQ, blockedOn, toWake>>
  /\ UNCHANGED <<count, semQ, sigVars>>

(* thread_mutex_unlock by the holder: the first waiter inherits the mutex.    *)
MutUnlocked == FALSE  \* mutant: the mutex is released to whoever comes first
Unlocked == mutexQ # <<>>

Unlock(w) ==
  /\ SyncCalling(w, "unlock", MutexLock)
  /\ current[w] \in holders
  /\ holders' = holders \ {current[w]}
  /\ locked' = Unlocked
  /\ mutexQ' = Popped(mutexQ)
  /\ WillWake(w, HeadOf(mutexQ))
  /\ UNCHANGED <<count, semQ, sigVars>>

(* thread_sem_wait and thread_sem_post.                                       *)
SemWait(w) ==
  /\ SyncCalling(w, "sem_wait", SemLock)
  /\ count' = count - 1
  /\ IF count' < 0
     THEN semQ' = Append(semQ, current[w]) /\ Park(w, "sem", SemLock)
     ELSE UNCHANGED <<vars, semQ, blockedOn, toWake>>
  /\ UNCHANGED <<locked, mutexQ, sigVars, holders>>

MutPostWakes(n) == n < 0  \* mutant: the last waiter is forgotten
PostWakes(n) == n <= 0

SemPost(w) ==
  /\ SyncCalling(w, "sem_post", SemLock)
  /\ count < SemMax
  /\ count' = count + 1
  /\ semQ' = IF PostWakes(count') THEN Popped(semQ) ELSE semQ
  /\ WillWake(w, IF PostWakes(count') THEN HeadOf(semQ) ELSE NULL)
  /\ UNCHANGED <<locked, mutexQ, sigVars, holders>>

(* thread_kill(t, s) and thread_sigwait(mask), under a cold_lock.             *)
Kill(w, t, s) ==
  /\ SyncCalling(w, "kill", t)
  /\ pc[t] \notin Unused
  /\ IF s \in waitMask[t]
     THEN /\ pendingSigs' = [pendingSigs EXCEPT ![t] = @ \ {s}]
          /\ waitMask' = [waitMask EXCEPT ![t] = {}]
          /\ WillWake(w, t)
     ELSE /\ pendingSigs' = [pendingSigs EXCEPT ![t] = @ \cup {s}]
          /\ UNCHANGED <<vars, waitMask, blockedOn, toWake>>
  /\ UNCHANGED <<locked, mutexQ, count, semQ, holders>>

SigHit(t, mask) == pendingSigs[t] \cap mask

SigWait(w, mask) ==
  LET me == current[w] IN
    /\ SyncCalling(w, "sigwait", me)
    /\ IF SigHit(me, mask) = {}
       THEN /\ waitMask' = [waitMask EXCEPT ![me] = mask]
            /\ Park(w, "sig", me)
            /\ UNCHANGED pendingSigs
       ELSE /\ pendingSigs' = [pendingSigs EXCEPT ![me] = @ \ {Min(SigHit(me, mask))}]
            /\ UNCHANGED <<vars, waitMask, blockedOn, toWake>>
    /\ UNCHANGED <<locked, mutexQ, count, semQ, holders>>

(* A blocked call returns when its thread runs again; nothing is tested anew. *)
SyncReturn(w) ==
  /\ At(w, "parked")
  /\ pc' = [pc EXCEPT ![current[w]] = "user"]
  /\ blockedOn' = [blockedOn EXCEPT ![current[w]] = "none"]
  /\ holders' = IF blockedOn[current[w]] = "mutex" THEN holders \cup {current[w]} ELSE holders
  /\ UNCHANGED <<phase, ready, workers, lastCreated, inlineExec, joins, arena, alive, locked,
                 mutexQ, count, semQ, sigVars, toWake>>

(* thread_create resets the signal fields of the descriptor.                  *)
CreateResets(w, t) ==
  /\ Create(w, t)
  /\ pendingSigs' = [pendingSigs EXCEPT ![t] = {}]
  /\ waitMask' = [waitMask EXCEPT ![t] = {}]
  /\ UNCHANGED <<locked, mutexQ, count, semQ, blockedOn, toWake, holders>>

-------------------------------------------------------------------------------
(* The client unlocks before it finishes.                                     *)
ThreadStep(w) ==
  /\ \/ JoinLocks(w) \/ Proceed(w) \/ Yield(w) \/ JoinAny(w)
     \/ current[w] \notin holders /\ End(w)
  /\ UNCHANGED syncVars

SyncStep(w) ==
  \/ Lock(w) \/ Unlock(w) \/ SemWait(w) \/ SemPost(w) \/ SyncWake(w) \/ SyncReturn(w)
  \/ \E t \in Thread, s \in Sig : Kill(w, t, s)
  \/ \E mask \in (SUBSET Sig) \ {{}} : SigWait(w, mask)
  \/ \E t \in Thread : CreateResets(w, t)

SyncNext == \E w \in Worker : ThreadStep(w) \/ SyncStep(w)

SyncSpec == SyncInit /\ [][SyncNext \/ (Stopped /\ UNCHANGED syncVars)]_allVars

-------------------------------------------------------------------------------
(* The threads that have been taken out of a queue and have not run since.    *)
OnItsWay(t) ==
  \/ t \in ready
  \/ \E w \in Worker : current[w] = t
  \/ \E u \in Thread : pc[u] = "waker" /\ toWake[u] = t

BlockedOn(kind) == {t \in Thread : pc[t] = "parked" /\ blockedOn[t] = kind}

(* A locked mutex has one owner: the thread that holds it, or the waiter that *)
(* unlock has chosen and that is still on its way to run; a free one none.    *)
MutexOwned ==
  phase = "running" =>
    Cardinality(holders \cup {t \in BlockedOn("mutex") : OnItsWay(t)})
      = IF locked THEN 1 ELSE 0

(* No wakeup is lost: a parked thread is either on its way to run, or where   *)
(* the next unlock, post or kill finds it and not both; a negative count is   *)
(* the length of the queue; no signal of an awaited mask stays pending.       *)
Waits(t) == t \in ToSet(mutexQ) \cup ToSet(semQ) \/ waitMask[t] # {}
NobodyForgotten ==
  phase = "running" =>
    /\ \A t \in Thread : pc[t] = "parked" => (Waits(t) <=> ~OnItsWay(t))
    /\ Len(semQ) = IF count < 0 THEN -count ELSE 0
    /\ \A t \in Thread : pendingSigs[t] \cap waitMask[t] = {}
=============================================================================
