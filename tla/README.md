# Verification of the thread library

The repository is a library of cooperative and preemptive user-level threads
for Linux, in C, with the API of `src/src/thread.h`.  One source tree gives
several builds:

| build | files | what is different |
|---|---|---|
| single core (default) | `thread.c`, `thread_sync.c`, `scheduler.h`, `context_switch.S` | one kernel thread runs every thread |
| `-DUSE_PRIORITY` | the same | elections take the highest priority |
| `-DUSE_PREEMPTION` | the same, with `preempt.h` | `SIGALRM` yields for the running thread |
| `-DFP` | the same, with `dedup.h` | threads that run the same function on the same argument are merged |
| `-DMULTICORE` (M:N) | `thread_mn.c`, `scheduler_mn.c`, `thread_sync.c` | one worker per core, work stealing |
| first version | `src/options/src/` | an earlier library of its own |

Paths below are those of the source tree with its root at `src/`; `thread.c`
alone is `src/src/thread.c`.

## Inventory

**Run list** (`scheduler.h`).  State: the fields `sched_next` and `sched_prev`
of every descriptor; `current` is the entry point of a circular list without
header.  Operations: enqueue before `current`, remove, replace, elect.  It is
correct when it is one cycle, linked both ways, of the running thread and the
ready threads.  Hard: the same `sched_next` links the wait queues of
`thread_sync.c`, and the functions do not check that they are called within
their contract.

**Descriptor slab and stack arena** (`thread.c`).  State: a bump index and a
LIFO free list each.  Threads get a stack at their first election only
(`lazy_stack_alloc`), and a thread exits while it stands on its stack, which
is therefore kept aside (`pending_dead_stack`) until a later exit or yield.
Correct when every stack is in one place and when none is reused while in use.
Hard: the release is in one call, the acquisition in the middle of another.

**Threads of the single-core build** (`thread.c`, `context_switch.S`).  State:
the descriptors (`thread_hot_t`, `thread_cold_t`), `current`, `last_created`
(the newest thread, kept out of the ring until the next call that flushes it)
and `inline_executing`.  Operations: create, yield, join, exit, setpriority,
and the end of the process.  A join of a thread that was never elected runs its
function on the stack of the joiner (`inline_run`).  Hard: orderings of calls
in which a thread is flushed, elected, run inline, awaited and recycled in
turn; the hand-over from an exiting thread to its joiner.

**Deadlock detection** (`uf_find`, `uf_union` in `thread.c`).  State: a
union-find forest over the descriptors.  `thread_join` unites the joiner and
its target and returns `EDEADLK` if they were united already.  Correct when
exactly the joins that close a cycle are refused.  Hard: unions are never
undone, and descriptors are recycled.

**Mutexes, semaphores and signals** (`thread_sync.c`).  State: `locked` or
`count` with a wait queue; the pending and awaited signals of each thread.
Operations: lock, unlock, wait, post, kill, sigwait.  Correct when ownership is
exclusive and handed over, when a negative count is the length of the queue and
when no wakeup is lost.  Hard: a blocked thread is off the run list and its link
field is in use by a queue.

**Preemption** (`preempt.h`).  The handler yields; the calls mask the signal.

**M:N scheduler** (`scheduler_mn.c`).  State: a Chase-Lev deque, an injector
stack and a lock per worker, the mask of idle workers.  Operations: push, pop,
steal, inject, wake, block, park.  Correct when every pushed thread is run
exactly once and no worker sleeps while there is work for it.  Hard: owner and
thieves race on the last item; a worker goes to sleep while another pushes.

**M:N threads** (`thread_mn.c`).  The state of the single-core threads, per
worker or under locks, with callbacks that run after the switch
(`after_switch`) so that a thread becomes stealable only once its registers are
saved.  Correct when a thread is pushed once and never before it is saved, when
no stack has two users, when a joiner comes back after its target and when the
process ends with its last thread (`alive_count`).  Hard: everything that is
read before a switch and used after it on another worker; a spin lock that is
kept across a switch; what one worker does between two accesses of another.

**Slot caches** (`thread_mn.c`).  State: a free list and an arena under
`alloc_lock`, and a cache per worker, for descriptors and for stacks.  Correct
when a slot has one owner and none is lost.  Hard: the batches that move between
a cache and the pool; the slots a cache keeps while another worker runs out.

**M:N mutexes, semaphores and signals** (`thread_sync.c` with `-DMULTICORE`).
The objects of the single-core build behind a spin lock each.  Hard: the waiter
that was taken out of a queue is pushed after the lock is released.

**Deduplication** (`dedup.h`, and the `-DFP` paths of `thread.c`).  State: an
open-addressing table of (function, argument), an entry from the flush of a
thread to its release; a reference count in each descriptor.  Operations:
lookup, insert, remove; create merges, the last join frees.  Correct when a
lookup finds the thread of exactly that pair and when a descriptor is freed by
the last of its holders.  Hard: removal must not cut the probe sequences of
other entries; the probes have no bound; a thread has several holders.

**First version** (`src/options/src/thread.c`).  The calls mask the timer
themselves, and an early return may forget to unmask it.

**Platform layer, tests, scripts.**  `portable.h`, `ctx_ucontext.c`, the test
programs, the Makefiles: no state of the library of their own.

The list of what is hard to test, line by line, is in `PROJECT.json` under
`hazards`.

## Modules

| module | models | state |
|---|---|---|
| `SchedRing` | `scheduler.h` | none: operators on a record `[next, prev]` of two functions |
| `UnionFind` | `uf_find`, `uf_union` | none: operators on `[parent, rank]` |
| `Arena` | the slab and the stack arena | none: operators on `[free, next]` |
| `MonoThread` | the single-core threads | `current`, the ring, the descriptors field by field, both arenas, the pending stack |
| `MonoSync` | `thread_sync.c`, single core, extends `MonoThread` | one mutex, one semaphore, the signals |
| `DedupTable` | the table of `dedup.h` | none: operators on the control byte, key and value of every slot |
| `MergedThreads` | the `-DFP` build, extends `DedupTable` | the reference counts, `last_created`, the table, who holds what |
| `AbstractDeque` | what the workers need of a deque (abstract) | the queue, the last answer |
| `ChaseLev` | the deque of a worker, each access of owner and thieves to shared memory | `top`, `bottom` and the ring in memory, the store buffer of the owner, the locals of each worker |
| `AbstractScheduler` | the contract between threads and run queues (abstract) | the ready set, the thread of each worker, the thread whose registers are being saved |
| `RunQueues` | the scheduler of the M:N library over atomic deques | the deques and injectors, the mask of idle workers, where each worker is, the callback after its switch |
| `MNThread` | the M:N threads over one ready set, with `UnionFind` and `SlotPool` | `current`, `last_created`, `after_switch` and `inline_executing` of each worker, the descriptors, `alive_count`, the stacks |
| `MNSync` | `thread_sync.c` with `-DMULTICORE`, extends `MNThread` | one mutex, one semaphore, the signals, the waiters on their way |
| `SlotPool` | what the library needs of an allocator (abstract) | the slots handed out |
| `SlotCaches` | the caches of the workers over the pool | the pool, the caches, the slots handed out |
| `StructureProofs` | what the operators of the list, of the arena and of the union-find forest keep, for every list, arena and forest | |
| `MonoThreadProofs` | the invariants of `MonoThread`, for every number of threads and stacks | |
| `MonoSyncProofs` | those of `MonoSync`, on top of `MonoThreadProofs` | |
| `SlotCachesProofs` | the invariants and the refinement of `SlotCaches`, for every number of workers and slots | |
| `RunQueuesProofs` | the invariants and the refinement of `RunQueues`, for every number of workers and threads | |
| `ChaseLevProofs` | the refinement of `ChaseLev`, for every number of thieves, every ring and all threads | |
| `MNProofs` | the invariants and the refinements of `MNThread`, and on top of them of `MNSync`, for every number of workers, descriptors and stacks | |
| `MergedThreadsProofs` | the reference counts and the table of `MergedThreads`, for every number of threads, pairs, groups and slots | |

**How they compose.**  The M:N library is checked in layers, each against what
the next one assumes of it.  `ChaseLev` implements `AbstractDeque`, and
`RunQueues` uses atomic deques.  `RunQueues` implements `AbstractScheduler`;
`MNThread` and `MNSync` use one ready set instead of the queues and implement
the same `AbstractScheduler`, whose actions are the contract from both sides: the
threads make ready only what is nowhere, and never before its registers are
saved; the queues run each thread once and keep it until then.  `SlotCaches`
implements `SlotPool`, and `MNThread` takes its stacks from an instance of
`SlotPool`, where `Slack` says how many free stacks a refusal may overlook.

**What a step is.**  In the single-core build one kernel thread executes
everything, and the timer is masked inside the calls.  A step of `MonoThread` is
therefore a whole call of the API up to its return or to the context switch it
makes; what the call does after its thread is resumed is an action of its own
(`YieldReturn`, `JoinReturn`, `SyncReturn`; `ThreadEntry` for a thread that has
never run), enabled when that thread is `current` again.  `preempt_handler` is a
call of `thread_yield` between two calls of the client, and `thread_yield` is
always enabled in the model where the client may call it.  That the masks do
cover each call is assumed.  `MergedThreads` has the same steps.

In the M:N modules the workers run at once, and a step is one access to shared
memory (`ChaseLev`), one critical section or unlocked access of the scheduler
(`RunQueues`), or what a worker does up to its next access to the ready set, to
the `cold_lock` of a thread or to `alive_count` (`MNThread`, `MNSync`).
`ChaseLev` has the memory of x86: the stores of the owner go through a FIFO
buffer that `Drain` empties at any moment and that the `seq_cst` operations (the
exchange on `bottom`, the compare-and-swap on `top`) empty first; thieves store
only by compare-and-swap.  `idle_lock` is no variable of `RunQueues`: only the
worker that goes to sleep holds it across steps, and its place says when.  In
the same way `cold_lock` is no variable of `MNThread`: only a thread that parks
keeps it across a step, until the callback `unlock` of its worker has run
(`Locked`).

**Correspondence.**  The variables carry the names of the C fields: `ring.next`
and `ring.prev` are `sched_next` and `sched_prev`; `rsp`, `func`, `waiting`,
`stackBase`, `prio`, `uf`, `inliner` (`inline_jmpbuf`) are fields of the
descriptors; `pc[t]` stands for `state`, `started` and the place of the thread in
its call.  A stack pointer of `MonoThread` is `"null"`, `"saved"` (a frame that
can be resumed once) or `"stale"` (anything else); loading a pointer that is not
`"saved"` puts the process in phase `"crashed"`, and `abort` in phase
`"aborted"`.  In the build without priorities the call that yields also releases
the pending stack once it stands on the stack of the next thread, whatever that
thread is (`YieldSwitches`, `context_switch.S:120-135`); a thread that comes back
to its yield only returns (`YieldReturn`), whoever has resumed it.  Each operator
of `SchedRing` performs the assignments of its C function in their order, so that
calling it outside its contract damages the list as it would in C.  `Drained`
writes the result of the loop of `thread_system_destroy` in closed form, on the
ring that loop starts from. In `MNThread` `foot[w]` is the stack a worker still
stands on between the moment its thread is `FINISHED` and the switch; `after[w]`
is `after_switch` with its argument and the thread whose registers the switch
saves; `frame` is the `inline_jmpbuf` of an inline run, with the worker that
`thread_join` goes on with.  A table of `DedupTable` shows no key in a free slot,
where the code leaves the old one: nothing reads it while the control byte is
negative.  The loops of the probes have no bound of their own; a call whose probe
meets no group where it would end puts the process of `MergedThreads` in phase
`"probing"`, for ever.

**The clients.**  In the single-core modules the threads make the calls in `Calls`
and `SyncCalls`, in any order, on any thread that exists, with three restrictions:
no thread is joined by two others, a non-recursive mutex is not locked twice, and
the thread that holds a mutex unlocks it before it ends. `ClientRecycles` says
whether a descriptor that was joined is used again, and `ClientAsserts` whether
the client stops at the first `-1`, as the `assert(!err)` of every test does.
Mutexes are locked at any moment, threads that have never run included (see
`thread_sync.c:141` below).  The client of `MNThread` and `MNSync` is the same.
The client of `RunQueues` makes threads ready, yields, blocks or ends, with or
without a joiner.  The client of `MergedThreads` is a recursion, the kind of
program the `-DFP` build is for: main creates the pairs of `RootKey`, the function
of a pair creates smaller pairs, in any order and any number of times, and whoever
creates a pair joins it as often before it ends.  Here the same
thread has several holders, and several joiners.

## Runs

| run | instance | what it shows |
|---|---|---|
| `MonoCore` | 3 descriptors, 2 stacks, recycled for ever, two priorities | the ring, the partition of the stacks, the validity of every switch, exhaustion, joins, the stack of the dying thread; `uf_find` always ends; no election passes over a higher priority |
| `MonoJoins` | 4 threads, none recycled, the build without priorities | `EDEADLK` exactly on cycles; `clean_exit` leaves nobody behind; the partition of the stacks where a yield releases the pending one; every join returns |
| `SyncMix` | 3 threads, a mutex, a semaphore, joins and inline runs | the lists stay disjoint; ownership; a negative count is the length of the queue; only a lock that parks may switch to a thread without a stack; every lock is granted |
| `SyncSignals` | 3 threads, 2 signals | no lost signal; a waiter is woken by a signal of its mask |
| `MergedThreads` | 4 pairs, 3 descriptors besides main, 2 groups of 2 slots | the last holder frees a descriptor and nobody earlier; `thread_create` finds the thread of the pair and no other, also in tables where some probe never ends |
| `ChaseLev` | an owner, two thieves, 3 threads, a ring of 2 cells | the deque, with stores seen late, implements `AbstractDeque`: nothing taken twice or lost, no pop of nothing when something is there |
| `RunQueues` | 2 workers, 3 threads | the queues implement `AbstractScheduler`; a thread is in one place; a worker does not sleep on a thread that was injected; once threads only block or end no queue keeps one; the shutdown wakes every worker |
| `SlotCaches` | 2 workers, 5 slots, caches of 2 | the caches implement `SlotPool`; no slot is lost or in two places; a refusal means that the free slots are in the caches of others |
| `MNThread` | 2 workers, 3 descriptors, 2 stacks, recycled for ever | the calls keep the contract of `AbstractScheduler`; a joiner comes back after its target has left its stack; no created thread is forgotten; `alive_count` is exact; the process ends when its functions do |
| `MNSync` | 2 workers, 3 threads, a mutex, a semaphore, a signal | a mutex has one owner; no waiter is forgotten; parking keeps the contract of `AbstractScheduler` |
| `MissedDeadlock`, `ReusedStack` | 3 threads | the findings below |

**Bounds.**  Three threads give every shape of the ring that the operators
distinguish (alone, a pair, a neighbour of `current`, a thread further away),
and a joiner, its target and a third that reorders the ring meanwhile.  Cycles
of joins and chains of inline runs need a fourth in `MonoJoins`.  Two stacks for
three threads make the arena run out with and without a pending stack; the main
thread has a stack of its own.  Descriptors and stacks are recycled without
bound in `MonoCore` and `MNThread` since the state keeps no history.  `SemMax`
bounds the count of the semaphore from above.  One mutex and one semaphore are
enough for the list properties: what two objects share is the ring and
`sched_next`, which the mutex and the semaphore share already.

In `ChaseLev` `IndexBound` lets `bottom` reach twice the size of the ring, so
that every cell is written over while a thief may still read it; the wrap of the
64-bit indexes is out of reach of a program.  Two thieves race with each other
and with the owner.  In `RunQueues`, `MNThread` and `MNSync` two workers give
every pair of a sleeper and a waker, of a thread on its way out and the one that
awaits it, and a thread that comes back on another worker than it left; three
threads give a deque of two (the size at which a push wakes somebody) while the
third runs, and a joiner, a target and an unlocker at once.  `WorkersAssumption`
keeps the number of workers below the 64 bits of the mask.  `MNSync` leaves out
`yield`, which the joins and blocking calls interleave for, and posts no more
than to a count of 0 (`SemMax`), where every wait finds the semaphore taken or a
waiter queued.  The five slots of `SlotCaches` let both caches be full with one
slot left to release.

Three of the four pairs of `MergedThreads` have the same home group, two of them
the same hash, and the fourth lives in the other group: groups overflow into each
other and are removed from in every order, until both have been full once and a
lookup never ends (phase `"probing"`).  Main creates two of them, one of each hash
of the first group, and they the others (`RootKey`).  `HoldMax` bounds what has
been created and not joined yet to three, enough for a thread with three holds and
for three threads at once.  Three threads cannot fill four slots, so here each
insertion ends; with `GroupSize = 1`, where it may not, and `RootKey = Key`, TLC
has checked the same properties (279,283 states), and the proofs are for every
size.

Deadlock is checked in every run: an ended process stutters (`Ended`, `Stopped`),
and otherwise some call is always possible.

**Fairness.**  `FairSpec` of `MonoThread` states `WF(Resume)`: the processor goes
on executing a thread it has resumed, and the steps of `Resume` have no
alternative.  `SF(YieldSwitches)` says that a running thread which may yield
again and again yields in the end: the timer of the preemptive build does so for
ever, and a cooperative client that never yields keeps the processor by design.
What the code cannot ensure is a hypothesis of the property and not of the
specification: `FunctionsEnd` (functions end) for `EveryJoinReturns`,
`HoldersUnlock` (who holds the mutex neither keeps it for ever nor blocks) for
`EveryLockReturns`.

In `RunQueues` the kernel runs each worker (`WF(Loop)`), and a thread that keeps
its worker blocks or ends at last (`WF(Block)`).  `SF(Signal \/ Broadcast)`: a
worker that waits for `idle_lock` of another gets it although the other takes
it again and again; weak fairness is not enough since the lock is free and held
in turn.  Spurious wakeups of `pthread_cond_wait` happen and are not fair.  That
threads stop becoming ready is the hypothesis `Calm` of `NothingLeftBehind`: a
worker pops its own deque before its injector (`scheduler_mn.c:287`), so while
local threads yield for ever a thread in the injector may wait for ever.

In `MNThread` the kernel runs each worker as well: `WF(Proceed(w))` for what a
worker does without a choice of the client, and weak fairness of `JoinLocks(w)`
for the spin on `cold_lock`.  The latter is written `[]<>~CanLock(w)`, which says
the same (`JoinLocks(w)` is enabled exactly when `CanLock(w)` holds, and a step of
it leaves `CanLock(w)`) and spares TLC an `ENABLED` over the union-find.
`ProcessEnds` has three hypotheses: no thread keeps its worker in its own code
for ever, threads stop creating and yielding, and no cycle of joins is ever
there, which leaves out the cycles that recycled descriptors let through
(`MissedDeadlock`) and also the runs in which one is only attempted and refused.
The process that goes astray (`thread_mn.c:701` below) or aborts has ended, too.

## Findings

* `MissedDeadlock` (`thread.c:405`).  `thread_cold_reset` makes a recycled
  descriptor the root of itself; nodes that hung below it lose their class, and
  a join that closes a cycle is then accepted.  The converse also happens:
  classes remember joins that ended, so a join that closes no cycle may be
  refused.  Without recycling (`MonoJoins`) the answer is exact.
* `ReusedStack` (`thread_mn.c:727`).  A thread that exits with nobody waiting
  unlocks `cold_lock` with its state `FINISHED` and stands on its stack until
  `schedule_exit`.  A join that finds `FINISHED` in between releases the stack at
  once, and another thread may start on it.  The joiner that is parked already
  is kept back until the switch for this very reason.

Each is a `violation` run with a property that states the sentence of the source
it contradicts; `PROJECT.json` quotes that sentence.  Observations that need no
run of their own:

* `thread.c:611`: a join that finds nobody ready returns `-1` but leaves its
  caller in `waiting` of the target, whose exit may link the caller into the
  ring a second time.  This is why the runs and the proofs on the ring assume
  a client that stops at the first `-1` (`ClientAsserts`); with
  `ClientAsserts = FALSE` and a semaphore `RingOK` is violated.
* `thread_sync.c:141`: the lock is the only blocking call that switches without
  `lazy_stack_alloc`; it crashes when the elected thread was flushed by an earlier
  call and has never run.  `SyncMix` gets there (phase `"crashed"`): `SwitchTargetValid`
  is false in `MonoSync`, and `CrashOnlyInLock` says that nothing else leads there.
* `context_switch.S:138`: the comment says that a yield which does not switch needs
  not look at `pending_dead_stack`, because a thread resumed by `context_restore`
  returns into `thread_yield_asm` and releases that stack there.  The code pushes no
  such return address: `context_restore` and `context_switch` pop the registers and
  return to the caller of `thread_yield`.  The stack stays pending until the next
  yield that switches, or the next exit; until then the arena has one stack less
  than `thread.c:23-28` lets one expect, and none is lost (`StackPartition`).
  For the same reason `thread_yield`, an alias of `thread_yield_asm` in this build,
  returns what happens to be in `rax` to a thread resumed that way.
* `thread_sync.c:222`: the wait decides that nobody could post before it flushes
  `last_created`, gives up although the thread just created would have posted,
  and leaves the count decremented.
* `thread_sync.c`, priority build: the blocking calls elect before `last_created`
  is flushed, so they may pass over the newest thread although its priority is the
  highest; `PriorityElection` is therefore about the calls of `thread.c`.
* `context_switch.S:75`: `inline_executing` is global; when a thread run inline
  blocks, `thread_yield` returns at once in every thread (action `YieldDisabled`).
* `scheduler.h:82`: the election takes the thread enqueued last, where comments
  speak of a FIFO.  Yields go round the other way, but a ready thread may be passed
  over as long as the threads elected before it create others and end.
* `scheduler_mn.c:10` says that the owner drains one injected thread at each
  `pop_block`; it does so only when its own deque is empty (line 287).
* `thread_mn.c:701`: a thread run inline may park in a nested join and come back
  on another worker; `thread_join` then goes on with the worker it has read
  before.  `MNThread` stops there (phase `"astray"`), and `InlineStays`, which says
  that it does not happen, is false; the comment at line 90 speaks only of yields.
* `dedup.h:209`: a slot becomes empty again only if its group has another empty
  one, so a group that was full once never has an empty slot again.  When that
  is true of every group, the search for a pair that is not in the table never
  ends, however few pairs there are: two pairs at a time are enough with
  `Key = {0, 1, 2, 3}`, `HashRange = 4`, `TagRange = 2`, two groups of two slots and
  `RootKey = Key`, `HoldMax = 2`.  The run `MergedThreads` gets there (phase `"probing"`), and
  `TableIsExact` says how far it goes: a probe for a pair that is in the table ends.
* `thread.c:608`: in the `-DFP` build a second caller that waits for a thread
  overwrites the first in `waiting`, and the end of an inline run
  (`thread.c:547`) looks at no waiter; the joiner that was overwritten or
  overlooked is never resumed.  `MergedThreads` has these behaviours: its safety
  properties hold all the same.  The comment at `thread.c:588` leaves a join by
  two threads unspecified, but merging makes it happen in clients that join each
  thread they have created once.
* The first version, `src/options/src/thread.c`, read but not modelled: returns
  of `mutex_lock` and `mutex_unlock` (lines 355, 385) leave `SIGALRM` masked;
  `joining` of a thread is not cleared by a refused join, so that a later walk
  along the chain of joins may meet the descriptor of another thread, or go
  round for ever.

## Proofs

Each theorem is about the specification a run checks on a small instance, for
every value of its constants: `MonoThreadProofs` and `MonoSyncProofs` for every
`ThreadCap`, `StackCap` and set of calls, with and without priorities,
`SlotCachesProofs` for every `Slot`, `Worker`, `CacheMax` and `Refill`,
`ChaseLevProofs` for every `Thread`, `Thief`, `Cap` and `IndexBound`,
`RunQueuesProofs` for every `Thread` and `NWorkers`, `MNProofs` for every number
of workers, descriptors and stacks, and `MergedThreadsProofs` for every `Thread`,
`Key`, `HashRange`, `TagRange`, `Groups`, `GroupSize`, `RootKey` and `HoldMax`.
The M:N library is proved layer by layer, as it is checked: the deque is a deque,
the queues over deques keep their side of `AbstractScheduler`, the threads keep
theirs.

| theorem | property |
|---|---|
| `Invariance` | the inductive invariant `IInv` of each module |
| `TypeCorrect` | `TypeOK` of `MonoThread` and of `RunQueues` |
| `RingCorrect` | `RingOK` |
| `StacksCorrect` | `StackPartition` |
| `SwitchesCorrect` | `SwitchTargetValid` |
| `JoinsCorrect` | `JoinAwaitsFinish` |
| `AbortsCorrect` | `AbortOnlyWhenFull` |
| `ExitStackCorrect` | `ExitStackNotReused` (an action property) |
| `FindsEnd` | `FindTerminates` |
| `CyclesAreRefused` | `CycleRefused` |
| `OnlyCyclesAreRefused` | `OnlyCycleRefused` |
| `LastExitCorrect` | `LastExitLosesNoThread` |
| `RanksAreLogarithmic` | `RankIsLogarithmic` |
| `PickHighestCycle` | the list walk elects a thread of the list, and none has a higher priority |
| `ElectionCorrect` | `PriorityElection` (an action property) |
| `SyncInvariance` | the inductive invariant `SyncInv` of `MonoSync` |
| `CrashesCorrect` | `CrashOnlyInLock` (an action property) |
| `SyncKeepsThreads` | `RingOK`, `StackPartition` and `JoinAwaitsFinish`, kept by the steps of `MonoSync` |
| `MutexCorrect` | `OneOwner` |
| `QueuesCorrect` | `QueuesOK` |
| `SignalsCorrect` | `NoLostSignal` |
| `PartitionCorrect` | `SlotPartition` |
| `RefusalCorrect` | `RefusedOnlyWhenScarce` |
| `Refinement` | `PoolSpec`: `SlotCaches` implements `SlotPool` |
| `OnePlaceCorrect` | `OnePlace` |
| `NoLostInjectionCorrect` | `NoLostInjection` |
| `Implements` | `SchedulerSpec`: `RunQueues` implements `AbstractScheduler` |
| `DequeInvariance` | the inductive invariant of `ChaseLev` |
| `DequeImplements` | `DequeSpec`: `ChaseLev` implements `AbstractDeque` |
| `ThreadTypes` | `TypeOK` of `MNThread`, from its inductive invariant |
| `StacksAreOwned` | `StacksOwned` |
| `CreatedIsReachable` | `CreationReachable` |
| `AliveCountIsExact` | `AliveExact` |
| `WokenOnlyAfterLeaving` | `WokenAfterLeaving` |
| `ThreadsImplementScheduler` | `SchedulerSpec`: `MNThread` implements `AbstractScheduler` |
| `ThreadsKeepWithSync` | the invariant of `MNThread`, kept by the steps of `MNSync` |
| `MutexHasOneOwner` | `MutexOwned` |
| `NobodyIsForgotten` | `NobodyForgotten` of `MNSync` |
| `SyncImplementsScheduler` | `SchedulerSpec`: `MNSync` implements `AbstractScheduler` |
| `InsertedSound` | an insertion that ends adds its pair to the table and breaks no probe |
| `RemovedSound` | a removal takes away its pair and no other, and breaks no probe |
| `MergedInvariance` | the inductive invariant `MergedInv` of `MergedThreads` |
| `RefsCorrect` | `RefsAreHolders` |
| `TableCorrect` | `TableIsExact` |

**Assumptions.**  For the threads, the named assumptions of `MonoThread` and
`ClientAsserts`: without it the theorem is false (`thread.c:611`, above).  Both
builds are covered, except that `ElectionCorrect` is about `UsePriority`, as its
property is.  For their mutexes, semaphores and signals the same, `ClientAsserts`;
a lock may be made at any moment, and what it leads to when it elects a thread
without a stack (`thread_sync.c:141`, above) is part of the invariant.  For the
caches, `CacheAssumption`, for the queues `WorkersAssumption`, for the deque
`DequeAssumption`, for the M:N threads `MNAssumption`, and `SyncAssumption` for
what synchronises them; for the table `TableAssumption` (the number of groups is a
power of two, at most 2^16, so that a probe visits all of them) and for the
threads in it `MergedAssumption`, that they are finitely many.  Nothing is assumed
of `ClientRecycles`, so that a client that uses descriptors again is covered,
except in four theorems: `CyclesAreRefused`, `OnlyCyclesAreRefused` and
`LastExitCorrect` assume that it is `FALSE`, and `RankIsLogarithmic` is about that
case.  With recycled descriptors the first two are false (`MissedDeadlock`), and
so is the third: a cycle that was accepted leaves its threads blocked when the
last of the others exits (TLC finds it with four threads).  `FindsEnd` needs no
such hypothesis.

**The invariant.**  `RingOK` is not inductive.  That `sched_replace` in
`thread_exit` keeps the ring needs the joiner to be off the ring and its target
to be on it (`JoinsOK`); that a switch finds a frame needs each ready thread to
have one, or to have neither frame nor stack (`FramesOK`); that flushing enqueues
a thread once needs `LastOK`; that a new descriptor is nobody's needs the free
list to hold exactly the free ones (`SlotsOK`); `ResumedOK` says that a joiner is
`current` again only when its target is done, and `InlineOK` counts the inline
runs.  `StackPartition` needs the same facts on the free list of stacks.  `IInv`
is their conjunction with `TypeOK`, `StackPartition` and the ring.

**The argument.**  `Cycle(L, S)` says that `next` and `prev` are inverse on `S`
and that no smaller part of `S` is closed under `next`, a formulation that needs
neither paths nor lengths.  `StructureProofs` shows that enqueue, remove and
replace take a cycle to a cycle and what allocation and release do to an arena, and
the `Parted...` lemmas what they do to the partition of stacks.  Its lemma `Least`
replaces induction: a nonempty set of naturals has a least element, so that a claim
about every step of a walk follows from looking at the first one that fails.  From
it comes `PickHighestCycle`: the walk of `sched_pick_next` comes back to where it
started having seen the whole list.
`FlushOK` and `SwitchOK` describe the two fragments that most calls share; `LoadOK` is the
part of a switch before the pool changes, which a yield follows by the release of the
pending stack.  Then
there is one lemma per action (`CreateStep`, `JoinWaitStep`, ...), `StepOK` which
combines them, and the theorems.  The lemmas of the actions that switch also
prove `Handover`, from which `ExitStackCorrect` follows.  `AbortsCorrect` counts: an
abort finds the arena full, and all stacks but the pending one have different threads
as owners, none of them finished (`StacksHeld`).  `ElectionCorrect` needs one
thing more of `LastOK`: who is elected is chosen after the flush, so that the last
created thread has to be among those the list walk has seen (`ReadyElectable`).

For the deadlock detection `Forest` says that a level can be given to each node
which goes down from child to parent.  A round of `uf_find` goes down, so it is at
the root after at most one round per node (`Descent`, by the pigeonhole
principle), and none of halving, linking two roots and resetting a node breaks the
levels; hence `FindsEnd`. What a tree means is `ChainsOK`.  As long as no
descriptor is used again, the threads of a tree are a chain of joins: the level of
a target is below that of its joiner, and at most one thread is ahead of the
others, waiting for nobody or for one who has finished (`TreesOK`); whoever joins
is known to its target and is the only one to join it (`JoinersOK`).  The running
thread is always ahead.  So in its tree everybody unfinished waits for it in the
end, which makes the verdict exact in both directions (`VerdictExact`); and when
nobody is ready, a joiner of least level would have a target that neither joins
nor has finished nor is ready, so there is no joiner (`LastExit`).
`RanksAreLogarithmic`, which no run checks, follows the weight of each tree: a
rank grows only when two trees of that rank become one, and a new descriptor was
alone in its tree (`RanksOK`).

For the single-core mutex, semaphore and signals the invariant is `SyncInv`:
either `SInv`, or the process is gone astray, from a lock that parked (`Gone`,
which keeps the types and the partition of the stacks, and which nothing
follows).  `SInv` adds `Waits` to `IInv`: a parked thread does not run and has
saved its registers (`ParkedOK`); `sched_next`, which links the run list, also
links the threads blocked on an object into its queue, without repetition
(`Queued`); a negative count is the number of those blocked on the semaphore
(`SemCounted`); a locked mutex has exactly one owner, who has it or is on the way
to return with it, and a free one none (`Owned`); and nobody waits for a signal
that is pending (`Signalled`).  `ParksOK` and `EntersQueue` say what a thread that
parks does to the ring and to the queues, `WakesOK` and `WakeQueues` what waking
one does, and `Undisturbed` what every step of `MonoThread` leaves alone, so that
its lemmas are used again rather than proved again.  `LockParksOK` has both
outcomes, and `CrashesCorrect` says that every other step has the first.

For the caches `IInv` is `TypeOK`, which bounds each cache by `CacheMax`, with
`SlotPartition`.  `RefusalCorrect` is a counting argument: when the pool and the
cache of `w` are empty, the free slots are in the caches of the others, and
numbering the slots of each cache maps them one to one into
(workers but `w`) x 1..`CacheMax`, which has `Slack` elements.  `Refinement` follows
from the partition: a slot of the pool or of a cache is owned by nobody.

For the queues `OnePlace` is not inductive: a push after a switch is harmless only
because the worker that makes it has nobody in `current`.  `Shape` says what a
worker has in hand at each place; `Disjoint`, that no two of `current`, `after`, the
deques and the injectors hold the same thread; `Injective`, that no queue holds
one twice.  With `TypeOK` they are `IInv`.  Four lemmas say what a step does to the
hands (`Pushed`, `Injected`, `Switched`, `Taken`), each step is one of these or
changes no hand (`QuietStep`), and the lemma of a step also names the action of
`AbstractScheduler` it is.  `NoLostInjection` needs two more facts (`WakeInv`): the
bit of a worker is set from its announcement until it is up again, and what is
injected after its last look comes with somebody on the way to wake it.

For the deque `View` is what the owner reads through its store buffer; a store that
enters the buffer changes it at once (`ViewAppend`), and `Drain` does not
(`ViewDrain`).  `InOrder` says of the pending stores that each item comes before the
`bottom` that makes it visible and that `bottom` rises from store to store; `Bounds`,
that the deque is never negative nor larger than the ring; `Popping`, that between
the exchange on `bottom` and the answer the buffer is empty.  The heart is `Stealing`:
a thief whose compare-and-swap can still succeed (`Hopeful`) has seen an item that is
there, and holds that item.  It needs `Visible`: no pending store is to the cell a
thief may take, because indexes less than `Cap` apart have different cells (`Cells`).
The lemma of each action gives `IInv'` and the step of `AbstractDeque` it is:
`PopMany` takes the last item without any exchange, and the other pops and steals
take effect at the exchange.

For the M:N threads `StacksOwned` and the others are inductive only together, with
what a worker is in the middle of.  `Shape` says what a worker has in hand on the
stack of a thread and off it, `Sole` that a thread is in one hand or in the run
queues, `Held` where in its code each of these may be, `Unseen` that nobody else has
seen a last created thread, `Joins`, `Named` and `Parked` who waits for whom and what is
still to come before a joiner is made ready, `Frames` and `Counts` which inline runs
are under way on which worker, `Feet` and `Left` that a worker whose thread has
finished leaves its stack before it pushes the joiner, and `Alive` that
`alive_count` counts the unfinished threads and the workers on their way out.  The
union-find forest is opaque to the proof: the invariant holds whatever `Union`
answers.  There is one lemma for each action; the refinement then names, for each,
the action of `AbstractScheduler` it is, with the callbacks of the workers as the
`leaving` of the abstract one (`SavedAndPushed`).

With mutexes, semaphores and signals the same invariant has to survive, and threads
park in three more places.  Here `MNProofs` goes through relations on steps instead of
proving each action again: `ParkKeeps` for a thread that parks and takes the spin
lock of the object along, `WakeKeeps` for a waiter that is taken out of its queue,
`KeepsParked` for the steps of `MNThread`, which leave the objects alone.  `Lines` says
that the queues and the waiters on their way (`waking`) are disjoint lists of parked
threads, `Somewhere` that a parked thread is in one of them, `LockKept` that the spin
lock stays taken until the worker has left the stack of the thread that parked:
whoever takes a waiter out holds that lock, hence finds its registers saved.

For the table `Sound` says that each stored pair is there once and is `Reached`: no
group that its probe visits before has an empty slot.  Hence a probe for a stored pair
ends at it, and one for another pair, if it ends, finds nothing (`FoundOf`).  Insertion
keeps this because it takes the first free slot of the probe, where it would have
ended anyway.  Removal keeps it because a slot becomes `EMPTY` only where its group
had an empty slot already: no probe went on past that group.  `Recorded` adds
that the entries are the threads with a `func`, which differ; `KnownOf` and `Fits` say
that the newest thread and the free ones are not among them.  `TableIsExact` follows.

`RefsAreHolders` compares a counter with a sum over all threads, and no theorem
about sums is at hand.  A fold of the community modules is a recursive function on
the subsets of its index set; `SubsetInduction` and `Least` replace induction on
it, so that changing one term changes the sum by the difference (`SumChanged`) and
no term exceeds the sum (`SumBounds`).  `CountsOf` says that the counts are exact
and that nobody holds a free descriptor; a count of one that is given back leaves
nobody else with the descriptor, which may therefore be freed (`CountsLess`).
That the joiner still has the thread whose count it lowers, after it has slept or
run it inline, needs `Control`: a thread in a join holds its target, who is the
one to hand over to it, and it comes back only when the target is done.  The
joiner that another overwrites in `waiting` stays parked, and its hold with it.

## What is only model-checked

Liveness, which is out of the prover's reach: `EveryJoinReturns`,
`EveryLockReturns`, `NothingLeftBehind`, `ShutdownWakesAll` and `ProcessEnds`.
Every safety property of the passing runs is proved, under the assumptions above.

## What is not modelled, and the plan

Left out of the single-core modules: the contents of stacks and stack overflow
detection, `mmap` failures, return values of functions, the signal masks, the
`ucontext` back end (whose yield never releases the pending stack), initialisation
and destruction of mutexes and semaphores, several mutexes and semaphores.
`MergedThreads` elects any ready thread and leaves out the ring, the stacks and
the forest, which are `MonoThread`'s; it allows every join, those the forest might
refuse included.

Left out of the M:N modules: memory models weaker than x86 (though the orderings
of `ChaseLev` are those published for them), what a compiler keeps in registers
across a switch (`thread_mn.c:556`), the order of the free stacks, and the code
of `thread_join` after its inline run has come back on another worker, which is
undefined.  `MNThread` and the queues are not composed in one module: each is
checked against `AbstractScheduler`, since workers with their deques and threads
with their locks together leave no room for an instance that shows anything.

Not modelled at all: the first version (`src/options/src/thread.c`), a library of
its own, and the platform layer (`portable.h`, `ctx_ucontext.c`), which keeps no
state of the program.

What comes next is the first version: its chain of joins and the signal mask over
each path of its calls.
