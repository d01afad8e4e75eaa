------------------------------ MODULE RunQueues -------------------------------
(* The scheduler of the M:N library: the run queues of the workers, their     *)
(* loop, and the sleep of an idle worker (src/src/scheduler_mn.c).            *)
(*                                                                            *)
(* The deques are those of AbstractDeque, which ChaseLev implements; a        *)
(* critical section of inj_lock is one step.  idle_lock is held across the    *)
(* steps of a worker that goes to sleep, and only a worker at "check" or      *)
(* "clear" holds its own.                                                     *)
EXTENDS Integers, Sequences, FiniteSets, SequencesExt, FiniteSetsExt

CONSTANTS
  Thread,     \* the user threads
  NWorkers    \* n_runqs, at most MAX_RUNQS

ASSUME WorkersAssumption ==
  /\ Thread \subseteq Nat \ {0} /\ 1 \in Thread
  /\ NWorkers \in 1 .. 64

NULL   == 0
Main   == 1
Worker == 0 .. NWorkers - 1

(* Where a worker is.  "user": in the code of a thread; "after": about to run *)
(* after_switch; "pop" to "steal": in runq_pop_block; "announce" to "clear":  *)
(* going to sleep, asleep and getting up; "wake one" to "signal": waking      *)
(* another worker; "shutdown": in runq_shutdown_broadcast; "pause": for ever. *)
Place == {"user", "after", "pop", "drain", "flag", "steal", "announce", "lock", "check",
          "wait", "woken", "clear", "wake one", "wake specific", "signal", "shutdown", "pause"}

VARIABLES
  at,         \* the place of each worker
  current,    \* current
  after,      \* after_switch and after_arg
  deque,      \* the deques, the oldest thread first
  injector,   \* the injector queues, inj_head first
  idle,       \* idle_bitmap
  pushRR,     \* push_rr, modulo NWorkers
  shutdown,   \* runq_shutdown_flag
  peer        \* the worker that a steal, a signal or the shutdown is at

vars == <<at, current, after, deque, injector, idle, pushRR, shutdown, peer>>

NoCallback == [cb |-> "none", arg |-> NULL]

Init ==
  /\ at = [w \in Worker |-> IF w = 0 THEN "user" ELSE "pop"]
  /\ current = [w \in Worker |-> IF w = 0 THEN Main ELSE NULL]
  /\ after = [w \in Worker |-> NoCallback]
  /\ deque = [w \in Worker |-> <<>>]
  /\ injector = [w \in Worker |-> <<>>]
  /\ idle = {}
  /\ pushRR = 0
  /\ shutdown = FALSE
  /\ peer = [w \in Worker |-> w]

At(w, place) == at[w] = place
Go(w, place) == at' = [at EXCEPT ![w] = place]

Queues == <<deque, injector, idle, pushRR>>

(* Where a thread is: it runs, or it waits for its push after a switch, or it *)
(* is in a queue; or nowhere: blocked, or not created.                        *)
Places(t) ==
  {<<"current", w>> : w \in {v \in Worker : current[v] = t}}
    \cup {<<"after", w>> : w \in {v \in Worker : after[v].arg = t}}
    \cup (UNION {{<<"deque", w, i>> : i \in {j \in DOMAIN deque[w] : deque[w][j] = t}}
                   : w \in Worker})
    \cup (UNION {{<<"injector", w, i>> : i \in {j \in DOMAIN injector[w] : injector[w][j] = t}}
                   : w \in Worker})

Nowhere(t) == Places(t) = {}

-------------------------------------------------------------------------------
(* runq_push, which wakes a worker when there are two threads in the deque;   *)
(* back is where the push was called.                                         *)
LocalPush(w, t, back) ==
  /\ deque' = [deque EXCEPT ![w] = Append(@, t)]
  /\ Go(w, IF Len(deque'[w]) >= 2 THEN "wake one" ELSE back)
  /\ UNCHANGED <<injector, peer>>

(* inj_push, the part under inj_lock.                                         *)
InjectorPush(w, target, t) ==
  /\ injector' = [injector EXCEPT ![target] = Append(@, t)]
  /\ peer' = [peer EXCEPT ![w] = target]
  /\ Go(w, "wake specific")
  /\ UNCHANGED deque

(* A push made by a thread goes back to it, a push made by after_switch to    *)
(* the loop.                                                                  *)
Back(w) == IF current[w] = NULL THEN "pop" ELSE "user"

(* wake_one_idle: the idle worker with the lowest number, other than w.       *)
WakeOne(w) ==
  /\ At(w, "wake one")
  /\ IF idle \ {w} = {}
     THEN Go(w, Back(w)) /\ UNCHANGED peer
     ELSE Go(w, "signal") /\ peer' = [peer EXCEPT ![w] = Min(idle \ {w})]
  /\ UNCHANGED <<current, after, Queues, shutdown>>

(* wake_specific.                                                             *)
MutAnnounced(v) == at[v] = "wait"  \* mutant: whether v sleeps, not whether it is about to
Announced(v) == v \in idle

WakeSpecific(w) ==
  /\ At(w, "wake specific")
  /\ Go(w, IF Announced(peer[w]) THEN "signal" ELSE Back(w))
  /\ UNCHANGED <<current, after, Queues, shutdown, peer>>

(* Lock idle_lock of v, signal idle_cv, unlock; back is where it leads.       *)
MutIdleLockFree(v) == TRUE  \* mutant: the signal is sent without the lock
IdleLockFree(v) == at[v] \notin {"check", "clear"}

SignalTo(w, v, back) ==
  /\ IdleLockFree(v)
  /\ at' = [u \in Worker |-> IF u = w THEN back
                            ELSE IF u = v /\ at[u] = "wait" THEN "woken" ELSE at[u]]

Signal(w) ==
  /\ At(w, "signal")
  /\ SignalTo(w, peer[w], Back(w))
  /\ UNCHANGED <<current, after, Queues, shutdown, peer>>

-------------------------------------------------------------------------------
(* The client.  A running thread makes t ready: it has just created t         *)
(* (flush_last_created) or it ends the wait of t (SYNC_WAKE).                 *)
MakeReady(w, t) ==
  /\ At(w, "user")
  /\ Nowhere(t)
  /\ LocalPush(w, t, "user")
  /\ UNCHANGED <<current, after, idle, pushRR, shutdown>>

(* schedule, schedule_park and schedule_exit: the worker is back on its own   *)
(* stack, with something left to do there.                                    *)
SwitchOut(w, callback) ==
  /\ At(w, "user")
  /\ Go(w, IF callback = NoCallback THEN "pop" ELSE "after")
  /\ current' = [current EXCEPT ![w] = NULL]
  /\ after' = [after EXCEPT ![w] = callback]
  /\ UNCHANGED <<Queues, shutdown, peer>>

MutYield(w) ==  \* mutant: the thread is pushed while it still runs
  At(w, "user") /\ LocalPush(w, current[w], "after")
    /\ UNCHANGED <<current, after, idle, pushRR, shutdown>>
Yield(w) == SwitchOut(w, [cb |-> "balance", arg |-> current[w]])

Block(w) == SwitchOut(w, NoCallback)

(* thread_exit of a thread that t has joined.                                 *)
ExitWaking(w, t) == Nowhere(t) /\ SwitchOut(w, [cb |-> "push", arg |-> t])

(* The process ends: runq_shutdown_broadcast.                                 *)
Shutdown(w) ==
  /\ At(w, "user")
  /\ shutdown' = TRUE
  /\ peer' = [peer EXCEPT ![w] = 0]
  /\ Go(w, "shutdown")
  /\ UNCHANGED <<current, after, Queues>>

Broadcast(w) ==
  /\ At(w, "shutdown")
  /\ IF peer[w] < NWorkers
     THEN SignalTo(w, peer[w], "shutdown") /\ peer' = [peer EXCEPT ![w] = @ + 1]
     ELSE Go(w, "pause") /\ peer' = [peer EXCEPT ![w] = w]
  /\ UNCHANGED <<current, after, Queues, shutdown>>

-------------------------------------------------------------------------------
(* The next target of the threads that yield.                                 *)
MutNextTarget == pushRR + 1  \* mutant: the remainder is forgotten
NextTarget == (pushRR + 1) % NWorkers

(* worker_loop runs after_switch: schedule_push_balance_cb, which spreads the *)
(* threads that yield over the workers, or exit_wake_waiter_cb.               *)
AfterSwitch(w) ==
  /\ At(w, "after")
  /\ after' = [after EXCEPT ![w] = NoCallback]
  /\ LET t == after[w].arg IN
       \/ after[w].cb = "push" /\ LocalPush(w, t, "pop") /\ UNCHANGED pushRR
       \/ /\ after[w].cb = "balance"
          /\ pushRR' = NextTarget
          /\ IF pushRR = w THEN LocalPush(w, t, "pop") ELSE InjectorPush(w, pushRR, t)
  /\ UNCHANGED <<current, idle, shutdown>>

Run(w, t) ==
  /\ Go(w, "user")
  /\ current' = [current EXCEPT ![w] = t]
  /\ UNCHANGED <<after, idle, pushRR, shutdown>>

(* runq_pop_block: the own deque, its newest thread first, ...                *)
Pop(w) ==
  /\ At(w, "pop")
  /\ deque[w] # <<>>
  /\ deque' = [deque EXCEPT ![w] = Front(@)]
  /\ Run(w, Last(deque[w]))
  /\ UNCHANGED <<injector, peer>>

(* ... the own injector, ...                                                  *)
Drain(w) ==
  /\ At(w, "drain")
  /\ injector[w] # <<>>
  /\ injector' = [injector EXCEPT ![w] = Tail(@)]
  /\ Run(w, Head(injector[w]))
  /\ UNCHANGED <<deque, peer>>

(* ... the deques of the others in turn, from which a steal may fail, ...     *)
Steal(w) ==
  /\ At(w, "steal")
  /\ deque[peer[w]] # <<>>
  /\ deque' = [deque EXCEPT ![peer[w]] = Tail(@)]
  /\ peer' = [peer EXCEPT ![w] = w]
  /\ Run(w, Head(deque[peer[w]]))
  /\ UNCHANGED injector

StealFails(w) ==
  /\ At(w, "steal")
  /\ LET next == (peer[w] + 1) % NWorkers IN
       /\ peer' = [peer EXCEPT ![w] = next]
       /\ Go(w, IF next = w THEN "announce" ELSE "steal")
  /\ UNCHANGED <<current, after, Queues, shutdown>>

(* ... with nothing found before, and no shutdown.                            *)
Continue(w) ==
  /\ \/ At(w, "pop") /\ deque[w] = <<>> /\ Go(w, "drain") /\ UNCHANGED peer
     \/ At(w, "drain") /\ injector[w] = <<>> /\ Go(w, "flag") /\ UNCHANGED peer
     \/ /\ At(w, "flag")
        /\ Go(w, IF shutdown THEN "pause" ELSE IF NWorkers = 1 THEN "announce" ELSE "steal")
        /\ peer' = [peer EXCEPT ![w] = IF shutdown THEN w ELSE (w + 1) % NWorkers]
  /\ UNCHANGED <<current, after, Queues, shutdown>>

(* The way to cond_wait: announce, take idle_lock, look once more, sleep.     *)
Announce(w) ==
  /\ At(w, "announce")
  /\ idle' = idle \cup {w}
  /\ Go(w, "lock")
  /\ UNCHANGED <<current, after, deque, injector, pushRR, shutdown, peer>>

MutNothingCame(w) == deque[w] = <<>> /\ injector[w] = <<>>  \* mutant: the flag is not read
NothingCame(w) == deque[w] = <<>> /\ injector[w] = <<>> /\ ~shutdown

LookAgain(w) ==
  /\ At(w, "lock")
  /\ Go(w, IF NothingCame(w) THEN "check" ELSE "clear")
  /\ UNCHANGED <<current, after, Queues, shutdown, peer>>

Sleep(w) ==
  /\ At(w, "check")
  /\ Go(w, "wait")
  /\ UNCHANGED <<current, after, Queues, shutdown, peer>>

(* pthread_cond_wait may return for no reason.                                *)
SpuriousWakeup(w) ==
  /\ At(w, "wait")
  /\ Go(w, "woken")
  /\ UNCHANGED <<current, after, Queues, shutdown, peer>>

(* A woken worker takes idle_lock again, ...                                  *)
GetUp(w) ==
  /\ At(w, "woken")
  /\ Go(w, "clear")
  /\ UNCHANGED <<current, after, Queues, shutdown, peer>>

(* ... clears its bit and starts over.                                        *)
Clear(w) ==
  /\ At(w, "clear")
  /\ idle' = idle \ {w}
  /\ Go(w, "pop")
  /\ UNCHANGED <<current, after, deque, injector, pushRR, shutdown, peer>>

-------------------------------------------------------------------------------
Loop(w) ==
  \/ WakeOne(w) \/ WakeSpecific(w) \/ Signal(w) \/ Broadcast(w)
  \/ AfterSwitch(w) \/ Pop(w) \/ Drain(w) \/ Steal(w) \/ StealFails(w) \/ Continue(w)
  \/ Announce(w) \/ LookAgain(w) \/ Sleep(w) \/ GetUp(w) \/ Clear(w)

Ready(w) == (\E t \in Thread : MakeReady(w, t) \/ ExitWaking(w, t)) \/ Yield(w)

Next ==
  \E w \in Worker : Loop(w) \/ SpuriousWakeup(w) \/ Ready(w) \/ Block(w) \/ Shutdown(w)

(* Every worker asleep or paused: all threads are blocked, or gone.           *)
Stopped == (\A w \in Worker : at[w] \in {"wait", "pause"}) /\ UNCHANGED vars

Spec == Init /\ [][Next \/ Stopped]_vars

-------------------------------------------------------------------------------
(* Every variable holds what its C counterpart can.                           *)
TypeOK ==
  /\ at \in [Worker -> Place]
  /\ current \in [Worker -> Thread \cup {NULL}]
  /\ after \in [Worker -> [cb : {"none", "push", "balance"}, arg : Thread \cup {NULL}]]
  /\ deque \in [Worker -> Seq(Thread)]
  /\ injector \in [Worker -> Seq(Thread)]
  /\ idle \subseteq Worker
  /\ pushRR \in Worker
  /\ shutdown \in BOOLEAN
  /\ peer \in [Worker -> 0 .. NWorkers]

(* No thread is in two queues, in a queue while it runs, or run twice.        *)
OnePlace == \A t \in Thread : Cardinality(Places(t)) <= 1

(* The queues keep the contract of AbstractScheduler: whatever the order of   *)
(* pops, drains and steals, a thread made ready is run once and never lost.   *)
Queued == UNION {Range(deque[w]) \cup Range(injector[w]) : w \in Worker}
Scheduler == INSTANCE AbstractScheduler
  WITH ready <- Queued, running <- current,
       leaving <- [w \in Worker |-> [me |-> NULL, next |-> after[w].arg]]
SchedulerSpec == Scheduler!Spec

(* No wakeup is lost between inj_push and the sleep of its target: a worker   *)
(* that sleeps on a thread in its injector, which nobody else takes, is about *)
(* to be signalled.                                                           *)
Waking(v, w) == at[v] \in {"wake specific", "signal"} /\ peer[v] = w
NoLostInjection ==
  \A w \in Worker : At(w, "wait") /\ injector[w] # <<>> => \E v \in Worker : Waking(v, w)

-------------------------------------------------------------------------------
(* The kernel runs every worker and does not deny idle_lock for ever to one   *)
(* that tries to signal, while its owner goes to sleep and gets up.  A thread *)
(* that keeps its worker blocks or ends at last.                              *)
FairSpec ==
  /\ Spec
  /\ \A w \in Worker : /\ WF_vars(Loop(w)) /\ SF_vars(Signal(w) \/ Broadcast(w))
                       /\ WF_vars(Block(w))

(* Once threads only block or end, no thread is left in a queue.              *)
Calm == <>[][\A w \in Worker : ~Ready(w)]_vars
NothingLeftBehind ==
  Calm => []<>(shutdown \/ \A w \in Worker : deque[w] = <<>> /\ injector[w] = <<>>)

(* thread_mn.c:458: "Les workers vont sortir de cond_wait, voir le shutdown": *)
(* none of them sleeps through the end of the process.                        *)
ShutdownWakesAll == \A w \in Worker : shutdown ~> [](at[w] # "wait")
=============================================================================
