------------------------------- MODULE MNThread -------------------------------
(* Threads of the M:N library (src/src/thread_mn.c): workers run the threads  *)
(* of a common ready set and leave them for their own stack in every switch.  *)
(*                                                                            *)
(* A step is what a worker does up to its next access to something shared:    *)
(* the ready set, the cold_lock of a thread, alive_count.  SIGALRM is masked  *)
(* inside the calls, and preempt_handler is one more call of thread_yield.    *)
(* The run queues are one set here: RunQueues shows that they behave as one   *)
(* for a client that keeps the contract of AbstractScheduler.                 *)
EXTENDS Integers, FiniteSets, UnionFind

CONSTANTS
  Thread,    \* the descriptors; 1 is that of main
  NWorkers,  \* nworkers
  Stack,     \* the stacks of the arena
  Slack,     \* the free stacks that the caches of other workers may keep
  Calls,     \* the calls the client's threads make
  ClientRecycles  \* the client creates threads after it has joined some

ASSUME MNAssumption ==
  /\ Thread \subseteq Nat \ {0} /\ IsFiniteSet(Thread) /\ 1 \in Thread
  /\ NWorkers \in Nat \ {0}
  /\ Stack \subseteq Nat \ {0} /\ IsFiniteSet(Stack)
  /\ Slack \in Nat
  /\ Calls \subseteq {"create", "yield", "join", "exit", "return"}
  /\ ClientRecycles \in BOOLEAN

NULL      == 0
Main      == 1
HostStack == -1   \* the stack of the process, where main runs
Worker    == 0 .. NWorkers - 1

(* Where a thread is: "free", its descriptor is not in use; "fresh", never    *)
(* run; "user", in its own code or about to be; "join" and "exit", in the     *)
(* call after its flush; "inline", running its target; "wait", parked in      *)
(* thread_join or woken there; "reap", about to release its target; "done",   *)
(* FINISHED; "gone", free for a client that creates nothing any more;         *)
(* "parked" and "waker" belong to MNSync.                                     *)
Pc == {"free", "gone", "fresh", "user", "join", "exit", "inline", "wait", "reap", "done",
       "parked", "waker"}

(* What became of the process.  Two ends are undefined in C: "astray", the    *)
(* joiner of an inline run has come back on another worker and writes to the  *)
(* one it left; "smashed", a worker starts a thread on a stack that another   *)
(* worker stands on.                                                          *)
Phase == {"running", "returned", "exited", "aborted", "astray", "smashed"}

VARIABLES
  phase,
  ready,        \* the threads in the run queues
  current,      \* current of each worker
  after,        \* after_switch and after_arg, and the thread the switch saves
  foot,         \* the stack a worker still stands on after its thread has finished
  lastCreated,  \* last_created
  inlineExec,   \* inline_executing
  pc,
  target,       \* the thread that a thread in thread_join has named
  waiting,      \* the thread parked until this one finishes
  frame,        \* inline_jmpbuf: the joiner, and the worker it was on
  uf,           \* parent and rank
  stackBase,    \* stack_base
  owned,        \* the stacks handed out
  alive         \* alive_count

workers == <<current, after, foot>>
joins   == <<target, waiting, frame, uf>>
arena   == <<stackBase, owned>>
vars    == <<phase, ready, workers, lastCreated, inlineExec, pc, joins, arena, alive>>

Stacks == INSTANCE SlotPool WITH Slot <- Stack

NoCallback == [cb |-> "none", arg |-> NULL, me |-> NULL]
NoFrame    == [joiner |-> NULL, worker |-> 0]

Init ==
  /\ phase = "running"
  /\ ready = {}
  /\ current = [w \in Worker |-> IF w = 0 THEN Main ELSE NULL]
  /\ after = [w \in Worker |-> NoCallback]
  /\ foot = [w \in Worker |-> NULL]
  /\ lastCreated = [w \in Worker |-> NULL]
  /\ inlineExec = [w \in Worker |-> 0]
  /\ pc = [t \in Thread |-> IF t = Main THEN "user" ELSE "free"]
  /\ target = [t \in Thread |-> NULL]
  /\ waiting = [t \in Thread |-> NULL]
  /\ frame = [t \in Thread |-> NoFrame]
  /\ uf = UfInit(Thread)
  /\ stackBase = [t \in Thread |-> NULL]
  /\ Stacks!Init
  /\ alive = 1

(* A descriptor that nobody has, and where it is put.                         *)
Unused == {"free", "gone"}
Released == IF ClientRecycles THEN "free" ELSE "gone"

(* The thread of w is at this place; it makes a call.                         *)
At(w, place) == phase = "running" /\ current[w] # NULL /\ pc[current[w]] = place
Calling(w, call) == At(w, "user") /\ call \in Calls

(* cold_lock of t is kept by a thread that parks, until its worker has left   *)
(* its stack; every other critical section is one step.                       *)
MutLocked(t) == FALSE  \* mutant: unlocked before the switch
Locked(t) == \E w \in Worker : after[w].cb = "unlock" /\ after[w].arg = t

(* flush_last_created.                                                        *)
MutFlushed(w) == ready  \* mutant: runq_push is forgotten
Flushed(w) == IF lastCreated[w] = NULL THEN ready ELSE ready \cup {lastCreated[w]}
Flush(w) == ready' = Flushed(w) /\ lastCreated' = [lastCreated EXCEPT ![w] = NULL]

(* schedule and schedule_park: the worker is back on its own stack, where it  *)
(* will call back.                                                            *)
Leave(w, cb, arg) ==
  /\ current' = [current EXCEPT ![w] = NULL]
  /\ after' = [after EXCEPT ![w] = [cb |-> cb, arg |-> arg, me |-> current[w]]]

-------------------------------------------------------------------------------
(* thread_create; it fails when there is no descriptor left.                  *)
Create(w, t) ==
  /\ Calling(w, "create")
  /\ pc[t] = "free"
  /\ pc' = [pc EXCEPT ![t] = "fresh"]
  /\ waiting' = [waiting EXCEPT ![t] = NULL]
  /\ frame' = [frame EXCEPT ![t] = NoFrame]
  /\ uf' = UfReset(uf, t)
  /\ stackBase' = [stackBase EXCEPT ![t] = NULL]
  /\ ready' = Flushed(w)
  /\ lastCreated' = [lastCreated EXCEPT ![w] = t]
  /\ alive' = alive + 1
  /\ UNCHANGED <<phase, workers, inlineExec, target, owned>>

(* preempt_handler yields for a thread where this holds, and the thread_yield *)
(* of the thread does nothing where it does not.                              *)
MayYield(w) == inlineExec[w] = 0

Yield(w) ==
  /\ Calling(w, "yield")
  /\ MayYield(w)
  /\ Flush(w)
  /\ Leave(w, "push", current[w])
  /\ UNCHANGED <<phase, foot, inlineExec, pc, joins, arena, alive>>

-------------------------------------------------------------------------------
(* thread_join(t); a thread is joined by one other at most.                   *)
Joining(w, t) ==
  /\ Calling(w, "join")
  /\ pc[t] \notin Unused
  /\ \A j \in Thread : target[j] # t

Union(w, t) == UfUnion(uf, current[w], t)

(* The newest thread of this worker has never been visible to anybody: its    *)
(* function is called on the stack of the joiner, ...                         *)
JoinInline(w, t) ==
  LET j == current[w] IN
    /\ Joining(w, t)
    /\ lastCreated[w] = t
    /\ Union(w, t).ok
    /\ uf' = Union(w, t).uf
    /\ lastCreated' = [lastCreated EXCEPT ![w] = NULL]
    /\ current' = [current EXCEPT ![w] = t]
    /\ inlineExec' = [inlineExec EXCEPT ![w] = @ + 1]
    /\ pc' = [pc EXCEPT ![j] = "inline", ![t] = "user"]
    /\ target' = [target EXCEPT ![j] = t]
    /\ frame' = [frame EXCEPT ![t] = [joiner |-> j, worker |-> w]]
    /\ UNCHANGED <<phase, ready, after, foot, waiting, arena, alive>>

(* ... or it is dropped, when the forest says that the join closes a cycle.   *)
JoinInlineRefused(w, t) ==
  /\ Joining(w, t)
  /\ lastCreated[w] = t
  /\ ~Union(w, t).ok
  /\ uf' = Union(w, t).uf
  /\ lastCreated' = [lastCreated EXCEPT ![w] = NULL]
  /\ pc' = [pc EXCEPT ![t] = Released]
  /\ alive' = alive - 1
  /\ UNCHANGED <<phase, ready, workers, inlineExec, target, waiting, frame, arena>>

Join(w, t) ==
  /\ Joining(w, t)
  /\ lastCreated[w] # t
  /\ Flush(w)
  /\ pc' = [pc EXCEPT ![current[w]] = "join"]
  /\ target' = [target EXCEPT ![current[w]] = t]
  /\ UNCHANGED <<phase, workers, inlineExec, waiting, frame, uf, arena, alive>>

(* The rest of the call, under the cold_lock of the target.                   *)
CanLock(w) == At(w, "join") /\ ~Locked(target[current[w]])

JoinLocks(w) ==
  LET j == current[w]
      t == target[j]
  IN  /\ CanLock(w)
      /\ \/ /\ pc[t] = "done"
            /\ pc' = [pc EXCEPT ![j] = "reap"]
            /\ UNCHANGED <<workers, joins>>
         \/ /\ pc[t] # "done" /\ ~Union(w, t).ok
            /\ uf' = Union(w, t).uf
            /\ pc' = [pc EXCEPT ![j] = "user"]
            /\ target' = [target EXCEPT ![j] = NULL]
            /\ UNCHANGED <<workers, waiting, frame>>
         \/ /\ pc[t] # "done" /\ Union(w, t).ok
            /\ uf' = Union(w, t).uf
            /\ waiting' = [waiting EXCEPT ![t] = j]
            /\ pc' = [pc EXCEPT ![j] = "wait"]
            /\ Leave(w, "unlock", t)
            /\ UNCHANGED <<foot, target, frame>>
      /\ UNCHANGED <<phase, ready, lastCreated, inlineExec, arena, alive>>

(* cleanup: the stack and the descriptor of the target are free again.        *)
MutFreed(t) == owned  \* mutant: the stack leaks
Freed(t) == owned \ {stackBase[t]}

Reap(w) ==
  LET j == current[w]
      t == target[j]
  IN  /\ At(w, "wait") \/ At(w, "reap")
      /\ ~Locked(t)
      /\ pc' = [pc EXCEPT ![j] = "user", ![t] = Released]
      /\ target' = [target EXCEPT ![j] = NULL]
      /\ owned' = Freed(t)
      /\ stackBase' = [stackBase EXCEPT ![t] = NULL]
      /\ UNCHANGED <<phase, ready, workers, lastCreated, inlineExec, waiting, frame, uf,
                     alive>>

-------------------------------------------------------------------------------
(* thread_exit, or the return of the function, of a thread run inline: back   *)
(* in thread_join, which goes on with the worker it has read at its start.    *)
MutAliveAfterInline == alive  \* mutant: only thread_exit counts
AliveAfterInline == alive - 1

ExitInline(w) ==
  LET t    == current[w]
      home == frame[t]
  IN  /\ Calling(w, "exit")
      /\ home # NoFrame
      /\ IF home.worker = w
         THEN /\ current' = [current EXCEPT ![w] = home.joiner]
              /\ inlineExec' = [inlineExec EXCEPT ![w] = @ - 1]
              /\ pc' = [pc EXCEPT ![t] = "done", ![home.joiner] = "reap"]
              /\ frame' = [frame EXCEPT ![t] = NoFrame]
              /\ alive' = AliveAfterInline
              /\ UNCHANGED phase
         ELSE phase' = "astray" /\ UNCHANGED <<current, inlineExec, pc, frame, alive>>
      /\ UNCHANGED <<ready, after, foot, lastCreated, target, waiting, uf, arena>>

Exit(w) ==
  /\ Calling(w, "exit")
  /\ frame[current[w]] = NoFrame
  /\ Flush(w)
  /\ pc' = [pc EXCEPT ![current[w]] = "exit"]
  /\ UNCHANGED <<phase, workers, inlineExec, joins, arena, alive>>

(* The joiner is not pushed before the stack is left.                         *)
WakeLater(t) == IF t = NULL THEN NoCallback ELSE [cb |-> "push", arg |-> t, me |-> NULL]

MutForget(t) == [ready |-> ready, after |-> NoCallback]                   \* mutant: nobody is woken
MutWakeNow(t) == [ready |-> ready \cup ({t} \ {NULL}), after |-> NoCallback]  \* mutant: too early
Wake(t) == [ready |-> ready, after |-> WakeLater(t)]

(* FINISHED, under its own cold_lock; the worker does not read current again. *)
ExitFinish(w) ==
  LET t == current[w]
      s == stackBase[t]
  IN  /\ At(w, "exit")
      /\ ~Locked(t)
      /\ pc' = [pc EXCEPT ![t] = "done"]
      /\ waiting' = [waiting EXCEPT ![t] = NULL]
      /\ current' = [current EXCEPT ![w] = NULL]
      /\ ready' = Wake(waiting[t]).ready
      /\ after' = [after EXCEPT ![w] = Wake(waiting[t]).after]
      /\ foot' = [foot EXCEPT ![w] = IF s = NULL THEN HostStack ELSE s]
      /\ UNCHANGED <<phase, lastCreated, inlineExec, target, frame, uf, arena, alive>>

(* The last thread ends the process; the others leave the stack.              *)
ExitLeave(w) ==
  /\ phase = "running"
  /\ foot[w] # NULL
  /\ alive' = alive - 1
  /\ phase' = IF alive' = 0 THEN "exited" ELSE phase
  /\ foot' = [foot EXCEPT ![w] = NULL]
  /\ UNCHANGED <<ready, current, after, lastCreated, inlineExec, pc, joins, arena>>

(* main returns: exit, thread_system_destroy.                                 *)
MainReturns(w) ==
  /\ Calling(w, "return")
  /\ current[w] = Main
  /\ stackBase[Main] = NULL /\ frame[Main] = NoFrame  \* descriptor 1 is main's still
  /\ phase' = "returned"
  /\ UNCHANGED <<ready, workers, lastCreated, inlineExec, pc, joins, arena, alive>>

-------------------------------------------------------------------------------
(* worker_loop: the callback of the last switch, ...                          *)
InLoop(w) == phase = "running" /\ current[w] = NULL /\ foot[w] = NULL

AfterSwitch(w) ==
  /\ InLoop(w)
  /\ after[w] # NoCallback
  /\ ready' = IF after[w].cb = "push" THEN ready \cup {after[w].arg} ELSE ready
  /\ after' = [after EXCEPT ![w] = NoCallback]
  /\ UNCHANGED <<phase, current, foot, lastCreated, inlineExec, pc, joins, arena, alive>>

(* ... and a thread of the run queues, ...                                    *)
Taking(w, t) ==
  /\ InLoop(w)
  /\ after[w] = NoCallback
  /\ t \in ready
  /\ ready' = ready \ {t}
  /\ current' = [current EXCEPT ![w] = t]
  /\ UNCHANGED <<after, foot, lastCreated, inlineExec, joins, alive>>

Resume(w, t) == pc[t] # "fresh" /\ Taking(w, t) /\ UNCHANGED <<phase, pc, arena>>

(* ... which starts on a stack of the arena, or finds none.                   *)
InUse(s) == \E v \in Worker : foot[v] = s

Start(w, t, s) ==
  /\ pc[t] = "fresh"
  /\ Taking(w, t)
  /\ pc' = [pc EXCEPT ![t] = "user"]
  /\ Stacks!Alloc(s)
  /\ stackBase' = [stackBase EXCEPT ![t] = s]
  /\ phase' = IF InUse(s) THEN "smashed" ELSE phase

StartAborts(w, t) ==
  /\ pc[t] = "fresh"
  /\ Taking(w, t)
  /\ Stacks!MayRefuse
  /\ phase' = "aborted"
  /\ UNCHANGED <<pc, arena>>

-------------------------------------------------------------------------------
(* What a worker does without a choice of the client, inside thread_join and  *)
(* elsewhere.                                                                 *)
Proceed(w) ==
  \/ Reap(w) \/ ExitFinish(w) \/ ExitLeave(w) \/ AfterSwitch(w)
  \/ \E t \in Thread :
       Resume(w, t) \/ StartAborts(w, t) \/ \E s \in Stack : Start(w, t, s)

End(w) == ExitInline(w) \/ Exit(w) \/ MainReturns(w)

(* The calls that make or may make another thread ready.                      *)
Disturb(w) == Yield(w) \/ \E t \in Thread : Create(w, t)

JoinAny(w) ==
  \E t \in Thread : Join(w, t) \/ JoinInline(w, t) \/ JoinInlineRefused(w, t)

Call(w) == Disturb(w) \/ End(w) \/ JoinAny(w)

Next == \E w \in Worker : JoinLocks(w) \/ Proceed(w) \/ Call(w)

(* The process has ended, or every thread is blocked.                         *)
Stopped ==
  /\ \/ phase # "running"
     \/ ready = {} /\ \A w \in Worker : InLoop(w) /\ after[w] = NoCallback
  /\ UNCHANGED vars

Spec == Init /\ [][Next \/ Stopped]_vars

-------------------------------------------------------------------------------
TypeOK ==
  /\ phase \in Phase
  /\ ready \subseteq Thread
  /\ current \in [Worker -> Thread \cup {NULL}]
  /\ after \in [Worker -> [cb : {"none", "push", "unlock"}, arg : Int, me : Thread \cup {NULL}]]
  /\ foot \in [Worker -> Stack \cup {NULL, HostStack}]
  /\ lastCreated \in [Worker -> Thread \cup {NULL}]
  /\ inlineExec \in [Worker -> Nat]
  /\ pc \in [Thread -> Pc]
  /\ target \in [Thread -> Thread \cup {NULL}]
  /\ waiting \in [Thread -> Thread \cup {NULL}]
  /\ frame \in [Thread -> [joiner : Thread \cup {NULL}, worker : Worker]]
  /\ stackBase \in [Thread -> Stack \cup {NULL}]
  /\ owned \subseteq Stack
  /\ alive \in Nat

(* No call breaks the contract with the scheduler: a thread is pushed once,   *)
(* and never before its registers are saved, although it is named by waiting, *)
(* last_created or a callback of some worker meanwhile.                       *)
Scheduler == INSTANCE AbstractScheduler
  WITH running <- current,
       leaving <- [w \in Worker |->
                     [me   |-> after[w].me,
                      next |-> IF after[w].cb = "push" THEN after[w].arg ELSE NULL]]
SchedulerSpec == Scheduler!Spec

(* thread_mn.c:805-811: a parked joiner comes back only after its target has  *)
(* finished and the worker of the target has left the stack, which the joiner *)
(* then releases.                                                             *)
Back(j) == pc[j] = "wait" /\ (j \in ready \/ \E w \in Worker : current[w] = j)
StackOf(t) == IF stackBase[t] = NULL THEN HostStack ELSE stackBase[t]
WokenAfterLeaving ==
  \A j \in Thread : Back(j) =>
    pc[target[j]] = "done" /\ \A w \in Worker : foot[w] # StackOf(target[j])

(* A stack belongs to one thread, and those of the threads that have been     *)
(* joined are free again, whichever worker each of them has started on.       *)
StacksOwned ==
  /\ owned = {stackBase[t] : t \in Thread} \ {NULL}
  /\ \A t, u \in Thread : t # u /\ stackBase[t] # NULL => stackBase[t] # stackBase[u]

(* thread_mn.c:676-678: a created thread is never forgotten: it is the last   *)
(* created of a worker that is still in the code of a thread, and so will     *)
(* flush it, or it is in the run queues.                                      *)
CreationReachable ==
  phase = "running" =>
    \A t \in Thread : pc[t] = "fresh" =>
      t \in ready \/ \E w \in Worker : lastCreated[w] = t /\ current[w] # NULL

(* thread_mn.c:703-706: alive_count is the number of threads that have not    *)
(* finished, those on their way out included, through inline runs and refused *)
(* joins.                                                                     *)
AliveExact ==
  phase = "running" =>
    alive = Cardinality({t \in Thread : pc[t] \notin Unused \cup {"done"}})
              + Cardinality({w \in Worker : foot[w] # NULL})

(* thread_mn.c:805-811: no thread is given a stack that a worker still stands *)
(* on.                                                                        *)
StackNotInUse == phase # "smashed"

(* thread_mn.c:90: no switch away from a worker during an inline run: its     *)
(* joiner is back on the worker it has left.                                  *)
InlineStays == phase # "astray"

-------------------------------------------------------------------------------
(* The kernel runs every worker; a spin lock that is released is acquired.    *)
(* The last conjunct is weak fairness of JoinLocks(w), which leaves CanLock.  *)
FairSpec == Spec /\ \A w \in Worker : WF_vars(Proceed(w)) /\ []<>~CanLock(w)

(* When functions end, threads stop creating and yielding, and no cycle of    *)
(* joins has slipped through the forest, the process ends: no joiner is lost, *)
(* no thread stays in a run queue, and the last thread is recognised.         *)
KeepsWorker(t) == pc[t] \in {"user", "join"} /\ \E w \in Worker : current[w] = t
FunctionsEnd == \A t \in Thread : []<>~KeepsWorker(t)
Calm == <>[][\A w \in Worker : ~Disturb(w)]_vars

Hop == [t \in Thread \cup {NULL} |-> IF t = NULL THEN NULL ELSE target[t]]
JoinCycle == \E t \in Thread : Hop[t] # NULL /\ \/ Hop[t] = t
                                                \/ Hop[Hop[t]] = t
                                                \/ Hop[Hop[Hop[t]]] = t
ProcessEnds == FunctionsEnd /\ Calm /\ []~JoinCycle => <>(phase # "running")
=============================================================================
