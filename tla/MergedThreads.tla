---------------------------- MODULE MergedThreads ----------------------------
(* The -DFP build of src/src/thread.c: thread_create returns the thread that  *)
(* exists already for its function and argument, if there is one, and counts  *)
(* how many callers hold it; the last join frees the descriptor.              *)
(*                                                                            *)
(* A step is a call up to its return or its context switch, as in MonoThread, *)
(* which has the ring, the stacks and the forest of the deadlock detection.   *)
(* Here any ready thread may be elected.  The client is a recursion, as the   *)
(* program this build is made for: main creates some pairs, the function of a *)
(* pair creates those below it, and each is joined as often as it was created *)
(* before its creator ends; no cycle of joins can come of that, and every     *)
(* join the forest might refuse nevertheless is allowed.                      *)
EXTENDS DedupTable

CONSTANTS
  RootKey,  \* the pairs that main creates threads for
  HoldMax   \* bound: on what the threads have created and not joined yet

ASSUME MergedAssumption == 1 \in Thread /\ IsFiniteSet(Thread) /\ HoldMax \in Nat

Main  == 1
NoKey == -1  \* func is NULL
NoLast == [thread |-> NULL, key |-> NoKey]

VARIABLES
  phase,        \* "running"; "exited", by clean_exit; "stuck", a join returned -1;
                \* "probing", a call never comes back from the table
  current,
  pc,           \* "free", "fresh", "user", "ready", "inline", "parked", "back", "done"
  refcount,
  func,         \* func and func_arg: the pair of a thread that was flushed
  waiting,
  inliner,      \* inline_jmpbuf: the joiner that runs this thread
  target,       \* the thread that a thread in thread_join has named
  last,         \* last_created, with last_created_func and last_created_arg
  table,
  pair,         \* what a thread was created for
  holds         \* how often each thread has got each other from thread_create

fields == <<waiting, inliner, target>>
vars   == <<phase, current, pc, refcount, func, fields, last, table, pair, holds>>

MergedInit ==
  /\ phase = "running"
  /\ current = Main
  /\ pc = [t \in Thread |-> IF t = Main THEN "user" ELSE "free"]
  /\ refcount = [t \in Thread |-> IF t = Main THEN 1 ELSE 0]
  /\ func = [t \in Thread |-> NoKey]
  /\ waiting = [t \in Thread |-> NULL]
  /\ inliner = [t \in Thread |-> NULL]
  /\ target = [t \in Thread |-> NULL]
  /\ last = NoLast
  /\ table = EmptyTable
  /\ pair = [t \in Thread |-> NoKey]
  /\ holds = [j \in Thread |-> [t \in Thread |-> 0]]

Calling == phase = "running" /\ pc[current] = "user"
InlineExecuting == \E t \in Thread : inliner[t] # NULL

(* flush_last_created, on the table T and on func f.                          *)
FlushedFunc(f) == IF last = NoLast THEN f ELSE [f EXCEPT ![last.thread] = last.key]
FlushedTable(T) == IF last = NoLast THEN T ELSE Inserted(T, last.key, last.thread)
FlushEnds(T) == last # NoLast => Accepts(T, last.key) # {}
Flush ==
  /\ FlushEnds(table)
  /\ func' = FlushedFunc(func) /\ table' = FlushedTable(table)
  /\ last' = NoLast

(* The run list without the running thread; the newest thread is in it once   *)
(* it is flushed.                                                             *)
Ready == {t \in Thread : pc[t] \in {"fresh", "ready"}}
SwitchTo(next, pcs) ==
  /\ current' = next
  /\ pc' = [pcs EXCEPT ![next] = "user"]

-------------------------------------------------------------------------------
(* thread_create: the newest thread is compared first, since it is not in the *)
(* table; then the table; then there is a new descriptor, or -1.              *)
Existing(k) == IF last # NoLast /\ last.key = k THEN last.thread ELSE Lookup(table, k)

Creating(k) == Calling /\ IF current = Main THEN k \in RootKey ELSE k < pair[current]
LookupEnds(k) == last.key # k => Stops(table, k) # {}

Sum(f) == FoldFunction(+, 0, f)
Held(t) == Sum([j \in Thread |-> holds[j][t]])

Hold(t) ==
  /\ Sum([u \in Thread |-> Held(u)]) < HoldMax
  /\ holds' = [holds EXCEPT ![current][t] = @ + 1]

MutCounted(t) == refcount  \* mutant: a merged thread is counted once
Counted(t) == [refcount EXCEPT ![t] = @ + 1]

CreateMerged(k) ==
  LET t == Existing(k) IN
    /\ Creating(k) /\ LookupEnds(k)
    /\ t # NULL
    /\ Hold(t)
    /\ refcount' = Counted(t)
    /\ UNCHANGED <<phase, current, pc, func, fields, last, table, pair>>

(* Which of the free descriptors makes no difference.                         *)
Free == {t \in Thread : pc[t] = "free"}

CreatingNew(k) ==
  /\ Creating(k) /\ LookupEnds(k)
  /\ Existing(k) = NULL
  /\ Free # {}

CreateNew(k) ==
  LET t == Min(Free) IN
  /\ CreatingNew(k) /\ FlushEnds(table)
  /\ Hold(t)
  /\ pc' = [pc EXCEPT ![t] = "fresh"]
  /\ refcount' = [refcount EXCEPT ![t] = 1]
  /\ func' = FlushedFunc([func EXCEPT ![t] = NoKey])
  /\ waiting' = [waiting EXCEPT ![t] = NULL]
  /\ inliner' = [inliner EXCEPT ![t] = NULL]
  /\ table' = FlushedTable(table)
  /\ last' = [thread |-> t, key |-> k]
  /\ pair' = [pair EXCEPT ![t] = k]
  /\ UNCHANGED <<phase, current, target>>

(* thread_yield, which does nothing while a thread is run inline.             *)
Yielding == Calling /\ ~InlineExecuting

Yield ==
  /\ Yielding
  /\ Flush
  /\ \/ Ready = {} /\ UNCHANGED <<current, pc>>
     \/ \E next \in Ready : SwitchTo(next, [pc EXCEPT ![current] = "ready"])
  /\ UNCHANGED <<phase, refcount, fields, pair, holds>>

-------------------------------------------------------------------------------
Joining(t) == Calling /\ holds[current][t] > 0

(* The end of thread_join on thread t: one holder less, and with the last one *)
(* the pair and the descriptor are free.                                      *)
Forgotten(t) == IF func[t] = NoKey THEN table ELSE Removed(table, func[t])

Cleanup(t, pcs) ==
  /\ refcount' = [refcount EXCEPT ![t] = @ - 1]
  /\ holds' = [holds EXCEPT ![current][t] = @ - 1]
  /\ IF refcount[t] = 1
     THEN /\ table' = Forgotten(t)
          /\ func' = [func EXCEPT ![t] = NoKey]
          /\ pc' = [pcs EXCEPT ![t] = "free"]
          /\ pair' = [pair EXCEPT ![t] = NoKey]
     ELSE pc' = pcs /\ UNCHANGED <<table, func, pair>>

JoinFinished(t) ==
  /\ Joining(t)
  /\ pc[t] = "done"
  /\ Cleanup(t, pc)
  /\ UNCHANGED <<phase, current, fields, last>>

(* A thread that has never run is run on the stack of the joiner.             *)
RunInline(t) ==
  /\ pc' = [pc EXCEPT ![current] = "inline", ![t] = "user"]
  /\ inliner' = [inliner EXCEPT ![t] = current]
  /\ target' = [target EXCEPT ![current] = t]
  /\ current' = t
  /\ UNCHANGED <<phase, refcount, waiting, pair, holds>>

JoiningFresh(t) == Joining(t) /\ pc[t] = "fresh"

JoinInline(t) ==
  /\ JoiningFresh(t)
  /\ IF last.thread = t
     THEN last' = NoLast /\ UNCHANGED <<func, table>>
     ELSE Flush
  /\ RunInline(t)

(* The others are waited for; waiting names one joiner, the last.             *)
Started(t) == pc[t] \notin {"free", "fresh", "done"}

Waits(t) == Joining(t) /\ Started(t)

JoinWait(t) ==
  /\ Waits(t)
  /\ waiting' = [waiting EXCEPT ![t] = current]
  /\ Flush
  /\ \/ /\ Ready = {}
        /\ phase' = "stuck"
        /\ UNCHANGED <<current, pc, target>>
     \/ /\ \E next \in Ready : SwitchTo(next, [pc EXCEPT ![current] = "parked"])
        /\ target' = [target EXCEPT ![current] = t]
        /\ UNCHANGED phase
  /\ UNCHANGED <<refcount, inliner, pair, holds>>

JoinReturn ==
  /\ phase = "running"
  /\ pc[current] = "back"
  /\ target' = [target EXCEPT ![current] = NULL]
  /\ Cleanup(target[current], [pc EXCEPT ![current] = "user"])
  /\ UNCHANGED <<phase, current, waiting, inliner, last>>

-------------------------------------------------------------------------------
(* thread_exit.  A thread run inline goes back to its joiner, ...             *)
Exiting == Calling /\ \A t \in Thread : holds[current][t] = 0

ExitInline ==
  LET j == inliner[current] IN
    /\ Exiting
    /\ j # NULL
    /\ inliner' = [inliner EXCEPT ![current] = NULL]
    /\ pc' = [pc EXCEPT ![current] = "done", ![j] = "back"]
    /\ current' = j
    /\ UNCHANGED <<phase, refcount, func, waiting, target, last, table, pair, holds>>

(* ... another hands over to the joiner that waits; its pair stays in the     *)
(* table, ...                                                                 *)
ExitToWaiter ==
  LET w == waiting[current] IN
    /\ Exiting
    /\ inliner[current] = NULL
    /\ w # NULL
    /\ pc' = [pc EXCEPT ![current] = "done", ![w] = "back"]
    /\ current' = w
    /\ UNCHANGED <<phase, refcount, func, fields, last, table, pair, holds>>

(* ... or leaves the table and elects.                                        *)
ExitingUnjoined == Exiting /\ inliner[current] = NULL /\ waiting[current] = NULL

ExitUnjoined ==
  /\ ExitingUnjoined /\ FlushEnds(Forgotten(current))
  /\ func' = FlushedFunc([func EXCEPT ![current] = NoKey])
  /\ table' = FlushedTable(Forgotten(current))
  /\ last' = NoLast
  /\ \/ /\ Ready = {}
        /\ phase' = "exited"
        /\ UNCHANGED <<current, pc>>
     \/ /\ \E next \in Ready : SwitchTo(next, [pc EXCEPT ![current] = "done"])
        /\ UNCHANGED phase
  /\ UNCHANGED <<refcount, fields, pair, holds>>

-------------------------------------------------------------------------------
(* A call that never comes back from its lookup, or from the insertion of the *)
(* flush.  What it has written before does not matter any more.               *)
Flushing ==
  \/ \E k \in Key : CreatingNew(k)
  \/ Yielding
  \/ \E t \in Thread : Waits(t) \/ (JoiningFresh(t) /\ last.thread # t)

NeverReturns ==
  \/ \E k \in Key : Creating(k) /\ ~LookupEnds(k)
  \/ ~FlushEnds(table) /\ Flushing
  \/ ExitingUnjoined /\ ~FlushEnds(Forgotten(current))

Probing ==
  /\ NeverReturns
  /\ phase' = "probing"
  /\ UNCHANGED <<current, pc, refcount, func, fields, last, table, pair, holds>>

-------------------------------------------------------------------------------
MergedNext ==
  \/ \E k \in Key : CreateMerged(k) \/ CreateNew(k)
  \/ Yield
  \/ \E t \in Thread : JoinFinished(t) \/ JoinInline(t) \/ JoinWait(t)
  \/ JoinReturn
  \/ ExitInline \/ ExitToWaiter \/ ExitUnjoined
  \/ Probing

Ended == phase # "running" /\ UNCHANGED vars

MergedSpec == MergedInit /\ [][MergedNext \/ Ended]_vars

-------------------------------------------------------------------------------
(* A descriptor is freed by the last join of those who hold it, not earlier   *)
(* and not later: its reference count is exact, however many calls of         *)
(* thread_create have returned it, before, while and after it has run.        *)
RefsAreHolders ==
  \A t \in Thread \ {Main} :
    IF pc[t] = "free" THEN Held(t) = 0 ELSE refcount[t] = Held(t)

(* The table never leads thread_create to a thread that has another pair or   *)
(* whose descriptor is free: it has the pairs of the threads that were        *)
(* flushed and not forgotten, each once, whatever shares the probes; only the *)
(* probe for a pair that it does not have may never end.                      *)
TableIsExact ==
  \A k \in Key :
    LET t == IF Stops(table, k) = {} THEN NULL ELSE Lookup(table, k) IN
      IF t = NULL THEN \A u \in Thread : func[u] # k
      ELSE pc[t] # "free" /\ func[t] = k /\ \A u \in Thread \ {t} : func[u] # k
=============================================================================
