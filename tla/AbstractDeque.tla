---------------------------- MODULE AbstractDeque ----------------------------
(* What runq_push, runq_pop_block and try_steal need of the deque of a worker *)
(* (src/src/scheduler_mn.c): its owner pushes and pops at one end, the other  *)
(* workers steal at the other end, and every thread is taken once.  A steal   *)
(* may fail for no reason; a pop fails only when there is nothing.            *)
EXTENDS Integers, Sequences, SequencesExt

CONSTANTS Thread, Worker, Owner, Cap, NULL

VARIABLES queue,    \* the threads in the deque, the oldest first
          answer,   \* what the last pop or steal returned, and to whom
          aborted   \* a push found the deque full

Init == queue = <<>> /\ answer = [worker |-> Owner, thread |-> NULL] /\ aborted = FALSE

Answer(w, t) == answer' = [worker |-> w, thread |-> t]

Push(t) ==
  /\ t \notin ToSet(queue)
  /\ Len(queue) < Cap
  /\ queue' = Append(queue, t)
  /\ UNCHANGED <<answer, aborted>>

Overflow == Len(queue) = Cap /\ aborted' = TRUE /\ UNCHANGED <<queue, answer>>

Pop ==
  /\ queue # <<>>
  /\ queue' = Front(queue)
  /\ Answer(Owner, Last(queue))
  /\ UNCHANGED aborted

PopNothing == queue = <<>> /\ Answer(Owner, NULL) /\ UNCHANGED <<queue, aborted>>

Steal(w) ==
  /\ queue # <<>>
  /\ queue' = Tail(queue)
  /\ Answer(w, Head(queue))
  /\ UNCHANGED aborted

StealNothing(w) == Answer(w, NULL) /\ UNCHANGED <<queue, aborted>>

Next ==
  \/ \E t \in Thread : Push(t)
  \/ Overflow
  \/ Pop \/ PopNothing
  \/ \E w \in Worker \ {Owner} : Steal(w) \/ StealNothing(w)

Spec == Init /\ [][Next]_<<queue, answer, aborted>>
=============================================================================
