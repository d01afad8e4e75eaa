-------------------------- MODULE AbstractScheduler --------------------------
(* The contract between the threads of the M:N library and its scheduler: a   *)
(* thread is made ready only when it is nowhere, and its registers saved; the *)
(* scheduler runs every thread made ready once, and keeps it until then.      *)
CONSTANTS Thread, Worker, NULL

VARIABLES
  ready,    \* the threads to run
  running,  \* the thread of each worker
  leaving   \* after a switch: whose registers are being saved, who is pushed next

vars == <<ready, running, leaving>>

Nobody == [me |-> NULL, next |-> NULL]

Init ==
  /\ ready = {}
  /\ \E w \in Worker, t \in Thread : running = [v \in Worker |-> IF v = w THEN t ELSE NULL]
  /\ leaving = [w \in Worker |-> Nobody]

Nowhere(t) ==
  /\ t \notin ready
  /\ \A w \in Worker : t \notin {running[w], leaving[w].me, leaving[w].next}

Wakeable == {t \in Thread : Nowhere(t)}

(* The thread of w makes others ready.                                        *)
MakeReady(w) ==
  /\ running[w] # NULL
  /\ \E made \in SUBSET Wakeable : ready' = ready \cup made
  /\ UNCHANGED <<running, leaving>>

(* It leaves w, with somebody to push after the switch or nobody.             *)
Leave(w) ==
  LET t == running[w] IN
    /\ t # NULL
    /\ running' = [running EXCEPT ![w] = NULL]
    /\ \E made \in SUBSET Wakeable, me \in {t, NULL} :
         /\ ready' = ready \cup made
         /\ \E next \in {t, NULL} \cup (Wakeable \ made) :
              leaving' = [leaving EXCEPT ![w] = [me |-> me, next |-> next]]

Push(w) ==
  /\ leaving[w] # Nobody
  /\ ready' = ready \cup ({leaving[w].next} \ {NULL})
  /\ leaving' = [leaving EXCEPT ![w] = Nobody]
  /\ UNCHANGED running

Take(w) ==
  /\ running[w] = NULL
  /\ leaving[w] = Nobody
  /\ \E t \in ready : ready' = ready \ {t} /\ running' = [running EXCEPT ![w] = t]
  /\ UNCHANGED leaving

(* An inline run puts another thread in the place of the running one.         *)
Replace(w) ==
  /\ running[w] # NULL
  /\ \E t \in Wakeable : running' = [running EXCEPT ![w] = t]
  /\ UNCHANGED <<ready, leaving>>

Next == \E w \in Worker : MakeReady(w) \/ Leave(w) \/ Push(w) \/ Take(w) \/ Replace(w)

Spec == Init /\ [][Next]_vars
=============================================================================
