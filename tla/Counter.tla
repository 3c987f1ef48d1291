------------------------------- MODULE Counter -------------------------------
(***************************************************************************)
(* lab4 thread_03.c and thread_04.c: main creates threads that increment   *)
(* one counter, without and with a mutex, and joins them.  cnt++ is a load *)
(* and a store, as a build without optimisation makes it.                  *)
(***************************************************************************)
EXTENDS Integers

CONSTANTS NUM_THREADS, NUM_TASKS    \* 100 and 10000 in the code
ASSUME CounterAssumption == {NUM_THREADS, NUM_TASKS} \subseteq Nat \ {0, 1}

Threads == 1..NUM_THREADS
Main    == 0              \* no thread has this number

VARIABLES with_lock,      \* thread_04.c, not thread_03.c
          main_pc, next,  \* the thread main creates or joins next
          worker_pc, tasks_left,
          progress,       \* what the thread has read of cnt
          cnt, lock       \* lock: the thread that holds the mutex, or Main
counterVars == <<with_lock, main_pc, next, worker_pc, tasks_left, progress, cnt, lock>>

LoopBody == IF with_lock THEN "lock" ELSE "load"

CounterInit ==
  /\ with_lock \in BOOLEAN
  /\ main_pc = "create" /\ next = 1
  /\ worker_pc = [t \in Threads |-> "new"] /\ tasks_left = [t \in Threads |-> NUM_TASKS]
  /\ progress = [t \in Threads |-> 0]
  /\ cnt = 0 /\ lock = Main

-----------------------------------------------------------------------------
(* main *)

Create ==
  /\ main_pc = "create"
  /\ worker_pc' = [worker_pc EXCEPT ![next] = LoopBody]
  /\ IF next < NUM_THREADS THEN next' = next + 1 /\ UNCHANGED main_pc
                           ELSE next' = 1 /\ main_pc' = "join"
  /\ UNCHANGED <<with_lock, tasks_left, progress, cnt, lock>>

\* pthread_create fails: main returns, which ends the threads there are
CreateFails ==
  /\ main_pc = "create"
  /\ main_pc' = "error" /\ worker_pc' = [t \in Threads |-> "exit"]
  /\ UNCHANGED <<with_lock, next, tasks_left, progress, cnt, lock>>

\* mutant: main joins the first thread only
MutJoinFirst ==
  /\ main_pc = "join" /\ worker_pc[next] = "exit"
  /\ main_pc' = "report"
  /\ UNCHANGED <<with_lock, next, worker_pc, tasks_left, progress, cnt, lock>>

Join ==
  /\ main_pc = "join" /\ worker_pc[next] = "exit"
  /\ IF next < NUM_THREADS THEN next' = next + 1 /\ UNCHANGED main_pc
                           ELSE main_pc' = "report" /\ UNCHANGED next
  /\ UNCHANGED <<with_lock, worker_pc, tasks_left, progress, cnt, lock>>

-----------------------------------------------------------------------------
(* worker *)

WorkerGoto(t, from, to) == worker_pc[t] = from /\ worker_pc' = [worker_pc EXCEPT ![t] = to]

Lock(t) ==
  /\ lock = Main /\ lock' = t
  /\ WorkerGoto(t, "lock", "load")
  /\ UNCHANGED <<with_lock, main_pc, next, tasks_left, progress, cnt>>

Load(t) ==
  /\ WorkerGoto(t, "load", "store")
  /\ progress' = [progress EXCEPT ![t] = cnt]
  /\ UNCHANGED <<with_lock, main_pc, next, tasks_left, cnt, lock>>

Store(t) ==
  /\ cnt' = progress[t] + 1
  /\ tasks_left' = [tasks_left EXCEPT ![t] = @ - 1]
  /\ WorkerGoto(t, "store", IF with_lock THEN "unlock"
                            ELSE IF tasks_left[t] > 1 THEN "load" ELSE "exit")
  /\ UNCHANGED <<with_lock, main_pc, next, progress, lock>>

\* mutant: the mutex is not released at the end
MutUnlockForgets(t) ==
  /\ lock' = IF tasks_left[t] > 0 THEN Main ELSE lock
  /\ WorkerGoto(t, "unlock", IF tasks_left[t] > 0 THEN "lock" ELSE "exit")
  /\ UNCHANGED <<with_lock, main_pc, next, tasks_left, progress, cnt>>

Unlock(t) ==
  /\ lock' = Main
  /\ WorkerGoto(t, "unlock", IF tasks_left[t] > 0 THEN "lock" ELSE "exit")
  /\ UNCHANGED <<with_lock, main_pc, next, tasks_left, progress, cnt>>

Worker(t) == Lock(t) \/ Load(t) \/ Store(t) \/ Unlock(t)

CounterNext == Create \/ CreateFails \/ Join \/ \E t \in Threads : Worker(t)

\* Each thread that can take a step keeps taking steps; nothing is assumed of the
\* order in which the mutex lets threads in.
CounterFairness == /\ WF_counterVars(Create \/ Join)
                   /\ \A t \in Threads : WF_counterVars(Worker(t))

-----------------------------------------------------------------------------
\* What main prints as the result: with the mutex every increment counts.  Without it
\* increments are lost, all but two of them at worst: two always count, since the last
\* store of all follows a load that has seen another.
CountIsRight ==
  main_pc = "report" => /\ with_lock => cnt = NUM_THREADS * NUM_TASKS
                        /\ cnt \in 2..NUM_THREADS * NUM_TASKS
=============================================================================
