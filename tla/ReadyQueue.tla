----------------------------- MODULE ReadyQueue -----------------------------
(***************************************************************************)
(* The ready queue that simulate_fcfs and simulate_round_robin share:      *)
(* queue.c, and scheduler.c's enqueue_ready_processes.  An IntQueue is an  *)
(* array that is consumed from front and filled at rear; neither index     *)
(* ever goes back, so rear counts every push of the simulation.            *)
(*                                                                         *)
(* The loop of enqueue_ready_processes is modelled one index at a time:    *)
(* cursor is its i, pc the place in the simulate_* function.               *)
(***************************************************************************)
EXTENDS Cpu

VARIABLES items, front, rear,   \* IntQueue ready_queue
          in_ready,             \* in_ready[]
          current_process,      \* the process that has the CPU, or NoProc
          state,                \* p[i].state
          pc, cursor

NoProc == 0                     \* current_process == -1

queueVars == <<items, front, rear, in_ready>>
readyVars == <<work, current_time, timeline, remaining_time, next_io, blocked_until,
               first_run_time, finish_time, completed,
               items, front, rear, in_ready, current_process, state, pc, cursor>>

States == {"NEW", "READY", "RUNNING", "WAITING", "TERMINATED"}

queue_empty == front = rear
queue_full  == rear >= MAX_TIME
Queued      == {items[k] : k \in front..rear-1}

\* queue_push(i), when the queue is not full, and in_ready[i] = 1
Push(i) ==
  /\ ~queue_full
  /\ items'    = [items EXCEPT ![rear] = i]
  /\ rear'     = rear + 1
  /\ in_ready' = [in_ready EXCEPT ![i] = TRUE]
  /\ UNCHANGED front

\* queue_push on a full queue: "Queue overflow", exit(1)
Overflow == queue_full /\ pc' = "exit" /\ UNCHANGED <<queueVars, cursor>>

\* queue_pop, in_ready[...] = 0, current_process gets it
Pop ==
  /\ ~queue_empty
  /\ current_process' = items[front]
  /\ front'    = front + 1
  /\ in_ready' = [in_ready EXCEPT ![items[front]] = FALSE]
  /\ state'    = [state EXCEPT ![items[front]] = "RUNNING"]
  /\ UNCHANGED <<items, rear>>

\* refresh_waiting_processes at index i
Refreshed(i) == IF state[i] = "WAITING" /\ blocked_until[i] <= current_time /\ ~completed[i]
                THEN "READY" ELSE state[i]

\* mutant: a process joins one unit after its arrival
MutJoinsLate(i) ==
  i # current_process /\ is_available(i) /\ ~in_ready[i] /\ work[i].arrival < current_time

Joins(i) == i # current_process /\ is_available(i) /\ ~in_ready[i]

\* enqueue_ready_processes at index cursor; after the last index control goes to next
EnqueueOne(next) ==
  /\ \/ /\ Joins(cursor)
        /\ Push(cursor)
        /\ state' = [state EXCEPT ![cursor] = "READY"]
     \/ /\ ~Joins(cursor)
        /\ state' = [state EXCEPT ![cursor] = Refreshed(cursor)]
        /\ UNCHANGED queueVars
  /\ IF cursor < N THEN cursor' = cursor + 1 /\ UNCHANGED pc
                   ELSE cursor' = 1 /\ pc' = next
  /\ UNCHANGED <<cpuVars, current_process>>

EnqueuePass(next) ==
  \/ EnqueueOne(next)
  \/ Joins(cursor) /\ Overflow /\ UNCHANGED <<cpuVars, current_process, state>>

\* mutant: a finished process is not marked
MutStateAfterEnd(i) == IF Outcome(i) = "io" THEN "WAITING" ELSE "RUNNING"

\* p[i].state after run_one_time_unit and handle_after_cpu_unit, "more" standing
\* for what it is when the process may go on
StateAfter(i) == CASE Outcome(i) = "finished" -> "TERMINATED"
                   [] Outcome(i) = "io"       -> "WAITING"
                   [] OTHER                   -> "RUNNING"

\* queue_init, in_ready = {0}; queue_init leaves items[] uninitialized, 0 stands
\* for whatever is there
ReadyInit ==
  /\ CpuInit
  /\ items = [k \in 0..MAX_TIME-1 |-> NoProc] /\ front = 0 /\ rear = 0
  /\ in_ready = [i \in Procs |-> FALSE]
  /\ current_process = NoProc
  /\ state = [i \in Procs |-> "NEW"]
  /\ pc = "head" /\ cursor = 1

\* mutant: arrivals are looked for only when the CPU is free
MutLoopHeadLazy ==
  /\ pc = "head"
  /\ pc' = IF ~Simulating THEN "done" ELSE IF current_process = NoProc THEN "enqueue" ELSE "cpu"
  /\ UNCHANGED <<cpuVars, queueVars, current_process, state, cursor>>

\* the condition of the while loop
LoopHead ==
  /\ pc = "head"
  /\ pc' = IF Simulating THEN "enqueue" ELSE "done"
  /\ UNCHANGED <<cpuVars, queueVars, current_process, state, cursor>>

\* the simulate_* function has returned, or the program has exited
Ended == pc \in {"done", "exit"} /\ UNCHANGED readyVars

-----------------------------------------------------------------------------
\* when p[i] last became ready: it arrived, its I/O ended, or its last unit ended
ReadySince(i) ==
  LET ends == {t + 1 : t \in {u \in 0..current_time-1 : timeline[u] = i}}
              \union {work[i].arrival, blocked_until[i]}
  IN  CHOOSE t \in ends : \A u \in ends : u <= t

ReadyTypeOK ==
  /\ work \in Workloads
  /\ current_time \in 0..MAX_TIME
  /\ timeline \in [0..MAX_TIME-1 -> Procs \union {Idle}]
  /\ remaining_time \in [Procs -> Nat] /\ next_io \in [Procs -> Nat]
  /\ blocked_until \in [Procs -> Nat \union {None}]
  /\ first_run_time \in [Procs -> (0..MAX_TIME) \union {None}]
  /\ finish_time \in [Procs -> (0..MAX_TIME) \union {None}]
  /\ completed \in [Procs -> BOOLEAN]
  /\ items \in [0..MAX_TIME-1 -> Procs \union {NoProc}]
  /\ front \in 0..MAX_TIME /\ rear \in 0..MAX_TIME
  /\ in_ready \in [Procs -> BOOLEAN]
  /\ current_process \in Procs \union {NoProc}
  /\ state \in [Procs -> States]
  /\ cursor \in 1..N \union {1}

\* in_ready[i] says whether i is in the queue, where it is at most once, and the
\* process that has the CPU is not there: no process is scheduled twice.
QueueMatchesFlags ==
  /\ front <= rear
  /\ \A i \in Procs : in_ready[i] <=> i \in Queued
  /\ \A j, k \in front..rear-1 : items[j] = items[k] => j = k
  /\ current_process # NoProc => ~in_ready[current_process]

\* A process in the queue stays available until it is popped: queue_pop's caller
\* runs it without asking is_available again.
QueuedAreAvailable == \A i \in Procs : in_ready[i] => is_available(i)

\* The queue is ordered by the time its members became ready, whatever the
\* arrivals, I/O returns and preemptions that put them there.
QueueInReadyOrder ==
  \A j, k \in front..rear-1 : j < k => ReadySince(items[j]) <= ReadySince(items[k])

\* p[i].state, which print_metrics shows, agrees with the scheduling data: at most
\* one process is RUNNING, the one with the CPU; WAITING means in an unfinished
\* I/O or not yet refreshed; TERMINATED means completed with no CPU time left.
StateMatchesPcb ==
  \A i \in Procs :
     /\ state[i] = "RUNNING" => i = current_process
     /\ state[i] = "TERMINATED" <=> completed[i]
     /\ completed[i] <=> remaining_time[i] = 0
     /\ completed[i] <=> finish_time[i] # None
     /\ state[i] = "WAITING" => next_io[i] > 0 /\ ~in_ready[i]
     /\ in_ready[i] => state[i] = "READY"

=============================================================================
