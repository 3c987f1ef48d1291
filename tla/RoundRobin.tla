----------------------------- MODULE RoundRobin -----------------------------
(* simulate_round_robin: the ready queue is served in slices of at most     *)
(* time_quantum units; a process whose slice ends goes to the back.         *)
EXTENDS ReadyQueue, FiniteSetsExt

CONSTANT Quanta          \* the time_quantum arguments considered
ASSUME QuantaAssumption == Quanta \subseteq Int

VARIABLES time_quantum, used_time, status

vars == <<readyVars, time_quantum, used_time, status>>
sliceVars == <<time_quantum, used_time, status>>

\* mutant: a quantum of 0 is taken as it is
MutInitZeroQuantum ==
  ReadyInit /\ time_quantum \in Quanta /\ used_time = 0 /\ status = "more"

\* a quantum that is not positive is replaced by 1
Init ==
  /\ ReadyInit
  /\ \E q \in Quanta : time_quantum = IF q <= 0 THEN 1 ELSE q
  /\ used_time = 0 /\ status = "more"

OuterLoop == LoopHead /\ UNCHANGED sliceVars

\* enqueue_ready_processes at the top of the loop and after every unit of a slice
Enqueue ==
  /\ \/ pc = "enqueue" /\ EnqueuePass("pick")
     \/ pc = "refill" /\ EnqueuePass("slice")
  /\ UNCHANGED sliceVars

IdleUnit ==
  /\ pc = "pick" /\ queue_empty
  /\ PassTime
  /\ pc' = "head"
  /\ UNCHANGED <<queueVars, current_process, state, cursor, sliceVars>>

Pick ==
  /\ pc = "pick"
  /\ Pop
  /\ pc' = "slice" /\ used_time' = 0 /\ status' = "more"
  /\ UNCHANGED <<cpuVars, cursor, time_quantum>>

\* mutant: the slice is one unit too long
MutSliceOneMore == /\ status = "more" /\ used_time <= time_quantum
                   /\ remaining_time[current_process] > 0 /\ current_time < MAX_TIME

\* no break yet, and the inner while condition
SliceGoesOn == /\ status = "more" /\ used_time < time_quantum
               /\ remaining_time[current_process] > 0 /\ current_time < MAX_TIME

\* mutant: arrivals during a slice wait for its end
MutUnitNoRefill ==
  /\ pc = "slice" /\ SliceGoesOn
  /\ Execute(current_process)
  /\ used_time' = used_time + 1
  /\ status' = Outcome(current_process)
  /\ state' = [state EXCEPT ![current_process] = StateAfter(current_process)]
  /\ UNCHANGED <<queueVars, current_process, cursor, time_quantum, pc>>

Unit ==
  /\ pc = "slice" /\ SliceGoesOn
  /\ Execute(current_process)
  /\ used_time' = used_time + 1
  /\ status' = Outcome(current_process)
  /\ state' = [state EXCEPT ![current_process] = StateAfter(current_process)]
  /\ pc' = "refill"
  /\ UNCHANGED <<queueVars, current_process, cursor, time_quantum>>

QuantumUsed == status = "more" /\ ~completed[current_process]

\* after the inner loop: a process that only used up its slice is pushed again
SliceEnd ==
  /\ pc = "slice" /\ ~SliceGoesOn
  /\ \/ /\ QuantumUsed
        /\ state' = [state EXCEPT ![current_process] = "READY"]
        /\ \/ Push(current_process) /\ pc' = "head" /\ UNCHANGED cursor
           \/ Overflow
     \/ ~QuantumUsed /\ pc' = "head" /\ UNCHANGED <<queueVars, state, cursor>>
  /\ current_process' = NoProc
  /\ UNCHANGED <<cpuVars, sliceVars>>

Next == OuterLoop \/ Enqueue \/ IdleUnit \/ Pick \/ Unit \/ SliceEnd \/ (Ended /\ UNCHANGED sliceVars)

\* simulate_round_robin is sequential code: its next statement is always executed
Spec == Init /\ [][Next]_vars /\ WF_vars(Next)

-----------------------------------------------------------------------------
\* A process in the ready queue is given the CPU after at most one slice of
\* every other process, whatever arrives or returns from I/O meanwhile.
BoundedWait ==
  \A i \in Procs : in_ready[i] => current_time - ReadySince(i) <= (N - 1) * time_quantum

\* A slice is not longer than the quantum, and ends early only when the process
\* finishes or starts an I/O, or the simulation ends: a process that is pushed
\* back was not preempted before its time.
SliceIsWhole ==
  [][(current_process # NoProc /\ current_process' = NoProc /\ ~completed[current_process]
        /\ is_available(current_process) /\ state[current_process] = "RUNNING")
       => used_time = time_quantum \/ current_time = MAX_TIME]_vars

\* Every pop is paid for by a unit of CPU time and the queue holds a process at
\* most once, so the array cannot fill before time MAX_TIME - process_count.
PushesArePaidFor ==
  /\ front <= current_time + (IF current_process = NoProc THEN 0 ELSE 1)
  /\ rear - front <= N
  /\ pc = "exit" => current_time + N >= MAX_TIME

\* main.c:51 applies every algorithm to the workload in turn: simulate_round_robin
\* returns, it does not end the program.
NeverExits == pc # "exit"

\* The loop always ends: at the time limit, with every process finished, or with
\* the queue full.
Ends == <>(pc \in {"done", "exit"})

=============================================================================
