-------------------------------- MODULE Fcfs --------------------------------
(* simulate_fcfs: the ready queue is served in order, each process until it *)
(* finishes or starts an I/O.                                               *)
EXTENDS ReadyQueue

FcfsEnqueue == pc = "enqueue" /\ EnqueuePass("cpu")

Dispatch ==
  /\ pc = "cpu" /\ current_process = NoProc
  /\ Pop
  /\ UNCHANGED <<cpuVars, pc, cursor>>

FcfsIdleUnit ==
  /\ pc = "cpu" /\ current_process = NoProc /\ queue_empty
  /\ PassTime
  /\ pc' = "head"
  /\ UNCHANGED <<queueVars, current_process, state, cursor>>

\* mutant: the CPU is given up after every unit
MutRunUnitYields ==
  /\ pc = "cpu" /\ current_process # NoProc
  /\ Execute(current_process)
  /\ state' = [state EXCEPT ![current_process] = StateAfter(current_process)]
  /\ current_process' = NoProc
  /\ pc' = "head"
  /\ UNCHANGED <<queueVars, cursor>>

RunUnit ==
  /\ pc = "cpu" /\ current_process # NoProc
  /\ Execute(current_process)
  /\ state' = [state EXCEPT ![current_process] = StateAfter(current_process)]
  /\ current_process' = IF Outcome(current_process) = "more" THEN current_process ELSE NoProc
  /\ pc' = "head"
  /\ UNCHANGED <<queueVars, cursor>>

FcfsNext == LoopHead \/ FcfsEnqueue \/ Dispatch \/ FcfsIdleUnit \/ RunUnit \/ Ended

FcfsSpec == ReadyInit /\ [][FcfsNext]_readyVars

-----------------------------------------------------------------------------
\* Once a process has the CPU no other runs, and no unit is idle, until it
\* finishes or starts an I/O: FCFS never preempts.
NeverPreempts ==
  [][current_process # NoProc /\ current_process' # current_process
       => completed'[current_process] \/ blocked_until'[current_process] >= current_time']_readyVars

\* The queue never overflows: a process is pushed when it arrives and after each
\* I/O, so rear stays below process_count * (MAX_IO_EVENTS + 1) + 1.
NeverOverflows == pc # "exit" /\ rear <= N * (MAX_IO_EVENTS + 1)

=============================================================================
