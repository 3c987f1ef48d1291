-------------------------------- MODULE Cpu --------------------------------
(***************************************************************************)
(* One simulated CPU, as every simulate_* function of                      *)
(* cpu_scheduler/scheduler.c drives it: the PCB array p[], current_time    *)
(* and result->timeline, and what one loop iteration may do to them.       *)
(* Which process runs is left open, so CpuSpec is the abstract promise     *)
(* that the seven algorithms have in common; the modules that extend this  *)
(* one choose the process as their source does and implement CpuSpec.      *)
(*                                                                         *)
(* Process i of Procs is p[i - 1], whose pid is i.                         *)
(***************************************************************************)
EXTENDS Types

CONSTANTS N,              \* process_count
          MAX_TIME,       \* length of the timeline, and the time limit
          Workloads       \* the workloads the simulation may be started on

Procs == 1..N
Idle  == -1               \* the timeline entry of an idle unit
None  == -1               \* "not yet" in blocked_until, first_run_time, finish_time

ASSUME CpuAssumption ==
  /\ N \in Nat /\ MAX_TIME \in Nat
  /\ \A w \in Workloads : /\ w \in [Procs -> Job]
                          /\ \A i \in Procs : WellFormed(w[i])

VARIABLES work,            \* the workload, fixed in Init
          current_time, timeline,
          remaining_time, next_io, blocked_until,
          first_run_time, finish_time, completed

pcbVars == <<remaining_time, next_io, blocked_until, first_run_time, finish_time, completed>>
cpuVars == <<work, current_time, timeline, remaining_time, next_io, blocked_until,
             first_run_time, finish_time, completed>>

-----------------------------------------------------------------------------
all_completed == \A i \in Procs : completed[i]

\* the condition of every simulation loop
Simulating == ~all_completed /\ current_time < MAX_TIME

\* mutant: the blocked_until test of is_available is forgotten
MutAvailableInIo(i) ==
  ~completed[i] /\ remaining_time[i] > 0 /\ work[i].arrival <= current_time

is_available(i) ==
  /\ ~completed[i]
  /\ remaining_time[i] > 0
  /\ work[i].arrival <= current_time
  /\ blocked_until[i] < 0 \/ blocked_until[i] <= current_time

consumed_cpu_time(i) == work[i].burst - remaining_time[i]

\* p[i] will have used "used" units: is its next I/O event due?
IoDue(i, used) == /\ next_io[i] < Len(work[i].io)
                  /\ work[i].io[next_io[i] + 1].start = used

\* mutant: the event due is looked up before the unit is counted
MutOutcomeLateIo(i) ==
  IF remaining_time[i] = 1 THEN "finished"
  ELSE IF IoDue(i, consumed_cpu_time(i)) THEN "io" ELSE "more"

\* what handle_after_cpu_unit returns after p[i] has run one more unit: 1, 2 or 0
Outcome(i) ==
  IF remaining_time[i] = 1 THEN "finished"
  ELSE IF IoDue(i, consumed_cpu_time(i) + 1) THEN "io" ELSE "more"

\* run_one_time_unit, then handle_after_cpu_unit (which sees the new time)
Execute(i) ==
  LET now  == current_time + 1
      done == Outcome(i) = "finished"
      io   == Outcome(i) = "io"
  IN  /\ first_run_time' = [first_run_time EXCEPT ![i] = IF @ = None THEN current_time ELSE @]
      /\ timeline'       = [timeline EXCEPT ![current_time] = i]
      /\ remaining_time' = [remaining_time EXCEPT ![i] = @ - 1]
      /\ current_time'   = now
      /\ completed'      = [completed EXCEPT ![i] = done]
      /\ finish_time'    = [finish_time EXCEPT ![i] = IF done THEN now ELSE @]
      /\ blocked_until'  = [blocked_until EXCEPT ![i] =
                              IF io THEN now + work[i].io[next_io[i] + 1].burst ELSE @]
      /\ next_io'        = [next_io EXCEPT ![i] = IF io THEN @ + 1 ELSE @]
      /\ UNCHANGED work

\* mutant: an idle unit is recorded and current_time forgotten
MutPassTimeStuck ==
  timeline' = [timeline EXCEPT ![current_time] = Idle] /\ UNCHANGED <<work, current_time, pcbVars>>

\* the branch every loop takes when it has nothing to run
PassTime ==
  /\ timeline' = [timeline EXCEPT ![current_time] = Idle]
  /\ current_time' = current_time + 1
  /\ UNCHANGED <<work, pcbVars>>

-----------------------------------------------------------------------------
\* copy_workload and init_result
CpuInit ==
  /\ work \in Workloads
  /\ current_time   = 0
  /\ timeline       = [t \in 0..MAX_TIME-1 |-> Idle]
  /\ remaining_time = [i \in Procs |-> work[i].burst]
  /\ next_io        = [i \in Procs |-> 0]
  /\ blocked_until  = [i \in Procs |-> None]
  /\ first_run_time = [i \in Procs |-> None]
  /\ finish_time    = [i \in Procs |-> None]
  /\ completed      = [i \in Procs |-> FALSE]

RunStep(i) == Simulating /\ is_available(i) /\ Execute(i)

IdleStep == Simulating /\ (\A i \in Procs : ~is_available(i)) /\ PassTime

Stopped == ~Simulating /\ UNCHANGED cpuVars

CpuNext == IdleStep \/ Stopped \/ \E i \in Procs : RunStep(i)

\* A CPU that is never idle while a process can run, and runs no other.
CpuSpec == CpuInit /\ [][CpuNext]_cpuVars

=============================================================================
