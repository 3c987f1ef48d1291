----------------------------- MODULE Evaluation -----------------------------
(***************************************************************************)
(* cpu_scheduler/evaluation.c: the metrics calculate_metrics derives from  *)
(* the PCBs and the timeline when a simulation ends, and an independent    *)
(* account of the same quantities, read off the timeline alone, that they  *)
(* are checked against.  Averages, variances and printing are left out.    *)
(***************************************************************************)
EXTENDS Cpu, FiniteSetsExt

end_time == current_time

\* metrics are computed only for processes that finished
Valid(i) == finish_time[i] >= 0

total_io_time(i) == MapThenSumSet(LAMBDA k : work[i].io[k].burst, DOMAIN work[i].io)
turnaround_time(i) == finish_time[i] - work[i].arrival
waiting_time(i) == turnaround_time(i) - work[i].burst - total_io_time(i)
response_time(i) == first_run_time[i] - work[i].arrival

BusyAt(t) == timeline[t] # Idle

NoUnits == [last_pid |-> None, cpu_time |-> 0, idle_time |-> 0, context_switch_count |-> 0]

\* mutant: the branch of an idle unit does not skip the assignment to last_pid
MutCountUnitForgets(stats, pid) ==
  IF pid = Idle THEN [stats EXCEPT !.idle_time = @ + 1, !.last_pid = pid]
  ELSE [stats EXCEPT !.cpu_time = @ + 1, !.last_pid = pid,
                     !.context_switch_count =
                        IF stats.last_pid # None /\ stats.last_pid # pid THEN @ + 1 ELSE @]

\* one iteration of the loop of calculate_runtime_stats
CountUnit(stats, pid) ==
  IF pid = Idle THEN [stats EXCEPT !.idle_time = @ + 1]
  ELSE [stats EXCEPT !.cpu_time = @ + 1, !.last_pid = pid,
                     !.context_switch_count =
                        IF stats.last_pid # None /\ stats.last_pid # pid THEN @ + 1 ELSE @]

\* what the loop has counted after t units
runtime_stats[t \in 0..MAX_TIME] ==
  IF t = 0 THEN NoUnits ELSE CountUnit(runtime_stats[t - 1], timeline[t - 1])

cpu_time             == runtime_stats[end_time].cpu_time
idle_time            == runtime_stats[end_time].idle_time
context_switch_count == runtime_stats[end_time].context_switch_count

\* throughput is this count divided by total_time
throughput_count == N

-----------------------------------------------------------------------------
(* The reference account: what the timeline itself says.                   *)

Ran(i, t) == Cardinality({u \in 0..t-1 : timeline[u] = i})

\* p[i] performs at time t an I/O it began after the CPU unit that ended at s
InIo(i, t) ==
  \E s \in 1..t : /\ timeline[s-1] = i
                  /\ \E k \in DOMAIN work[i].io :
                        /\ work[i].io[k].start = Ran(i, s)
                        /\ t < s + work[i].io[k].burst

\* it has not used its CPU burst, has arrived and is in no I/O
Runnable(i, t) == /\ work[i].arrival <= t
                  /\ Ran(i, t) < work[i].burst
                  /\ ~InIo(i, t)

\* every I/O event lies strictly inside the CPU burst, where it can be reached
Reachable(job) == \A k \in DOMAIN job.io : job.io[k].start >= 1

ReadyTicks(i) == Cardinality({t \in 0..end_time-1 : Runnable(i, t) /\ timeline[t] # i})

\* the units in which p[i] has the CPU
Shows(i) == {t \in 0..end_time-1 : timeline[t] = i}

\* the units in which there is nothing the CPU could do
NothingToRun == {t \in 0..end_time-1 : \A i \in Procs : ~Runnable(i, t)}

\* those of the first t units in which another process has the CPU than the last one
\* that had it, with at most idle units between
HandOvers(t) ==
  {u \in 0..t-1 : BusyAt(u) /\ \E s \in 0..u-1 : /\ BusyAt(s) /\ timeline[s] # timeline[u]
                                                 /\ \A v \in s+1..u-1 : ~BusyAt(v)}

-----------------------------------------------------------------------------
\* The timeline (the Gantt chart) shows a process only at times when it had
\* arrived, had CPU time left and was in no I/O; and an idle unit only when
\* there was no such process.
TimelineIsLegal ==
  \A t \in 0..current_time-1 :
     IF BusyAt(t) THEN Runnable(timeline[t], t) ELSE \A i \in Procs : ~Runnable(i, t)

\* What calculate_metrics computes from the time fields of a PCB, which are written once
\* during the simulation, is what the timeline shows: the response time lasts to the start
\* of the process's first unit and the turnaround time to the end of its last; the waiting time,
\* computed by subtracting the whole burst and every registered I/O, is the number of
\* units the process was ready and another one (or none) had the CPU, of which the
\* response time is a part.
MetricsMatchTimeline ==
  \A i \in Procs : Valid(i) =>
    /\ response_time(i)   = Min(Shows(i)) - work[i].arrival
    /\ turnaround_time(i) = (Max(Shows(i)) + 1) - work[i].arrival
    /\ Reachable(work[i]) => /\ waiting_time(i) = ReadyTicks(i)
                             /\ response_time(i) <= waiting_time(i)

\* What calculate_runtime_stats counts in one pass is what there is to count: the CPU
\* time is the one the PCBs say was used, the idle units are those in which no process
\* could run, and a context switch is a unit that the CPU has gone to another process
\* than the last one that had it, so that neither the first process counts nor one that
\* goes on after an idle time.
StatsMatchTimeline ==
  /\ cpu_time  = MapThenSumSet(consumed_cpu_time, Procs)
  /\ idle_time = Cardinality(NothingToRun)
  /\ context_switch_count = Cardinality(HandOvers(end_time))

\* evaluation.c:126: waiting time is the turnaround time less the CPU time and
\* the I/O time the process used, so it is never negative.
WaitingAsDocumented == \A i \in Procs : Valid(i) => waiting_time(i) = ReadyTicks(i)

=============================================================================
