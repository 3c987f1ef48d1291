-------------------------------- MODULE Main --------------------------------
(***************************************************************************)
(* cpu_scheduler/main.c and compare_results: the same workload is given to *)
(* one algorithm after the other, each leaves its metrics in results[],    *)
(* and the averages are compared at the end.  An algorithm is any          *)
(* behaviour of CpuSpec, which the seven of scheduler.c implement; round   *)
(* robin, the last one that is always run, may besides end the program     *)
(* when its queue is full, which RoundRobin shows to happen only within N  *)
(* units of the time limit.                                                *)
(*                                                                         *)
(* An average is kept as a total and a count: the code's division in       *)
(* floating point orders two of them as the exact fractions are ordered.   *)
(***************************************************************************)
EXTENDS Evaluation

CONSTANT AlwaysRun        \* how many algorithms are run whatever the user chooses: 6
ASSUME MainAssumption == AlwaysRun \in Nat \ {0}

VARIABLES use_aging, algorithm, results, stage, row, best
mainVars == <<use_aging, algorithm, results, stage, row, best>>
allVars == <<cpuVars, mainVars>>

algorithm_count == IF use_aging THEN AlwaysRun + 1 ELSE AlwaysRun
round_robin == AlwaysRun

\* what calculate_metrics leaves for compare_results
calculate_metrics ==
  LET finished == {i \in Procs : Valid(i)}
  IN  [valid_count |-> Cardinality(finished),
       waiting     |-> MapThenSumSet(waiting_time, finished),
       turnaround  |-> MapThenSumSet(turnaround_time, finished),
       response    |-> MapThenSumSet(response_time, finished)]

\* mutant: the last of the best is named
MutLessOrEqual(r, s, metric) == r[metric] * s.valid_count <= s[metric] * r.valid_count

\* avg < avg, where an average of no process is 0
Less(r, s, metric) ==
  IF r.valid_count = 0 THEN s.valid_count > 0 /\ 0 < s[metric]
  ELSE IF s.valid_count = 0 THEN r[metric] < 0
  ELSE r[metric] * s.valid_count < s[metric] * r.valid_count

Metrics == {"waiting", "turnaround", "response"}

-----------------------------------------------------------------------------
MainInit ==
  /\ CpuInit
  /\ use_aging \in BOOLEAN
  /\ algorithm = 1 /\ results = <<>>
  /\ stage = "simulate"
  /\ row = 1 /\ best = [m \in Metrics |-> 1]

\* one unit of simulate_*
Simulate ==
  /\ stage = "simulate"
  /\ IdleStep \/ \E i \in Procs : RunStep(i)
  /\ UNCHANGED mainVars

\* queue_push on a full queue: exit(1).  The process pushed is not finished, but it may
\* be pushed after the last unit, when the time is up.
Overflow ==
  /\ stage = "simulate" /\ ~all_completed
  /\ algorithm = round_robin /\ current_time + N >= MAX_TIME
  /\ stage' = "exit"
  /\ UNCHANGED <<cpuVars, use_aging, algorithm, results, row, best>>

\* mutant: copy_workload leaves blocked_until as the last algorithm left it
MutCopyKeepsBlocked ==
  /\ current_time' = 0
  /\ timeline' = [t \in 0..MAX_TIME-1 |-> Idle]
  /\ remaining_time' = [i \in Procs |-> work[i].burst]
  /\ next_io' = [i \in Procs |-> 0]
  /\ completed' = [i \in Procs |-> FALSE]
  /\ first_run_time' = [i \in Procs |-> None]
  /\ finish_time' = [i \in Procs |-> None]
  /\ UNCHANGED <<work, blocked_until>>

\* the next simulate_* starts with copy_workload and init_result
copy_workload ==
  /\ current_time' = 0
  /\ timeline' = [t \in 0..MAX_TIME-1 |-> Idle]
  /\ remaining_time' = [i \in Procs |-> work[i].burst]
  /\ next_io' = [i \in Procs |-> 0]
  /\ completed' = [i \in Procs |-> FALSE]
  /\ blocked_until' = [i \in Procs |-> None]
  /\ first_run_time' = [i \in Procs |-> None]
  /\ finish_time' = [i \in Procs |-> None]
  /\ UNCHANGED work

NextAlgorithm ==
  /\ stage = "simulate" /\ ~Simulating
  /\ results' = Append(results, calculate_metrics)
  /\ IF algorithm < algorithm_count
     THEN /\ algorithm' = algorithm + 1
          /\ copy_workload
          /\ UNCHANGED stage
     ELSE stage' = "compare" /\ UNCHANGED <<cpuVars, algorithm>>
  /\ UNCHANGED <<use_aging, row, best>>

\* one iteration of the loop of compare_results
CompareRow ==
  /\ stage = "compare" /\ row <= algorithm_count
  /\ best' = [m \in Metrics |-> IF Less(results[row], results[best[m]], m) THEN row ELSE best[m]]
  /\ row' = row + 1
  /\ UNCHANGED <<cpuVars, use_aging, algorithm, results, stage>>

Report ==
  /\ stage = "compare" /\ row > algorithm_count
  /\ stage' = "done"
  /\ UNCHANGED <<cpuVars, use_aging, algorithm, results, row, best>>

MainEnded == stage \in {"done", "exit"} /\ UNCHANGED allVars

MainNext == Simulate \/ Overflow \/ NextAlgorithm \/ CompareRow \/ Report \/ MainEnded

MainSpec == MainInit /\ [][MainNext]_allVars

-----------------------------------------------------------------------------
\* What a workload can take at most: after the last arrival, an idle unit is one in
\* which every unfinished process performs an I/O.
EnoughTime ==
  Max({work[i].arrival : i \in Procs} \union {0})
    + MapThenSumSet(LAMBDA i : work[i].burst + total_io_time(i), Procs) <= MAX_TIME

\* When there is enough time for the workload, every algorithm finishes every
\* process, so that no metric leaves one out: no algorithm looks best because
\* little finished under it (its averages would be 0), and throughput, which
\* divides process_count, counts what was done.
EnoughTimeFinishesAll ==
  EnoughTime =>
    /\ ~Simulating => all_completed
    /\ \A a \in DOMAIN results : results[a].valid_count = throughput_count

\* compare_results compares algorithms whose results exist, and among algorithms
\* that all finished every process it names one and the same as the best in waiting
\* and in turnaround time, the first with the least total: the two metrics differ by
\* the CPU and I/O times of the workload, whatever the schedules were.
BestAgree ==
  stage = "done" /\ (\A a \in DOMAIN results : results[a].valid_count = N) =>
    /\ best["waiting"] = best["turnaround"]
    /\ \A a \in DOMAIN results :
         /\ results[best["waiting"]].waiting <= results[a].waiting
         /\ a < best["waiting"] => results[best["waiting"]].waiting < results[a].waiting

=============================================================================
