----------------------------- MODULE SelectLoop -----------------------------
(* The select_* loops as they are written, one index after the other, and   *)
(* the properties of the five schedulers built on them.                     *)
EXTENDS SelectScheduler

\* mutant: among equals the last one is taken
MutBetterLast(i, so_far) ==
  IF is_available(i) /\ Key(i) <= so_far.key THEN [selected |-> i, key |-> Key(i)] ELSE so_far

\* (selected, shortest_burst or highest_priority) after index i, given them before it
Better(i, so_far) ==
  IF ~is_available(i) THEN so_far
  ELSE IF Key(i) < so_far.key THEN [selected |-> i, key |-> Key(i)]
  ELSE IF Key(i) = so_far.key /\ (so_far.selected = NoProc \/ TieBreak(i, so_far.selected))
  THEN [so_far EXCEPT !.selected = i]
  ELSE so_far

Scan[i \in 0..N] ==
  IF i = 0 THEN [selected |-> NoProc, key |-> INF] ELSE Better(i, Scan[i - 1])

-----------------------------------------------------------------------------
SelectTypeOK ==
  /\ remaining_time \in [Procs -> Nat] /\ next_io \in [Procs -> 0..MAX_IO_EVENTS]
  /\ current_process \in Procs \union {NoProc}
  /\ state \in [Procs -> {"NEW", "READY", "RUNNING", "WAITING", "TERMINATED"}]
  /\ waiting_age \in [Procs -> 0..MAX_TIME]
  /\ aging_interval \in Nat \ {0}
  /\ pc \in {"loop", "done"}

\* The left-to-right scans of select_sjf, select_srtf, select_priority and
\* select_priority_aging find the one candidate that comes before every other,
\* whatever the order of the array.
ScanFindsBest ==
  Scan[N].selected = IF Candidates = {} THEN NoProc ELSE Best

\* p[i] is at no I/O event, not even one that takes no time and gives up the CPU
GoesOn(i, t) == /\ Runnable(i, t)
                /\ \A k \in DOMAIN work[i].io : work[i].io[k].start # Ran(i, t)

\* Without preemption a process that can go on is not interrupted; preemptive
\* priority interrupts it only for a strictly better priority, never to trade
\* equals.
SwitchesAreJustified ==
  \A t \in 0..current_time-2 :
     LET i == timeline[t]  j == timeline[t+1]
     IN  BusyAt(t) /\ GoesOn(i, t + 1) /\ j # i =>
           \/ alg \in {"srtf", "aging"}
           \/ alg = "preemptive_priority" /\ work[j].priority < work[i].priority

\* With aging a process of priority p waits at most (p - 1) * aging_interval units
\* to reach the best effective priority, and then at most one uninterrupted CPU
\* segment of every other process: I/O-bound processes that keep coming back with
\* a better priority cannot starve it.
LongestRun(i) ==
  LET starts == {0} \union {work[i].io[k].start : k \in DOMAIN work[i].io}
      ends   == {work[i].burst} \union {work[i].io[k].start : k \in DOMAIN work[i].io}
  IN  Max({Min({e \in ends : e > s}) - s : s \in starts})
AgingBoundsWait ==
  alg = "aging" => \A i \in Procs :
     waiting_age[i] <= (work[i].priority - 1) * aging_interval
                         + MapThenSumSet(LongestRun, Procs \ {i})

\* The waiting ages are the units each process has been ready since it last ran:
\* those the timeline shows.
LastRan(i) == LET ran == {t \in 0..current_time-1 : timeline[t] = i}
              IN  IF ran = {} THEN -1 ELSE Max(ran)
AgesMatchTimeline ==
  alg = "aging" => \A i \in Procs :
     waiting_age[i] = Cardinality({t \in LastRan(i)+1..current_time-1 : Runnable(i, t)})

\* Among all ways to run a workload without I/O, one process per unit and no unit
\* left idle, preemptive SJF has the least total completion time, hence the least
\* average turnaround and waiting time.
LeastCompletion ==
  LET From[t \in Nat] == [left \in [Procs -> Nat] |->
        LET ready == {i \in Procs : left[i] > 0 /\ work[i].arrival <= t}
            next(i) == (IF left[i] = 1 THEN t + 1 ELSE 0) + From[t + 1][[left EXCEPT ![i] = @ - 1]]
        IN  IF \A i \in Procs : left[i] = 0 THEN 0
            ELSE IF ready = {} THEN From[t + 1][left]
            ELSE Min({next(i) : i \in ready})]
  IN  From[0][[i \in Procs |-> work[i].burst]]
SrtfIsOptimal ==
  alg = "srtf" /\ all_completed /\ (\A i \in Procs : work[i].io = <<>>) =>
    MapThenSumSet(LAMBDA i : finish_time[i], Procs) = LeastCompletion

=============================================================================
