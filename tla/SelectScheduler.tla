--------------------------- MODULE SelectScheduler ---------------------------
(***************************************************************************)
(* The schedulers that pick the next process by comparing all of them:     *)
(* simulate_sjf, simulate_preemptive_sjf, simulate_priority,               *)
(* simulate_preemptive_priority and simulate_priority_aging.  They are     *)
(* the same loop around different keys and preemption rules; alg says      *)
(* which one runs, and one step is one iteration of its while loop.        *)
(***************************************************************************)
EXTENDS Evaluation

CONSTANTS INF,           \* the initial shortest_burst and highest_priority
          Algs,          \* the simulate_* functions considered
          Intervals      \* the aging_interval arguments considered
ASSUME SelectAssumption ==
  /\ INF \in Nat \ {0} /\ Intervals \subseteq Int
  /\ Algs \subseteq {"sjf", "srtf", "priority", "preemptive_priority", "aging"}

VARIABLES alg, aging_interval,   \* fixed in Init; only aging reads the interval
          current_process, state, waiting_age, pc

selVars == <<work, current_time, timeline, remaining_time, next_io, blocked_until,
             first_run_time, finish_time, completed,
             alg, aging_interval, current_process, state, waiting_age, pc>>

NoProc == 0
DEFAULT_AGING_INTERVAL == 5

NonPreemptive    == alg \in {"sjf", "priority"}
PrefersIncumbent == alg \in {"preemptive_priority", "aging"}

\* mutant: preemptive SJF compares whole bursts
MutSegmentWhole(i) == work[i].burst

\* the CPU time p[i] needs before its next I/O, or to finish
next_cpu_segment_remaining(i) ==
  LET until_io == work[i].io[next_io[i] + 1].start - consumed_cpu_time(i)
  IN  IF next_io[i] < Len(work[i].io) /\ until_io > 0 /\ until_io < remaining_time[i]
      THEN until_io ELSE remaining_time[i]

\* mutant: waiting does not improve the priority
MutPriorityFixed(i) == work[i].priority

aged_priority(i) == Max({1, work[i].priority - waiting_age[i] \div aging_interval})

Key(i) == CASE alg \in {"sjf", "srtf"} -> next_cpu_segment_remaining(i)
            [] alg = "aging"           -> aged_priority(i)
            [] OTHER                   -> work[i].priority

\* the tie-break among equal keys; without aging every waiting_age is 0
TieBreak(i, j) ==
  \/ waiting_age[i] > waiting_age[j]
  \/ /\ waiting_age[i] = waiting_age[j]
     /\ \/ work[i].arrival < work[j].arrival
        \/ work[i].arrival = work[j].arrival /\ i < j

Before(i, j) == \/ Key(i) < Key(j)
                \/ Key(i) = Key(j) /\ TieBreak(i, j)

\* mutant: a key equal to INF is not considered
MutCandidatesStrict == {i \in Procs : is_available(i) /\ Key(i) < INF}

\* a key above INF is never below highest_priority nor equal to it
Candidates == {i \in Procs : is_available(i) /\ Key(i) <= INF}

Best == CHOOSE i \in Candidates : \A j \in Candidates \ {i} : Before(i, j)

\* mutant: equal priorities take the CPU from each other
MutSelectionTrades == IF Candidates = {} THEN NoProc ELSE Best

\* select_priority and select_priority_aging keep the process that has the CPU
\* when its key equals the best one
Selection ==
  IF Candidates = {} THEN NoProc
  ELSE IF PrefersIncumbent /\ current_process \in Candidates /\ Key(current_process) = Key(Best)
  THEN current_process ELSE Best

\* a non-preemptive scheduler does not select while the CPU is taken
Selects == ~(NonPreemptive /\ current_process # NoProc)

Chosen == IF Selects THEN Selection ELSE current_process

\* refresh_waiting_processes, the first thing every select_* does
Refreshed == [i \in Procs |-> IF Selects /\ state[i] = "WAITING" /\ ~completed[i]
                                   /\ blocked_until[i] <= current_time
                              THEN "READY" ELSE state[i]]

\* mutant: running does not reset the age
MutAgedNoReset(running) ==
  [i \in Procs |-> IF alg = "aging" /\ i # running /\ is_available(i)
                   THEN waiting_age[i] + 1 ELSE waiting_age[i]]

\* update_aging_counters for the unit just ended, in which running had the CPU
Aged(running) ==
  [i \in Procs |-> IF alg # "aging" THEN waiting_age[i]
                   ELSE IF i = running THEN 0
                   ELSE IF is_available(i) THEN waiting_age[i] + 1 ELSE waiting_age[i]]

-----------------------------------------------------------------------------
Init ==
  /\ CpuInit
  /\ alg \in Algs
  /\ IF alg = "aging"
     THEN \E n \in Intervals : aging_interval = IF n <= 0 THEN DEFAULT_AGING_INTERVAL ELSE n
     ELSE aging_interval = DEFAULT_AGING_INTERVAL
  /\ current_process = NoProc
  /\ state = [i \in Procs |-> "NEW"]
  /\ waiting_age = [i \in Procs |-> 0]
  /\ pc = "loop"

IdleUnit ==
  /\ pc = "loop" /\ Simulating /\ Chosen = NoProc
  /\ PassTime
  /\ state' = Refreshed
  /\ waiting_age' = Aged(NoProc)
  /\ current_process' = NoProc
  /\ UNCHANGED <<alg, aging_interval, pc>>

StateAfter(i) == CASE Outcome(i) = "finished" -> "TERMINATED"
                   [] Outcome(i) = "io"       -> "WAITING"
                   [] OTHER                   -> IF NonPreemptive THEN "RUNNING" ELSE "READY"

\* simulate_preemptive_sjf forgets the process after every unit
RunUnit(i) ==
  /\ pc = "loop" /\ Simulating /\ Chosen = i
  /\ Execute(i)
  /\ state' = [Refreshed EXCEPT ![i] = StateAfter(i)]
  /\ waiting_age' = Aged(i)
  /\ current_process' = IF Outcome(i) = "more" /\ alg # "srtf" THEN i ELSE NoProc
  /\ UNCHANGED <<alg, aging_interval, pc>>

Return ==
  /\ pc = "loop" /\ ~Simulating
  /\ pc' = "done"
  /\ UNCHANGED <<cpuVars, alg, aging_interval, current_process, state, waiting_age>>

Ended == pc = "done" /\ UNCHANGED selVars

Next == IdleUnit \/ (\E i \in Procs : RunUnit(i)) \/ Return \/ Ended

Spec == Init /\ [][Next]_selVars

=============================================================================
