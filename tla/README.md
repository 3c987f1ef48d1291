# 261RCOSE34101: specifications, model checking and proofs

The repository holds an operating-systems course's programs: a CPU scheduling
simulator (`cpu_scheduler/`, the only program of some size) and the exercises of
three labs on processes (`lab3_assignment_code/`), threads
(`lab4_assignment_code/`) and inter-process communication
(`lab5_assignment_code/`). It has no tests; its documentation is
`lab5_assignment_code/assignment_1_2/report.md` and the comments. This directory
models the simulator, from input to comparison, and every exercise in which processes
or threads share something: the two message buffers and the client and server of
lab5, the counter and the hand-over of lab4.

Paths below are relative to `src/`.

## 1. Inventory

| component | state it keeps | operations | what makes it correct |
|---|---|---|---|
| PCB and CPU step (`types.h`, `scheduler.c`) | `PCB p[]`, `current_time`, `timeline[]` | `copy_workload`, `is_available`, `run_one_time_unit`, `handle_after_cpu_unit`, the idle branch | only available processes run, no idle unit while one is available, finished processes are left alone |
| metrics (`evaluation.c`) | `SimulationResult`, the time fields of the PCBs | `init_result`, `calculate_metrics`, `calculate_runtime_stats`, printing | what is computed by subtraction equals what happened |
| ready queue (`queue.c`, `enqueue_ready_processes`) | `items[]`, `front`, `rear`, `in_ready[]` | push, pop, enqueue pass, overflow exit | flags match the queue, order of readiness, no stale entry, no overflow |
| FCFS | `current_process` | `simulate_fcfs` | no preemption, ends |
| round robin | `used_time`, `status`, quantum | `simulate_round_robin` | whole slices, bounded wait |
| SJF, preemptive SJF, priority, preemptive priority, aging | `current_process`, `waiting_age[]` | `select_*`, `aged_priority`, `update_aging_counters`, `simulate_*` | the scan finds the best, preemption only when justified, aging prevents starvation |
| workload input (`workload.c`) | `process_list[]` | manual and random creation, collision handling, sort | what reaches the schedulers is a workload they can handle |
| program flow (`main.c`, `compare_results`) | `results[]`, the best algorithm per metric | runs each algorithm on a copy, compares the averages | no algorithm sees another's progress, none looks best because it left something undone |
| message buffer with semaphore (lab5 `assignment_1_2`) | POSIX shared memory object, named semaphore | `init_buffer`, `init_sem`, `attach_buffer`, `s_wait`, `s_quit`, `produce`, `consume`, `destroy` | mutual exclusion, whole messages, none overwritten, nobody locked out |
| message buffer without (lab5 `assignment_1_1`) | the same without the semaphore | the same | with one producer at a time the same mailbox; otherwise no message is taken twice |
| FIFO client and server (lab5 `assignment_2`) | two named pipes and their names, which outlive the processes | open with retries, request, reply, clean-up; the script that runs and kills them | replies match requests, the kill cuts nothing off, a run ends |
| threads (lab4) | `cnt`, `cnt_task`, mutex, condition | increments, hand-over from the subordinate to main | no increment lost with the mutex, no wake-up lost, main reports |
| processes (lab3) | copies of variables after `fork` | `fork`, `wait`, `sleep`, `exit` | order of output; *not modelled* |

Interaction. `main` fills `process_list` through `workload.c`, hands it to each
`simulate_*` function in turn; each copies it, runs its loop against the shared
helpers of `scheduler.c` (FCFS and round robin through `queue.c`), and ends in
`calculate_metrics`, whose results `compare_results` reads. In `assignment_1_2`
the consumer, any number of producers and `destroy` are separate processes that
meet only in the shared memory object and the named semaphore, in `assignment_1_1` in
the former only. Server and client of `assignment_2` meet in two pipes, found by
name in the directory; `run.sh` starts the server in the background, waits for the
client and kills the server.

What is hard. In the simulator everything is sequential; what is hard is that
arrivals, I/O returns, the end of a slice, of a burst and of the simulation may
fall on the same unit, and that the same fact is kept twice (`in_ready[]` and the
queue, `state` and `completed`/`blocked_until`, waiting time and the timeline). In
lab5 it is the interleaving of processes at single memory accesses and system calls,
started in any order, killed anywhere, and finding what earlier processes left behind
(a semaphore at 0, a half-written message, the name of a pipe nobody will open);
in lab4 that of threads. The `hazards` of `PROJECT.json` list each such point with
its line and the properties that cover it.

## 2. Modules

| module | models | state, actions |
|---|---|---|
| `Types` | the input half of a PCB | `WellFormed(job)` is what `workload.c` promises and the schedulers rely on |
| `Cpu` | one simulated CPU, the process left open | one step per unit of time. `CpuSpec` is the abstract specification: never idle while a process is available, never run another |
| `Main` | `main.c`, `copy_workload`, `compare_results`: each algorithm is any behaviour of `CpuSpec`, so that the comparison is right whatever they do | extends `Evaluation`; `stage` is the place in `main` |
| `Evaluation` | `calculate_metrics` and `calculate_runtime_stats` as operators, and an account of the same quantities read off the timeline alone | extends `Cpu`, no state of its own |
| `ReadyQueue` | `queue.c` and `enqueue_ready_processes`, index by index (`cursor`), the overflow exit included | shared by the next two |
| `Fcfs`, `RoundRobin` | `simulate_fcfs`, `simulate_round_robin`; `pc` is the place in the loop | one action per block of the loop body |
| `SelectScheduler` | the other five `simulate_*` functions, told apart by `alg` | one step per loop iteration |
| `SelectLoop` | the `select_*` scans index by index, and the properties of the five | |
| `Workload` | `create_manual_workload`, `create_random_workload`, `sort_io_events` | one action per line read or drawn, per event, per comparison of the sort |
| `Mailbox` | what the message buffer is meant to be: one slot | abstract specification |
| `SemBuffer` | `assignment_1_2`, one step per system call or shared access; `Kill` ends a process anywhere, `Restart` runs the consumer again | refines `Mailbox` |
| `RawBuffer` | `assignment_1_1` in the same way, without the semaphore | refines the same `Mailbox` while one producer runs at a time |
| `Fifo` | `server.c`, `client.c` and `run.sh`, one step per system call; a pipe is an object that outlives its name | one action per system call of each side |
| `Counter`, `Handover` | `thread_03`/`thread_04` and `thread_05`/`thread_06`; a flag tells the two programs of a pair apart | one action per lock, load, store, wait, signal |
| `ThreadExercises` | the two side by side, for one run | |
| `MC*` | small sets of workloads or inputs for TLC | |
| `SumProofs` | lemmas about sums (`MapThenSumSet`), for `CpuProofs`, `SelectProofs` and `WorkloadProofs` | |
| `CpuProofs` | theorems about every `CpuSpec` and about `Main` | |
| `QueueProofs` | theorems about `Fcfs` and `RoundRobin`, and the lemmas on the steps they share | |
| `SelectProofs`, `WorkloadProofs`, `SemBufferProofs`, `FifoProofs` | theorems about the modules they extend | |
| `SharedMemoryProofs` | theorems about `RawBuffer` and about `ThreadExercises` | |

Conventions. `Fcfs`, `Main` and `ThreadExercises` name their specifications `FcfsSpec`,
`MainSpec` and `ExerciseSpec`, as a module of proofs extends them together with another
specification; the other modules say `Spec`. Process `i` is `p[i-1]`, whose `pid` is `i`; `NoProc` (0) stands for
`current_process == -1`. The enumeration of `ProcessState` appears as strings. The
workload is a variable (`work`) that `Init` chooses and nothing changes. Operators
whose name starts with `Mut` are wrong on purpose: each is the operator that
follows it with a plausible bug, and stands there to show that a property would
notice; no specification uses them.

Abstractions. `refresh_waiting_processes` runs before the push loop of
`enqueue_ready_processes`; the model does both at each index, which nothing in
between can observe, as the push loop does not read `state`. In `SelectScheduler`
an iteration is one step because the code is sequential and nothing but the end of
an iteration is observable; the scan is replaced by the best candidate, and
`ScanFindsBest` shows that the loop finds it. A `scanf` that fails is not a case of
its own: the code replaces the line by values that are a legal line. In `Workload`
a start that `rand()` hits twice is drawn again until it is free, modelled by
drawing among the free ones. In the two buffers a message is named by its producer,
each field holding the producer's id, so that a mixture of two messages is visible.
An average in `Main` is a total and a count, compared as fractions. In
`Fifo` a message is its number, and a read takes all there is in the pipe, of which
`atoi` and `printf` see the first number. `cnt++` is a load and a store, which is
what an unoptimised build (the repository gives no flags) makes of it.

## 3. What the runs show

| run | bounds | shows |
|---|---|---|
| `main` | 2 processes, bursts to 3, up to 2 I/O events of 0..2 units, 7 units of time, 1 algorithm and aging | `TimelineIsLegal`, `MetricsMatchTimeline`: for *any* scheduler of `CpuSpec` the timeline is legal and the metrics are the times it shows, response by a process's first unit, turnaround by its last and waiting by the units it was ready; `StatsMatchTimeline`: the one-pass counts of CPU time, idle time and context switches are what there is to count; `EnoughTimeFinishesAll`: no algorithm leaves a process unfinished when there is time for the workload; `BestAgree`: then the comparison names one algorithm for waiting and turnaround time, the first of the best |
| `fcfs` | 3 processes, bursts to 3, one event of 0..2 units, 7 units | ready order, no overflow, `CpuSpec` |
| `rr` | the same with events of 0..1 units, quanta 0 (which the code turns into 1) and 2 | ready order, states, bounded wait, whole slices, how far an overflow is away, `CpuSpec`, termination |
| `select` | 3 processes, all five algorithms, I/O of 0..2 units, aging intervals 0 (turned into 5), 1 and 2, 10 units, INF = 4 | the scan, preemption, ages, the starvation bound of aging, optimality of preemptive SJF against all schedules, `CpuSpec` |
| `workload` | 2 processes, 3 events, typed values inside, at and beyond every limit | well-formedness and I/O totals (`PcbsAreSound`), no needless drop, the sort |
| `sem` | 2 producers, 1 kill, started in the documented order or in any | `MutualExclusion`, `BufferIsWhole`, `MailSpec`, `LostForGood` in the documented order (`orderly`); `TokenNeverLost` and `Delivered` in any |
| `raw` | 2 producers, 2 kills, one producer at a time or together | `MailSpec` for one at a time; `TakesArePaidFor` for any |
| `fifo` | the code's own 9 requests and 50 tries, 3 runs of the script, 2 servers killed by somebody else | `RepliesMatch`, `ServedInFull`, `OneServer`, and `RunEnds`: a run ends unless the client opened a stale pipe or its server was killed too early |
| `threads` | 3 threads of 3 increments; 3 words, 2 wake-ups without a signal | `CountIsRight`, `ReportsWhenDone`, `NoLostWakeup`, `MainReports` |

Bounds. Three processes are enough for one to run while two change places in the
queue; a burst of three allows an I/O in the middle, a slice that ends in the
middle and one that ends with the burst; I/O of 0, 1 and 2 units returns at once,
with, and after the next event. An I/O of 0 units, which can be typed, gives up the CPU
all the same: a scheduler without preemption may then choose another process though the
first can go on, which `GoesOn` in `SwitchesAreJustified` says. The total CPU time of three processes exceeds 7, so
both ends of a simulation happen, all processes finished and the time limit; in `rr`
the queue (7 slots) overflows in all three places where it can. In `main` two
processes suffice, as the properties speak of each process against "the others", and
two I/O events are needed for the second to wait on the first; two algorithms are
compared, as the loop of `compare_results` compares two at a time. `select` takes three families of workloads: every small mix
of arrivals, bursts, priorities and one event; bursts of four with an event after
every unit, which make a process that keeps coming back and another that ages;
and bursts without I/O with arrivals 0..2, where the shortest remaining time decides.
`INF` is the largest key, so that a key equal to it is reached.
In `sem` one producer can write while another finds the buffer full or waits; one kill
reaches every point of every process, and the consumer can be run again
after it. The proofs cover any number of producers and kills. `raw` has a second kill,
since without a semaphore a killed process blocks nobody and a second one can follow.
In `fifo` the second run meets what the first left and the third what the second
left of that; two killed servers leave names behind in two runs in a row. In `threads`
a third thread can store between another's load and store while a second waits.

Fairness. `RoundRobin` states `WF(Next)`: it is sequential code, and the next
statement is always executed. The other simulator modules check no liveness and state
no fairness. `SemBuffer` assumes weak fairness of each process (a process that can
take a step is scheduled some time) and nothing about the order in which `sem_wait`
lets processes in; `Fifo` (the script included), `Counter` and `Handover` do the same,
and `RawBuffer` checks no liveness. Nothing is assumed of kills, of the user who runs the consumer or
`destroy` again, nor of wake-ups without a signal.

### Disagreements found

Three runs are expected to be violated; `findings` in `PROJECT.json` quotes the lines.

- `cpu_waiting`: a burst of one unit with an I/O event. The clamped start is 0, the
  event is never reached, its time is subtracted all the same: a negative waiting
  time. `MetricsMatchTimeline` shows that the subtraction is right otherwise.
- `rr_overflow`: the queue's array is not reused; a workload that needs more CPU
  time than `MAX_TIME`, with a small quantum, can end the program with exit(1). Less
  cannot, as a process is pushed at most once for each unit it needs. The theorem
  `QueueHasRoom` says that the exit comes only within `process_count` units of the
  time limit.
- `sem_print`: the consumer prints from the shared memory after leaving the critical
  section. What `Mailbox` promises still holds; the copy out of it is missing.

Others are described by the properties that hold:

- At the time limit, throughput counts unfinished processes (`evaluation.c:102`) and
  an algorithm that finished nothing has averages of 0 and compares as best
  (`evaluation.c:305`). `EnoughTimeFinishesAll` and `BestAgree` say when the
  comparison means something.
- A producer started before `init_sem` runs without the semaphore
  (`message_buffer_semaphore.c:56`): hence `orderly` in `MutualExclusion`.
  `TokenNeverLost` and `Delivered` hold all the same.
- A process killed inside the critical section locks out everybody, and running the
  consumer again does not help, as `init_sem` opens the semaphore as it is
  (`LostForGood`); destroy does.
- A client can wait for ever (`Stuck` in `Fifo`): the script kills the server when the
  client ends, often before it has removed the pipes (`server.c:104`); the next client may
  open the old `client_to_server` before the new server removes it (`server.c:26`), and
  then waits for a server that opens another pipe of the same name. The retries of
  `client.c:15` are meant for a server that comes late and do not help, as
  the open does not fail. `OneServer` shows that only this first open is exposed.
- When the king of `thread_05` or `thread_06` cannot create the subordinate, main
  waits for ever: hence the condition in `MainReports`.

## 4. What is proved

The theorems hold for every value of the constants under the named assumptions of the
modules, which TLC evaluates on its runs: any number of processes, any well-formed
workload (`CpuAssumption`, which `SchedulersGetLegalJobs` discharges), any `MAX_TIME`, quantum
and aging interval, any number of producers, kills, requests, runs, threads and words.
Two have a hypothesis of their own, named below. Each rests on an inductive
invariant, which TLC found to hold on the bounds of the runs before it was proved.

| component | theorem | property |
|---|---|---|
| any `CpuSpec` | `LegalTimeline`, `MetricsAreTrue`, `CountsAreTrue` | `TimelineIsLegal`, `MetricsMatchTimeline`, `StatsMatchTimeline` |
| program flow | `EveryRunIsLegal` | the same for each algorithm `main` runs |
| | `NothingIsLeftOut`, `WaitingAndTurnaroundAgree` | `EnoughTimeFinishesAll`, `BestAgree` |
| FCFS | `FcfsTypeCorrect`, `FcfsQueueConsistent`, `FcfsQueuedCanRun`, `NonPreemption` | types, queue against flags, no stale entry, no preemption |
| | `FcfsImplementsCpu`, `FcfsStatesMatch`, `FcfsReadyOrder` | `CpuSpec`, `StateMatchesPcb`, `QueueInReadyOrder` |
| | `QueueSuffices` | `NeverOverflows` |
| round robin | `TypeCorrect`, `QueueConsistent`, `QueuedCanRun` | as for FCFS |
| | `ImplementsCpu`, `StatesMatch`, `ReadyOrder` | `CpuSpec`, `StateMatchesPcb`, `QueueInReadyOrder` |
| | `WholeSlices`, `QueueHasRoom`, `WaitIsBounded` | `SliceIsWhole`, `PushesArePaidFor`, `BoundedWait` |
| the other five | `TypeCorrect`, `LoopsFindBest`, `NoNeedlessSwitch`, `AgesAreWaits` | types, `ScanFindsBest`, `SwitchesAreJustified`, `AgesMatchTimeline` |
| | `ImplementsCpu`, `AgingIsFair`, `ShortestFirstIsBest` | `CpuSpec`, `AgingBoundsWait`, `SrtfIsOptimal` |
| workload input | `TypeCorrect`, `SchedulersGetLegalJobs`, `SortOnlyMovesEvents` | types, `ListIsWellFormed`, `SortKeepsEvents` |
| | `IoTimeAddsUp`, `PcbsAreDelivered`, `DropsOnlyWhatCannotFit` | `IoTimeIsTotal`, `PcbsAreSound` (this and well-formedness), `NoNeedlessDrop` |
| `assignment_1_2` | `NeverLeftLocked`, `Exclusion`, `KilledHolderLocksOut`, `WholeMessages`, `ImplementsMailbox` | `TokenNeverLost`, `MutualExclusion`, `LostForGood`, `BufferIsWhole`, `MailSpec` |
| `assignment_1_1` | `TakenAtMostOnce`, `ImplementsMailbox` | `TakesArePaidFor`, `MailSpec` |
| `assignment_2` | `RequestAndReplyAlternate`, `NeverCutOff`, `TalksToItsOwnServer` | `RepliesMatch`, `ServedInFull`, `OneServer` |
| threads | `EveryIncrementOrTwo`, `NeverTooEarly`, `NeverLeftAsleep` | `CountIsRight`, `ReportsWhenDone`, `NoLostWakeup` |

*Sums* (`SumProofs`). The metrics are sums over processes, events and units of time.
`MapThenSumSet` is a `CHOOSE` of a function on the finite subsets that takes out one
element after the other. That there is such a function (`SumsExist`), and that it does not matter
which element is taken first (`TakeOut`, `SumsFacts`), is shown by least
counterexample on the number of elements, as a set of numbers that contains 0 and `n + 1`
with `n` is `Nat` (`Induction`): that is all of induction the proofs use.

*One CPU* (`CpuProofs`). What a scheduler leaves in the timeline is compared
with the PCBs it came from. `CpuInv` says that a process has used as much CPU time as
it has units in the timeline, that `next_io` counts the events those units have
reached (this is where the events must be sorted and distinct), and that `blocked_until`
is the end of the last of them. Then `is_available` is what `Runnable` reads off the
timeline, and a later unit does not change what was true of an earlier one. All
seven algorithms are proved to implement `CpuSpec`, so these theorems are about each of them.
`MetricsAreTrue` keeps the books of each process (`Accounted`): the time since its arrival is
what it was ready, what it ran, and what it has spent in the I/O it has begun. In the end the
last two are the whole burst and, if every event can be reached, the whole I/O time, and
`waiting_time` subtracts just these. Its response and turnaround times are where the
timeline shows it first and last because the two fields are written once, which `Stamped` says.
`CountsAreTrue` follows the loop of `calculate_runtime_stats` unit by unit (`StatsAre`): its
`last_pid` is the last process that had the CPU, over any number of idle units, so it counts
a switch where there is a hand-over; that the idle units it counts are those in which nobody could
run is `TimelineIsLegal`.

*Program flow* (`CpuProofs`, last part). What is proved of one `CpuSpec` behaviour holds of each
that main runs, as each starts from the workload as it was (`CpuPart`). A row of results in
which all processes finished has a turnaround total that exceeds the waiting total by the
same amount in every row, the CPU and I/O times (`RowsInv`), so the two comparisons keep the
same algorithm row by row (`BestInv`). `NothingIsLeftOut`: a process that is not finished
when the time is up was, ever since it arrived, waiting while others used their CPU time,
running, or in I/O it had begun (`Accounted` again); these add up to less than the time there was.

*FCFS and round robin* (`QueueProofs`). The inductive invariant
adds to three invariants (`ReadyTypeOK`, `QueueMatchesFlags`, `QueuedAreAvailable`) what
ties them to the place in the loop: between the head and the dispatch the time is below
the limit and someone is unfinished; the indices below `cursor` have been considered, so
each available process among them is in the queue or has the CPU; the process with
the CPU is available. The last two are what makes an idle unit legal when the queue is
empty and the run of a popped process legal without a further test.
For round robin it also says what `status` and `used_time` are in each place, from which
`WholeSlices` follows, and counts pops against units of time: every pop is followed by
at least one unit before the next one, and a queue without duplicates holds at most N
entries; hence `QueueHasRoom`.
- Order: an available process that is neither queued nor running has become ready this
  very moment (`Fresh`), so pushing it at the end keeps the queue in order; inside a slice
  this needs that the enqueue pass after each unit has looked at everybody (`Refilled`).
- `WaitIsBounded`: the entry `k` places behind the front has waited for at most the slices
  of those that are neither before it nor on the CPU, plus what the process on the CPU
  has used (`WaitInv`). The bound of the property is the case `k = 0`; it does
  not follow from itself.
- `QueueSuffices`: under FCFS a process is pushed once when it arrives and once after each
  I/O, so the pushes can be numbered by the value `next_io` had (`Numbered`) and are at most
  `N * (MAX_IO_EVENTS + 1)`. The hypothesis that this is at most `MAX_TIME` is a fact
  about `types.h`: 50 * 11 <= 1000. Round robin pushes once per slice besides, and does
  overflow.

*The comparing schedulers* (`SelectProofs`). `SelInv` adds to `CpuInv` that
the process that keeps the CPU can use it, that one which has just run and can go on is
that process (except under preemptive SJF), and `SwitchesAreJustified` itself for the
past. `LoopsFindBest` is proved by well-founded choice of a candidate that nobody comes before, `Before`
being a strict order. `ImplementsCpu` has the hypothesis `KeysFit`: no
burst or priority exceeds `INF` (987654321), beyond which the code does leave the CPU
idle. Ages are compared with the timeline (`Ages`): the unit just ended is counted as one
the process was ready in exactly when it was. `AgingIsFair` looks back to the moment a waiting
process reached priority 1 (`Passed`). The units since then are shared by the others. One of
them that had none yet runs by a greater age or because it has the CPU; one that had some is
younger than the process that waits, so it can only go on, and once it gives up the CPU,
for an I/O or to another, its turn is over. So nobody's share reaches across an I/O event, and
each is at most its longest segment (`SegmentBounds`, `SpentAtMost`).

`ShortestFirstIsBest` compares preemptive SJF with every other way to hand out the CPU units. The
least sum of completion times is a function of the time and of the CPU time left
(`IsLeast`, the function in `LeastCompletion`), over domains that are not finite; that there is
one is shown on a `Measure` of time and work left that becomes less with every unit (`LeastExists`),
and what is true of it by induction on the same measure, from the end of the runs
backwards (`Backwards`). The exchange argument is `SpreadIsBetter`: of two ways to share what
two arrived processes still need, the one with a process nearer its end is no worse, because
it can answer each unit of the other by one of its own and keep that so (`SpreadFollows`).
Hence the unit is best given to a process that needs least (`ShortestIsBest`), which is what
`select_srtf` finds, and the completion times so far plus the least for the rest stay the least for
the whole (`SrtfInv`). It needs no `KeysFit`: with a burst above `INF` the run does not complete, and
the property is about complete runs. Ties are broken by arrival and index; the proof does
not use how.

*Workload input* (`WorkloadProofs`). While a PCB is filled, its events are inside the burst
and at distinct points (`Filled`); while it is sorted, the points before `i` are in place
and `p.io[i]` is below those it has been compared with (`Sorting`), which at the end of
the loops is order throughout. `SchedulersGetLegalJobs` is the assumption about workloads
that every theorem about a scheduler uses. `Books` says that `total_io_time` is the sum of the
registered events. `DropsOnlyWhatCannotFit` is a matching argument. No request is moved past a
point that is still free, so up to a free point as many points are taken as were asked for
(`Balanced`); beyond the last free point all are taken. Any other choice of points has at most
that many places in each of the two parts (`NobodyDoesBetter`).

*Message buffers* (`SemBufferProofs`, `SharedMemoryProofs`). `NeverLeftLocked` needs no
assumption on the order of starts: each decrement of the semaphore is by a process that
then is in the critical section with the semaphore open, and leaves it only by posting or
by being killed, which `lost` records. The other theorems about `assignment_1_2` are about
`orderly` behaviours. Their invariant says that the value of the semaphore and the one
process inside add up to 1 until somebody is killed inside, and to 0 for ever after,
across every restart; that while a consumer sets up no producer is active; and
that a writer inside has written exactly the fields up to `written`, of which a kill leaves
nothing that anybody will read. Without the semaphore, takes are paid for however
producers interfere, because the flag is set by the last step of a produce only and,
once the consumer has seen it, reset by nobody else (`PaidInv`); and while producers run
one at a time the flag guards the contents as the semaphore does (`AloneInv`).

*FIFO* (`FifoProofs`). `FifoInv` follows both ends of both pipes through every place of
client and server, the pipes of earlier runs included: a dead server has closed its ends
for good, so a stale pipe cannot be opened to the end (`OtherRuns`), and the number the client
has sent last is in the first pipe, with the server, or squared in the second, and nowhere
else (`Alternation`).

*Threads* (`SharedMemoryProofs`). With the mutex `cnt` is the number of increments stored.
Without it `cnt` is at most that number, and at least 2 in the end: who has stored
before loads at least 1 from then on, so the last of all stores writes at least 2
(`TwoCount`; every thread has at least two increments). In the hand-over `cnt_task` is the
words left, except between the subordinate's decrement and its next word, where the mutex is held, and main is past its
loop only after the subordinate's last unlock (`PastTheLoop`).

Only model-checked, and why:
- liveness (`Ends`, `Delivered`, `RunEnds`, `MainReports`): TLAPS does not reason
  about `WF`.

## 5. Not modelled

- A key above `INF`: a typed priority above 987654321 is never selected; the runs keep
  the keys at or below it.
- Overflow of `int`: nothing bounds a typed I/O burst, so `blocked_until` can overflow.
- Printing, extrema and variances of the metrics, CPU utilisation: they change no state
  and decide nothing.
- Exhausted resources in the exercises of lab5 (`shm_open`, `mmap`, `mkfifo` failing),
  and `detach_buffer`, `destroy_buffer` and `destroy_sem`, which `assignment_1_2` never
  calls. A second `destroy`, or a consumer that sets up while `destroy` is half done,
  would need a second object and a second semaphore: the models have one of each.
- A killed client in `Fifo`: it ends the script as any other end of the client does.
- `thread_01` and `thread_02`, which create and join threads that share nothing.
- lab3: its processes share nothing after `fork`. The order of their output is that of
  `waitpid` where one waits, and of `sleep` where none does (`process_06.c:25`), which
  a model without a clock would have to take as given.

## 6. Plan

Done: 1. `Cpu`, `Evaluation`; 2. `ReadyQueue`, `Fcfs`, `RoundRobin` and their proofs;
3. `SelectScheduler`, `SelectLoop`; 4. `Workload`; 5. `Mailbox`, `SemBuffer` with killed
and restarted processes, and its proofs; 6. `RawBuffer`; 7. `Main`; 8. `Fifo`;
9. `Counter`, `Handover`; 10. the proofs about `RawBuffer`, `Counter`, `Handover`, `Fifo`,
the five comparing schedulers and `Workload`, and the order of the queues; 11. sums, and with
them the metrics, `Main`, the I/O totals, the dropped events and the bound of aging;
12. that preemptive SJF is optimal. Every safety property that a run checks is now also a
theorem.

Open: the liveness properties (`Ends`, `Delivered`, `RunEnds`, `MainReports`) stay with TLC, until
TLAPS reasons about fairness; overflow of `int` would need integers of a width.
