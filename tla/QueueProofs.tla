------------------------------ MODULE QueueProofs ------------------------------
(***************************************************************************)
(* The two schedulers with a ready queue, for every workload, number of    *)
(* processes, MAX_TIME and quantum.  First what the steps they share       *)
(* preserve, and the theorems about simulate_fcfs, the shorter of the two; *)
(* then the invariant behind the safety properties of simulate_round_robin *)
(* and that it, too, implements the abstract CPU.                          *)
(***************************************************************************)
EXTENDS RoundRobin, Fcfs, FiniteSetTheorems, TLAPS

\* the data that decides is_available, apart from the time
PcbOK == \A i \in Procs : completed[i] <=> remaining_time[i] = 0

\* QueueMatchesFlags and QueuedAreAvailable, which need each other: a process that
\* is popped must be available, and is_available must not change in the queue
QueueOK ==
  /\ QueueMatchesFlags
  /\ QueuedAreAvailable
  /\ \A k \in front..rear-1 : items[k] \in Procs

BaseInv == ReadyTypeOK /\ PcbOK /\ QueueOK

\* enqueue_ready_processes has dealt with the processes before upto
EnqueuedBefore(upto) ==
  \A i \in Procs : i < upto /\ is_available(i) => in_ready[i] \/ i = current_process

\* a process has the CPU and can use it
HasCpu == current_process \in Procs /\ is_available(current_process)

-----------------------------------------------------------------------------
LEMMA WorkTyped ==
  ASSUME ReadyTypeOK, NEW i \in Procs
  PROVE  /\ work[i] \in Job
         /\ work[i].arrival \in Nat /\ work[i].burst \in Nat \ {0}
         /\ work[i].io \in Seq(IoEvent) /\ Len(work[i].io) \in Nat
         /\ \A k \in 1..Len(work[i].io) : work[i].io[k].start \in Nat /\ work[i].io[k].burst \in Nat
<1>1. work[i] \in Job
  BY CpuAssumption DEF ReadyTypeOK
<1>2. work[i].io \in Seq(IoEvent) /\ work[i].arrival \in Nat /\ work[i].burst \in Nat \ {0}
  BY <1>1 DEF Job
<1>3. \A k \in 1..Len(work[i].io) : work[i].io[k] \in IoEvent
  BY <1>2
<1> QED  BY <1>1, <1>2, <1>3 DEF IoEvent

\* queue_push of a process that may be pushed
LEMMA PushKeepsQueue ==
  ASSUME BaseInv, NEW i \in Procs, is_available(i), ~in_ready[i], i # current_process \/ current_process' = NoProc,
         Push(i), UNCHANGED cpuVars, current_process' \in {current_process, NoProc}
  PROVE  /\ QueueOK' /\ items' \in [0..MAX_TIME-1 -> Procs \union {NoProc}]
         /\ rear' \in 0..MAX_TIME /\ front' \in 0..MAX_TIME
         /\ in_ready' \in [Procs -> BOOLEAN]
<1> USE CpuAssumption DEF BaseInv, ReadyTypeOK, queue_full, Push
<1>1. rear \in 0..MAX_TIME-1
  OBVIOUS
<1>2. /\ items' \in [0..MAX_TIME-1 -> Procs \union {NoProc}]
      /\ rear' \in 0..MAX_TIME /\ front' \in 0..MAX_TIME
      /\ in_ready' \in [Procs -> BOOLEAN]
  BY <1>1
<1>3. /\ \A k \in front..rear-1 : items'[k] = items[k] /\ items[k] # i
      /\ items'[rear] = i
  BY <1>1 DEF QueueOK, QueueMatchesFlags, Queued
<1>4. \A k \in front'..rear'-1 : k \in front..rear-1 \/ k = rear
  BY <1>1
<1>5. \A j \in Procs : in_ready'[j] <=> in_ready[j] \/ j = i
  OBVIOUS
<1>6. Queued' = Queued \union {i}
  <2>1. \A x : x \in Queued' <=> \E k \in front'..rear'-1 : x = items'[k]
    BY DEF Queued
  <2>2. \A x : x \in Queued <=> \E k \in front..rear-1 : x = items[k]
    BY DEF Queued
  <2>3. front..rear-1 \subseteq front'..rear'-1 /\ rear \in front'..rear'-1
    BY <1>1 DEF QueueOK, QueueMatchesFlags
  <2>4. ASSUME NEW x \in Queued'  PROVE x \in Queued \/ x = i
    <3>1. PICK k \in front'..rear'-1 : x = items'[k]
      BY <2>1
    <3>2. CASE k = rear
      BY <3>1, <3>2, <1>3
    <3>3. CASE k \in front..rear-1
      BY <3>1, <3>3, <2>2, <1>3
    <3> QED  BY <3>2, <3>3, <1>4
  <2>5. \A x : x \in Queued \/ x = i => x \in Queued'
    BY <2>1, <2>2, <2>3, <1>3
  <2> HIDE DEF BaseInv, ReadyTypeOK, queue_full, Push
  <2>6. \A x : x \in Queued' <=> x \in Queued \union {i}
    BY <2>4, <2>5, Zenon
  <2> QED  BY <2>6, Zenon
<1>7. QueueMatchesFlags'
  <2>1. front' <= rear'
    BY DEF QueueOK, QueueMatchesFlags
  <2>2. \A j \in Procs : in_ready'[j] <=> j \in Queued'
    BY <1>5, <1>6 DEF QueueOK, QueueMatchesFlags
  <2>3. \A j, k \in front'..rear'-1 : items'[j] = items'[k] => j = k
    BY <1>3, <1>4 DEF QueueOK, QueueMatchesFlags
  <2>4. current_process' # NoProc => ~in_ready'[current_process']
    BY <1>5 DEF QueueOK, QueueMatchesFlags
  <2> QED  BY <2>1, <2>2, <2>3, <2>4 DEF QueueMatchesFlags
<1>8. QueuedAreAvailable'
  BY <1>5 DEF QueueOK, QueuedAreAvailable, is_available, cpuVars
<1>9. \A k \in front'..rear'-1 : items'[k] \in Procs
  BY <1>3, <1>4 DEF QueueOK
<1> QED  BY <1>2, <1>7, <1>8, <1>9 DEF QueueOK

\* queue_pop: the process taken out is available, and no longer flagged
LEMMA PopKeepsInv ==
  ASSUME BaseInv, Pop, UNCHANGED cpuVars, UNCHANGED cursor
  PROVE  /\ BaseInv'
         /\ HasCpu'
         /\ \A i \in Procs : in_ready[i] => in_ready'[i] \/ i = current_process'
<1> DEFINE c == items[front]
<1>1. /\ front \in 0..MAX_TIME-1 /\ rear \in 0..MAX_TIME /\ front < rear
      /\ front \in front..rear-1 /\ c \in Procs
  BY CpuAssumption DEF BaseInv, ReadyTypeOK, QueueOK, QueueMatchesFlags, Pop, queue_empty
<1>2. in_ready[c] /\ is_available(c)
  BY <1>1 DEF BaseInv, QueueOK, QueueMatchesFlags, QueuedAreAvailable, Queued
<1>3. /\ items' = items /\ rear' = rear /\ front' = front + 1 /\ current_process' = c
      /\ in_ready' = [in_ready EXCEPT ![c] = FALSE] /\ state' = [state EXCEPT ![c] = "RUNNING"]
  BY DEF Pop
<1>4. ReadyTypeOK'
  BY <1>1, <1>3, CpuAssumption DEF BaseInv, ReadyTypeOK, cpuVars, States
<1>5. in_ready \in [Procs -> BOOLEAN]
  BY DEF BaseInv, ReadyTypeOK
<1>6. \A j \in Procs : in_ready'[j] <=> in_ready[j] /\ j # c
  BY <1>3, <1>5
<1>7. front'..rear'-1 \subseteq front..rear-1 /\ front \notin front'..rear'-1
  BY <1>1, <1>3
<1>8. \A j \in Procs : j \in Queued' <=> j \in Queued /\ j # c
  <2>1. \A j \in Procs : j \in Queued' <=> \E k \in front'..rear'-1 : j = items'[k]
    BY DEF Queued
  <2>2. \A j \in Procs : j \in Queued <=> \E k \in front..rear-1 : j = items[k]
    BY DEF Queued
  <2>3. \A k \in front..rear-1 : k = front \/ k \in front'..rear'-1
    BY <1>1, <1>3
  <2>4. \A k \in front'..rear'-1 : items[k] # c
    BY <1>1, <1>7 DEF BaseInv, QueueOK, QueueMatchesFlags
  <2> QED  BY <2>1, <2>2, <2>3, <2>4, <1>3, <1>7
<1>9. QueueOK'
  <2>1. QueueMatchesFlags'
    <3>1. front' <= rear'
      BY <1>1, <1>3
    <3>2. \A j \in Procs : in_ready'[j] <=> j \in Queued'
      BY <1>6, <1>8 DEF BaseInv, QueueOK, QueueMatchesFlags
    <3>3. \A j, k \in front'..rear'-1 : items'[j] = items'[k] => j = k
      BY <1>3, <1>7 DEF BaseInv, QueueOK, QueueMatchesFlags
    <3>4. ~in_ready'[current_process']
      BY <1>1, <1>3, <1>6
    <3> QED  BY <3>1, <3>2, <3>3, <3>4 DEF QueueMatchesFlags
  <2>2. QueuedAreAvailable'
    BY <1>6 DEF BaseInv, QueueOK, QueuedAreAvailable, is_available, cpuVars
  <2> QED  BY <2>1, <2>2, <1>3, <1>7 DEF BaseInv, QueueOK
<1>10. PcbOK'
  BY DEF BaseInv, PcbOK, cpuVars
<1>11. HasCpu'
  BY <1>1, <1>2, <1>3 DEF HasCpu, is_available, cpuVars
<1> QED  BY <1>3, <1>4, <1>6, <1>9, <1>10, <1>11 DEF BaseInv

\* one index of enqueue_ready_processes
LEMMA EnqueueKeepsInv ==
  ASSUME BaseInv, cursor \in Procs, NEW next, EnqueueOne(next)
  PROVE  /\ BaseInv'
         /\ EnqueuedBefore(cursor) =>
              \A i \in Procs : i <= cursor /\ is_available(i)' => in_ready'[i] \/ i = current_process'
<1>1. UNCHANGED cpuVars /\ current_process' = current_process /\ cursor' \in 1..N \union {1}
  BY CpuAssumption DEF EnqueueOne, Procs
<1>2. PcbOK'
  BY <1>1 DEF BaseInv, PcbOK, cpuVars
<1>3. state' \in [Procs -> States]
  <2>1. Refreshed(cursor) \in States /\ "READY" \in States
    BY DEF BaseInv, ReadyTypeOK, Refreshed, States
  <2>2. \/ state' = [state EXCEPT ![cursor] = "READY"]
        \/ state' = [state EXCEPT ![cursor] = Refreshed(cursor)]
    BY DEF EnqueueOne
  <2> QED  BY <2>1, <2>2 DEF BaseInv, ReadyTypeOK
<1>4. CASE Joins(cursor)
  <2>1. Push(cursor) /\ is_available(cursor) /\ ~in_ready[cursor] /\ cursor # current_process
    BY <1>4 DEF EnqueueOne, Joins
  <2>2. /\ QueueOK' /\ items' \in [0..MAX_TIME-1 -> Procs \union {NoProc}]
        /\ rear' \in 0..MAX_TIME /\ front' \in 0..MAX_TIME /\ in_ready' \in [Procs -> BOOLEAN]
    BY <2>1, <1>1, PushKeepsQueue
  <2>3. BaseInv'
    BY <2>2, <1>1, <1>2, <1>3 DEF BaseInv, ReadyTypeOK, cpuVars
  <2>4. \A i \in Procs : in_ready'[i] <=> in_ready[i] \/ i = cursor
    BY <2>1 DEF Push, BaseInv, ReadyTypeOK
  <2> QED  BY <2>3, <2>4, <1>1 DEF EnqueuedBefore, is_available, cpuVars, Procs
<1>5. CASE ~Joins(cursor)
  <2>1. UNCHANGED queueVars
    BY <1>5 DEF EnqueueOne
  <2>2. BaseInv'
    <3>1. ReadyTypeOK'
      BY <2>1, <1>1, <1>3 DEF BaseInv, ReadyTypeOK, cpuVars, queueVars
    <3>2. QueueOK'
      BY <2>1, <1>1 DEF BaseInv, QueueOK, QueueMatchesFlags, Queued, QueuedAreAvailable,
         is_available, cpuVars, queueVars
    <3> QED  BY <3>1, <3>2, <1>2 DEF BaseInv
  <2> QED  BY <2>1, <2>2, <1>1, <1>5 DEF EnqueuedBefore, Joins, is_available, cpuVars, queueVars, Procs
<1> QED  BY <1>4, <1>5

\* one unit of the process that has the CPU
LEMMA ExecuteKeepsInv ==
  ASSUME BaseInv, HasCpu, current_time < MAX_TIME, NEW c, c = current_process,
         Execute(c), state' = [state EXCEPT ![c] = StateAfter(c)],
         current_process' \in {c, NoProc}, UNCHANGED <<queueVars, cursor>>
  PROVE  BaseInv' /\ (Outcome(c) = "more" => is_available(c)')
<1>1. /\ c \in Procs /\ is_available(c) /\ ~in_ready[c] /\ ReadyTypeOK /\ PcbOK /\ QueueOK
  BY DEF BaseInv, HasCpu, QueueOK, QueueMatchesFlags, Procs, NoProc
<1>2. /\ MAX_TIME \in Nat /\ current_time \in 0..MAX_TIME-1 /\ current_time' = current_time + 1
      /\ remaining_time[c] \in Nat \ {0} /\ work' = work
  BY <1>1, CpuAssumption DEF ReadyTypeOK, is_available, Execute
<1>3. Outcome(c) = "io" => IoDue(c, consumed_cpu_time(c) + 1)
  BY DEF Outcome
<1>4. Outcome(c) = "io" => work[c].io[next_io[c] + 1].burst \in Nat
  BY <1>1, <1>3, WorkTyped DEF IoDue, ReadyTypeOK
<1>5. ReadyTypeOK'
  <2>1. timeline' \in [0..MAX_TIME-1 -> Procs \union {Idle}] /\ current_time' \in 0..MAX_TIME
    BY <1>1, <1>2 DEF ReadyTypeOK, Execute
  <2>2. remaining_time' \in [Procs -> Nat] /\ next_io' \in [Procs -> Nat] /\ completed' \in [Procs -> BOOLEAN]
    BY <1>1, <1>2 DEF ReadyTypeOK, Execute
  <2>3. blocked_until' \in [Procs -> Nat \union {None}]
    BY <1>1, <1>2, <1>4 DEF ReadyTypeOK, Execute
  <2>4. first_run_time' \in [Procs -> (0..MAX_TIME) \union {None}]
    BY <1>1, <1>2 DEF ReadyTypeOK, Execute
  <2>5. finish_time' \in [Procs -> (0..MAX_TIME) \union {None}]
    BY <1>1, <1>2 DEF ReadyTypeOK, Execute
  <2>6. state' \in [Procs -> States]
    BY <1>1 DEF ReadyTypeOK, StateAfter, States
  <2>7. current_process' \in Procs \union {NoProc} /\ work' \in Workloads /\ UNCHANGED <<queueVars, cursor>>
    BY <1>1, <1>2 DEF ReadyTypeOK
  <2> QED  BY <1>1, <2>1, <2>2, <2>3, <2>4, <2>5, <2>6, <2>7 DEF ReadyTypeOK, queueVars
<1>6. PcbOK'
  <2>1. Outcome(c) = "finished" <=> remaining_time[c] = 1
    BY DEF Outcome
  <2>2. /\ remaining_time'[c] = remaining_time[c] - 1
        /\ completed'[c] <=> (Outcome(c) = "finished")
        /\ \A i \in Procs : i # c => /\ remaining_time'[i] = remaining_time[i]
                                     /\ completed'[i] <=> completed[i]
    BY <1>1 DEF Execute, ReadyTypeOK
  <2>3. completed'[c] <=> remaining_time'[c] = 0
    BY <1>2, <2>1, <2>2
  <2> QED  BY <1>1, <2>2, <2>3 DEF PcbOK
<1>7. \A i \in Procs : i # c /\ is_available(i) => is_available(i)'
  <2> SUFFICES ASSUME NEW i \in Procs, i # c, is_available(i)  PROVE is_available(i)'
    OBVIOUS
  <2>1. /\ completed'[i] = completed[i] /\ remaining_time'[i] = remaining_time[i]
        /\ blocked_until'[i] = blocked_until[i] /\ blocked_until[i] \in Int
    BY <1>1 DEF Execute, ReadyTypeOK, None
  <2> QED  BY <2>1, <1>1, <1>2, WorkTyped DEF is_available
<1>8. QueueOK'
  <2>1. QueueMatchesFlags'
    BY <1>1, CpuAssumption DEF QueueOK, QueueMatchesFlags, Queued, queueVars, NoProc
  <2>2. QueuedAreAvailable'
    BY <1>1, <1>7 DEF QueueOK, QueuedAreAvailable, queueVars
  <2> QED  BY <1>1, <2>1, <2>2 DEF QueueOK, queueVars
<1>9. Outcome(c) = "more" => is_available(c)'
  <2> SUFFICES ASSUME Outcome(c) = "more"  PROVE is_available(c)'
    OBVIOUS
  <2>1. remaining_time[c] # 1
    BY DEF Outcome
  <2>2. /\ completed'[c] = FALSE /\ remaining_time'[c] = remaining_time[c] - 1
        /\ blocked_until'[c] = blocked_until[c] /\ blocked_until[c] \in Int
    BY <1>1 DEF Execute, ReadyTypeOK, None
  <2> QED  BY <2>1, <2>2, <1>1, <1>2, WorkTyped DEF is_available
<1> QED  BY <1>5, <1>6, <1>8, <1>9 DEF BaseInv

\* one idle unit
LEMMA PassTimeKeepsInv ==
  ASSUME BaseInv, current_time < MAX_TIME, PassTime,
         UNCHANGED <<queueVars, current_process, state, cursor>>
  PROVE  BaseInv'
<1>1. /\ MAX_TIME \in Nat /\ current_time \in 0..MAX_TIME-1 /\ current_time' = current_time + 1
      /\ timeline' = [timeline EXCEPT ![current_time] = Idle] /\ UNCHANGED <<work, pcbVars>>
  BY CpuAssumption DEF BaseInv, ReadyTypeOK, PassTime
<1>2. ReadyTypeOK'
  BY <1>1 DEF BaseInv, ReadyTypeOK, pcbVars, queueVars
<1>3. \A i \in Procs : is_available(i) => is_available(i)'
  <2> SUFFICES ASSUME NEW i \in Procs, is_available(i)  PROVE is_available(i)'
    OBVIOUS
  <2>1. blocked_until[i] \in Int /\ work[i].arrival \in Nat
    BY WorkTyped DEF BaseInv, ReadyTypeOK, None
  <2> QED  BY <1>1, <2>1 DEF is_available, pcbVars
<1>4. QueueOK'
  BY <1>3 DEF BaseInv, QueueOK, QueueMatchesFlags, Queued, QueuedAreAvailable, queueVars
<1>5. PcbOK'
  BY <1>1 DEF BaseInv, PcbOK, pcbVars
<1> QED  BY <1>2, <1>4, <1>5 DEF BaseInv

\* steps that only move pc
LEMMA StutterKeepsInv ==
  ASSUME BaseInv, UNCHANGED <<cpuVars, queueVars, current_process, state, cursor>>
  PROVE  BaseInv'
  BY DEF BaseInv, ReadyTypeOK, PcbOK, QueueOK, QueueMatchesFlags, Queued, QueuedAreAvailable,
     is_available, cpuVars, queueVars

LEMMA InitGivesInv == ReadyInit => BaseInv
<1> SUFFICES ASSUME ReadyInit  PROVE BaseInv
  OBVIOUS
<1>1. work \in Workloads /\ \A i \in Procs : work[i].burst \in Nat \ {0}
  BY CpuAssumption DEF ReadyInit, CpuInit, Job
<1>2. ReadyTypeOK
  BY <1>1, CpuAssumption DEF ReadyInit, CpuInit, ReadyTypeOK, States, None, Idle, NoProc
<1>3. PcbOK
  BY <1>1 DEF ReadyInit, CpuInit, PcbOK
<1>4. QueueOK
  BY DEF ReadyInit, QueueOK, QueueMatchesFlags, Queued, QueuedAreAvailable, NoProc
<1> QED  BY <1>2, <1>3, <1>4 DEF BaseInv

\* once every process has been looked at, an empty queue means nothing can run
LEMMA EmptyQueueMeansIdle ==
  ASSUME BaseInv, EnqueuedBefore(N + 1), queue_empty, current_process = NoProc
  PROVE  \A i \in Procs : ~is_available(i)
<1>1. Queued = {}
  BY DEF BaseInv, ReadyTypeOK, queue_empty, Queued
<1>2. \A i \in Procs : ~in_ready[i]
  BY <1>1 DEF BaseInv, QueueOK, QueueMatchesFlags
<1> QED  BY <1>2, CpuAssumption DEF EnqueuedBefore, Procs, NoProc

-----------------------------------------------------------------------------
(* p[i].state.  StateMatchesPcb is inductive next to BaseInv: a state       *)
(* changes where the PCB, the flag or the CPU changes, in the same step.    *)

LEMMA InitGivesStates == ReadyInit => StateMatchesPcb
<1> SUFFICES ASSUME ReadyInit  PROVE StateMatchesPcb
  OBVIOUS
<1>1. \A i \in Procs : work[i].burst \in Nat \ {0}
  BY CpuAssumption DEF ReadyInit, CpuInit, Job
<1> QED  BY <1>1 DEF ReadyInit, CpuInit, StateMatchesPcb

LEMMA EnqueueKeepsStates ==
  ASSUME BaseInv, StateMatchesPcb, cursor \in Procs, NEW next, EnqueueOne(next)
  PROVE  StateMatchesPcb'
<1> SUFFICES ASSUME NEW i \in Procs
             PROVE  /\ state'[i] = "RUNNING" => i = current_process'
                    /\ state'[i] = "TERMINATED" <=> completed'[i]
                    /\ completed'[i] <=> remaining_time'[i] = 0
                    /\ completed'[i] <=> finish_time'[i] # None
                    /\ state'[i] = "WAITING" => next_io'[i] > 0 /\ ~in_ready'[i]
                    /\ in_ready'[i] => state'[i] = "READY"
  BY DEF StateMatchesPcb
<1>1. /\ UNCHANGED <<completed, remaining_time, finish_time, next_io, current_process>>
      /\ state \in [Procs -> States] /\ in_ready \in [Procs -> BOOLEAN]
  BY DEF EnqueueOne, cpuVars, BaseInv, ReadyTypeOK
<1>2. CASE Joins(cursor)
  <2>1. /\ ~completed[cursor]
        /\ state' = [state EXCEPT ![cursor] = "READY"]
        /\ in_ready' = [in_ready EXCEPT ![cursor] = TRUE]
    BY <1>2 DEF EnqueueOne, Joins, is_available, Push
  <2>2. CASE i = cursor
    BY <1>1, <2>1, <2>2 DEF StateMatchesPcb
  <2>3. CASE i # cursor
    BY <1>1, <2>1, <2>3 DEF StateMatchesPcb
  <2> QED  BY <2>2, <2>3
<1>3. CASE ~Joins(cursor)
  <2>1. state' = [state EXCEPT ![cursor] = Refreshed(cursor)] /\ in_ready' = in_ready
    BY <1>3 DEF EnqueueOne, queueVars
  <2>2. state'[i] = state[i] \/ (state'[i] = "READY" /\ state[i] = "WAITING" /\ ~completed[i])
    BY <1>1, <2>1 DEF Refreshed
  <2> QED  BY <1>1, <2>1, <2>2 DEF StateMatchesPcb
<1> QED  BY <1>2, <1>3

LEMMA PopKeepsStates ==
  ASSUME BaseInv, StateMatchesPcb, Pop, UNCHANGED cpuVars, current_process = NoProc
  PROVE  StateMatchesPcb'
<1> DEFINE c == items[front]
<1>1. /\ front \in front..rear-1 /\ c \in Procs
  BY CpuAssumption DEF BaseInv, ReadyTypeOK, QueueOK, QueueMatchesFlags, Pop, queue_empty
<1>2. is_available(c) /\ in_ready[c]
  BY <1>1 DEF BaseInv, QueueOK, QueueMatchesFlags, QueuedAreAvailable, Queued
<1>3. /\ current_process' = c
      /\ in_ready' = [in_ready EXCEPT ![c] = FALSE] /\ state' = [state EXCEPT ![c] = "RUNNING"]
      /\ UNCHANGED <<completed, remaining_time, finish_time, next_io>>
      /\ state \in [Procs -> States] /\ in_ready \in [Procs -> BOOLEAN]
  BY DEF Pop, cpuVars, BaseInv, ReadyTypeOK
<1>4. \A i \in Procs : i # NoProc
  BY CpuAssumption DEF Procs, NoProc
<1> HIDE DEF c
<1> SUFFICES ASSUME NEW i \in Procs
             PROVE  /\ state'[i] = "RUNNING" => i = current_process'
                    /\ state'[i] = "TERMINATED" <=> completed'[i]
                    /\ completed'[i] <=> remaining_time'[i] = 0
                    /\ completed'[i] <=> finish_time'[i] # None
                    /\ state'[i] = "WAITING" => next_io'[i] > 0 /\ ~in_ready'[i]
                    /\ in_ready'[i] => state'[i] = "READY"
  BY DEF StateMatchesPcb
<1>5. CASE i = c
  BY <1>1, <1>2, <1>3, <1>5 DEF StateMatchesPcb, is_available
<1>6. CASE i # c
  BY <1>1, <1>3, <1>4, <1>6 DEF StateMatchesPcb
<1> QED  BY <1>5, <1>6

LEMMA ExecuteKeepsStates ==
  ASSUME BaseInv, StateMatchesPcb, HasCpu, current_time < MAX_TIME, NEW c, c = current_process,
         Execute(c), state' = [state EXCEPT ![c] = StateAfter(c)], UNCHANGED in_ready,
         current_process' = c \/ (current_process' = NoProc /\ Outcome(c) # "more")
  PROVE  StateMatchesPcb'
<1>1. /\ c \in Procs /\ is_available(c) /\ ~in_ready[c] /\ ReadyTypeOK
      /\ remaining_time[c] \in Nat \ {0} /\ finish_time[c] = None
      /\ current_time \in Nat /\ current_time + 1 # None
  <2>1. c \in Procs /\ is_available(c) /\ ReadyTypeOK /\ ~completed[c] /\ remaining_time[c] > 0
    BY DEF BaseInv, HasCpu, is_available
  <2>2. ~in_ready[c]
    BY <2>1, CpuAssumption DEF BaseInv, QueueOK, QueueMatchesFlags, Procs, NoProc
  <2>3. finish_time[c] = None
    BY <2>1 DEF StateMatchesPcb
  <2>4. remaining_time[c] \in Nat \ {0} /\ current_time \in Nat /\ current_time + 1 # None
    BY <2>1, CpuAssumption DEF ReadyTypeOK, None
  <2> QED  BY <2>1, <2>2, <2>3, <2>4
<1>2. /\ completed'[c] <=> Outcome(c) = "finished"
      /\ remaining_time'[c] = remaining_time[c] - 1
      /\ finish_time'[c] = IF Outcome(c) = "finished" THEN current_time + 1 ELSE None
      /\ next_io'[c] = IF Outcome(c) = "io" THEN next_io[c] + 1 ELSE next_io[c]
      /\ state'[c] = StateAfter(c) /\ next_io[c] \in Nat
  BY <1>1 DEF Execute, ReadyTypeOK
<1>3. ASSUME NEW i \in Procs, i # c
      PROVE  /\ completed'[i] = completed[i] /\ remaining_time'[i] = remaining_time[i]
             /\ finish_time'[i] = finish_time[i] /\ next_io'[i] = next_io[i] /\ state'[i] = state[i]
  BY <1>1, <1>3 DEF Execute, ReadyTypeOK
<1>4. Outcome(c) = "finished" <=> remaining_time[c] = 1
  BY DEF Outcome
<1> SUFFICES ASSUME NEW i \in Procs
             PROVE  /\ state'[i] = "RUNNING" => i = current_process'
                    /\ state'[i] = "TERMINATED" <=> completed'[i]
                    /\ completed'[i] <=> remaining_time'[i] = 0
                    /\ completed'[i] <=> finish_time'[i] # None
                    /\ state'[i] = "WAITING" => next_io'[i] > 0 /\ ~in_ready'[i]
                    /\ in_ready'[i] => state'[i] = "READY"
  BY DEF StateMatchesPcb
<1>5. CASE i = c
  <2>1. Outcome(c) \in {"finished", "io", "more"}
    BY DEF Outcome
  <2> QED  BY <1>1, <1>2, <1>4, <1>5, <2>1 DEF StateAfter
<1>6. CASE i # c
  BY <1>3, <1>6 DEF StateMatchesPcb
<1> QED  BY <1>5, <1>6

-----------------------------------------------------------------------------
(* The order of the queue.  A process joins in the pass that follows the    *)
(* unit in which it became ready, so ReadySince is the present time for     *)
(* each one that joins, and no later than that for those in the queue.      *)

\* the times of which ReadySince takes the last, from the values it depends on
Times(now, line, arrival, back, i) == {t + 1 : t \in {u \in 0..now-1 : line[u] = i}} \union {arrival, back}
ReadyTimes(i) == Times(current_time, timeline, work[i].arrival, blocked_until[i], i)

\* an available process that is not in the queue has become ready this very moment
Fresh ==
  \A i \in Procs : is_available(i) /\ ~in_ready[i] /\ i # current_process => ReadySince(i) = current_time

OrderInv ==
  /\ QueueInReadyOrder /\ Fresh
  /\ \A i \in Procs : in_ready[i] => ReadySince(i) \in 0..current_time

LEMMA LastOf ==
  ASSUME NEW S \in SUBSET Int, NEW m \in S, \A u \in S : u <= m
  PROVE  (CHOOSE t \in S : \A u \in S : u <= t) = m
<1> DEFINE P(t) == t \in S /\ \A u \in S : u <= t
           t == CHOOSE x : P(x)
<1>1. P(m)
  OBVIOUS
<1>2. P(t)
  BY <1>1, Zenon
<1> HIDE DEF t
<1>3. t = m
  BY <1>2
<1> QED  BY <1>3 DEF t

\* the present is the last of them when it is one of them
LEMMA LastIsNow ==
  ASSUME NEW now \in Nat, NEW line, NEW arrival \in Int, NEW back \in Int, NEW i,
         arrival <= now, back <= now, (now > 0 /\ line[now - 1] = i) \/ arrival = now \/ back = now
  PROVE  (CHOOSE t \in Times(now, line, arrival, back, i) :
            \A u \in Times(now, line, arrival, back, i) : u <= t) = now
<1>1. now \in Times(now, line, arrival, back, i)
  <2>1. CASE now > 0 /\ line[now - 1] = i
    <3>1. now - 1 \in {u \in 0..now-1 : line[u] = i} /\ now = now - 1 + 1
      BY <2>1
    <3> QED  BY <3>1 DEF Times
  <2> QED  BY <2>1 DEF Times
<1>2. Times(now, line, arrival, back, i) \subseteq Int /\ \A u \in Times(now, line, arrival, back, i) : u <= now
  BY DEF Times
<1> QED  BY <1>1, <1>2, LastOf

LEMMA ReadySinceIs == ASSUME NEW i  PROVE ReadySince(i) = CHOOSE t \in ReadyTimes(i) : \A u \in ReadyTimes(i) : u <= t
  BY DEF ReadySince, ReadyTimes, Times

\* the last unit was i's, or i arrived or came back from I/O this very moment
BecameReady(i) ==
  \/ current_time > 0 /\ timeline[current_time - 1] = i
  \/ work[i].arrival = current_time
  \/ blocked_until[i] = current_time

\* stated of the state after a step, where a process becomes ready
LEMMA ReadyNow ==
  ASSUME ReadyTypeOK', NEW i \in Procs, is_available(i)', BecameReady(i)'
  PROVE  ReadySince(i)' = current_time'
<1>1. /\ current_time' \in Nat /\ work'[i].arrival \in Nat /\ work'[i].arrival <= current_time'
      /\ blocked_until'[i] \in Int /\ blocked_until'[i] <= current_time'
  <2>1. work'[i] \in Job
    BY CpuAssumption DEF ReadyTypeOK
  <2> QED  BY <2>1, CpuAssumption DEF ReadyTypeOK, is_available, None, Job
<1>2. ReadySince(i)' = CHOOSE t \in ReadyTimes(i)' : \A u \in ReadyTimes(i)' : u <= t
  BY DEF ReadySince, ReadyTimes, Times
<1>3. ReadyTimes(i)' = Times(current_time', timeline', work'[i].arrival, blocked_until'[i], i)
  BY DEF ReadyTimes
<1> QED  BY <1>1, <1>2, <1>3, LastIsNow DEF BecameReady

\* a unit of another process, or an idle one, does not change it
LEMMA ReadySinceKept ==
  ASSUME ReadyTypeOK, current_time < MAX_TIME, NEW who, NEW i \in Procs, i # who,
         timeline' = [timeline EXCEPT ![current_time] = who], current_time' = current_time + 1,
         work' = work, blocked_until'[i] = blocked_until[i]
  PROVE  ReadySince(i)' = ReadySince(i)
<1>1. current_time \in 0..MAX_TIME-1 /\ MAX_TIME \in Nat /\ timeline \in [0..MAX_TIME-1 -> Procs \union {Idle}]
  BY CpuAssumption DEF ReadyTypeOK
<1>2. \A u \in 0..current_time'-1 : timeline'[u] = i <=> u \in 0..current_time-1 /\ timeline[u] = i
  BY <1>1
<1>3. {u \in 0..current_time'-1 : timeline'[u] = i} = {u \in 0..current_time-1 : timeline[u] = i}
  <2>1. 0..current_time-1 \subseteq 0..current_time'-1
    BY <1>1
  <2> QED  BY <1>2, <2>1, Zenon
<1>4. ReadyTimes(i)' = ReadyTimes(i)
  BY <1>3 DEF ReadyTimes, Times
<1>5. ReadySince(i)' = CHOOSE t \in ReadyTimes(i)' : \A u \in ReadyTimes(i)' : u <= t
  BY DEF ReadySince, ReadyTimes, Times
<1> QED  BY <1>4, <1>5, ReadySinceIs

LEMMA ReadySinceFrozen == ASSUME UNCHANGED cpuVars, NEW i  PROVE ReadySince(i)' = ReadySince(i)
  BY DEF ReadySince, cpuVars

LEMMA InitGivesOrder == ReadyInit => OrderInv
<1> SUFFICES ASSUME ReadyInit  PROVE OrderInv
  OBVIOUS
<1>1. /\ \A i \in Procs : ~in_ready[i] /\ blocked_until[i] = None /\ work[i].arrival \in Nat
      /\ current_time = 0 /\ front = 0 /\ rear = 0
  BY CpuAssumption DEF ReadyInit, CpuInit, Job
<1>2. QueueInReadyOrder
  BY <1>1 DEF QueueInReadyOrder
<1>3. ASSUME NEW i \in Procs, is_available(i)  PROVE ReadySince(i) = current_time
  <2>1. work[i].arrival = current_time /\ blocked_until[i] \in Int /\ blocked_until[i] <= current_time
    BY <1>1, <1>3 DEF is_available, None
  <2>2. current_time \in Nat /\ work[i].arrival \in Int /\ work[i].arrival <= current_time
    BY <1>1, <2>1
  <2>3. ReadySince(i) = CHOOSE t \in Times(current_time, timeline, work[i].arrival, blocked_until[i], i) :
          \A u \in Times(current_time, timeline, work[i].arrival, blocked_until[i], i) : u <= t
    BY ReadySinceIs DEF ReadyTimes
  <2> QED  BY <2>1, <2>2, <2>3, LastIsNow
<1> QED  BY <1>1, <1>2, <1>3 DEF OrderInv, Fresh

\* steps that leave the queue alone, and at most take the CPU from a process that became
\* ready this very moment
LEMMA StutterKeepsOrder ==
  ASSUME OrderInv, UNCHANGED <<cpuVars, queueVars>>,
         \/ current_process' = current_process
         \/ is_available(current_process) => ReadySince(current_process) = current_time
  PROVE  OrderInv'
<1>1. /\ \A x : ReadySince(x)' = ReadySince(x)
      /\ UNCHANGED <<items, front, rear, in_ready, current_time>>
      /\ \A x : is_available(x)' <=> is_available(x)
  BY ReadySinceFrozen DEF queueVars, cpuVars, is_available
<1>2. QueueInReadyOrder'
  <2> SUFFICES ASSUME NEW j \in front..rear-1, NEW k \in front..rear-1, j < k
               PROVE  ReadySince(items[j])' <= ReadySince(items[k])'
    BY <1>1 DEF QueueInReadyOrder
  <2>1. PICK x, y : x = items[j] /\ y = items[k]
    OBVIOUS
  <2>2. ReadySince(x) <= ReadySince(y)
    BY <2>1 DEF OrderInv, QueueInReadyOrder
  <2> QED  BY <1>1, <2>1, <2>2
<1>3. Fresh'
  <2> SUFFICES ASSUME NEW i \in Procs, is_available(i)', ~in_ready'[i], i # current_process'
               PROVE  ReadySince(i)' = current_time'
    BY DEF Fresh
  <2>1. is_available(i) /\ ~in_ready[i]
    BY <1>1
  <2>2. CASE i = current_process
    BY <1>1, <2>1, <2>2
  <2>3. CASE i # current_process
    BY <1>1, <2>1, <2>3 DEF OrderInv, Fresh
  <2> QED  BY <2>2, <2>3
<1> QED  BY <1>1, <1>2, <1>3 DEF OrderInv

\* queue_push of a process that became ready this very moment
LEMMA PushKeepsOrder ==
  ASSUME BaseInv, OrderInv, NEW i \in Procs, ReadySince(i) = current_time, Push(i), UNCHANGED cpuVars,
         ~in_ready[i], current_process' = current_process \/ current_process = i
  PROVE  OrderInv'
<1>1. /\ rear \in 0..MAX_TIME-1 /\ front \in 0..MAX_TIME /\ current_time \in Nat /\ front <= rear
      /\ items' = [items EXCEPT ![rear] = i] /\ rear' = rear + 1 /\ front' = front
      /\ in_ready' = [in_ready EXCEPT ![i] = TRUE]
      /\ items \in [0..MAX_TIME-1 -> Procs \union {NoProc}] /\ in_ready \in [Procs -> BOOLEAN]
  BY CpuAssumption DEF BaseInv, ReadyTypeOK, QueueOK, QueueMatchesFlags, Push, queue_full
<1>2. current_time' = current_time /\ \A x : ReadySince(x)' = ReadySince(x)
  BY ReadySinceFrozen DEF cpuVars
<1>3. ASSUME NEW k \in front..rear-1
      PROVE  items'[k] = items[k] /\ items[k] \in Procs /\ ReadySince(items[k]) \in 0..current_time
  <2>1. items'[k] = items[k] /\ items[k] \in Procs
    BY <1>1, <1>3 DEF BaseInv, QueueOK
  <2>2. in_ready[items[k]]
    BY <1>3, <2>1 DEF BaseInv, QueueOK, QueueMatchesFlags, Queued
  <2> QED  BY <2>1, <2>2 DEF OrderInv
<1>4. items'[rear] = i
  BY <1>1
<1>5. QueueInReadyOrder'
  <2> SUFFICES ASSUME NEW j \in front'..rear'-1, NEW k \in front'..rear'-1, j < k
               PROVE  ReadySince(items[j])' <= ReadySince(items[k])'
    BY DEF QueueInReadyOrder
  <2>1. PICK x, y : x = items'[j] /\ y = items'[k]
    OBVIOUS
  <2>2. j \in front..rear-1 /\ x = items[j]
    BY <1>1, <1>3, <2>1
  <2>3. CASE k = rear
    <3>1. y = i /\ ReadySince(y) = current_time /\ ReadySince(x) \in 0..current_time
      BY <1>3, <1>4, <2>1, <2>2, <2>3
    <3> QED  BY <1>2, <2>1, <3>1, <1>1
  <2>4. CASE k # rear
    <3>1. k \in front..rear-1 /\ y = items[k]
      BY <1>1, <1>3, <2>1, <2>4
    <3>2. ReadySince(x) <= ReadySince(y)
      BY <2>2, <3>1 DEF OrderInv, QueueInReadyOrder
    <3> QED  BY <1>2, <2>1, <3>2
  <2> QED  BY <2>3, <2>4
<1>6. \A x \in Procs : in_ready'[x] => in_ready[x] \/ x = i
  BY <1>1
<1>7. \A x \in Procs : in_ready'[x] => ReadySince(x)' \in 0..current_time'
  BY <1>1, <1>2, <1>6 DEF OrderInv
<1>8. Fresh'
  <2> SUFFICES ASSUME NEW x \in Procs, is_available(x)', ~in_ready'[x], x # current_process'
               PROVE  ReadySince(x)' = current_time'
    BY DEF Fresh
  <2>1. is_available(x) /\ ~in_ready[x] /\ x # i
    BY <1>1 DEF is_available, cpuVars
  <2>2. x # current_process
    BY <2>1
  <2>3. ReadySince(x) = current_time
    BY <2>1, <2>2 DEF OrderInv, Fresh
  <2> QED  BY <1>2, <2>3
<1> QED  BY <1>5, <1>7, <1>8 DEF OrderInv

LEMMA EnqueueKeepsOrder ==
  ASSUME BaseInv, OrderInv, cursor \in Procs, NEW next, EnqueueOne(next)
  PROVE  OrderInv'
<1>1. UNCHANGED cpuVars /\ current_process' = current_process
  BY DEF EnqueueOne
<1>2. CASE Joins(cursor)
  <2>1. Push(cursor) /\ is_available(cursor) /\ ~in_ready[cursor] /\ cursor # current_process
    BY <1>2 DEF EnqueueOne, Joins
  <2>2. ReadySince(cursor) = current_time
    BY <2>1 DEF OrderInv, Fresh
  <2> QED  BY <1>1, <2>1, <2>2, PushKeepsOrder
<1>3. CASE ~Joins(cursor)
  <2>1. UNCHANGED queueVars
    BY <1>3 DEF EnqueueOne
  <2> QED  BY <1>1, <2>1, StutterKeepsOrder
<1> QED  BY <1>2, <1>3

LEMMA PopKeepsOrder ==
  ASSUME BaseInv, OrderInv, Pop, UNCHANGED cpuVars, current_process = NoProc
  PROVE  OrderInv'
<1>1. /\ front \in Nat /\ rear \in Nat /\ front < rear /\ items[front] \in Procs
      /\ UNCHANGED <<items, rear, current_time>> /\ front' = front + 1 /\ current_process' = items[front]
      /\ in_ready' = [in_ready EXCEPT ![items[front]] = FALSE] /\ in_ready \in [Procs -> BOOLEAN]
  BY CpuAssumption DEF BaseInv, ReadyTypeOK, QueueOK, QueueMatchesFlags, Pop, queue_empty, cpuVars
<1>2. \A x : ReadySince(x)' = ReadySince(x)
  BY ReadySinceFrozen
<1>3. front'..rear'-1 \subseteq front..rear-1
  BY <1>1
<1>4. QueueInReadyOrder'
  <2> SUFFICES ASSUME NEW j \in front'..rear'-1, NEW k \in front'..rear'-1, j < k
               PROVE  ReadySince(items[j])' <= ReadySince(items[k])'
    BY DEF QueueInReadyOrder
  <2>1. PICK x, y : x = items[j] /\ y = items[k]
    OBVIOUS
  <2>2. ReadySince(x) <= ReadySince(y)
    BY <1>3, <2>1 DEF OrderInv, QueueInReadyOrder
  <2>3. items'[j] = x /\ items'[k] = y
    BY <1>1, <2>1
  <2> QED  BY <1>2, <2>2, <2>3
<1>5. \A x \in Procs : in_ready'[x] <=> in_ready[x] /\ x # items[front]
  BY <1>1
<1>6. \A x \in Procs : in_ready'[x] => ReadySince(x)' \in 0..current_time'
  BY <1>1, <1>2, <1>5 DEF OrderInv
<1>7. Fresh'
  <2> SUFFICES ASSUME NEW x \in Procs, is_available(x)', ~in_ready'[x], x # current_process'
               PROVE  ReadySince(x)' = current_time'
    BY DEF Fresh
  <2>1. is_available(x) /\ ~in_ready[x] /\ x # NoProc
    BY <1>1, <1>5, CpuAssumption DEF is_available, cpuVars, Procs, NoProc
  <2>2. ReadySince(x) = current_time
    BY <2>1 DEF OrderInv, Fresh
  <2> QED  BY <1>1, <1>2, <2>2
<1> QED  BY <1>4, <1>6, <1>7 DEF OrderInv

\* a unit passes, idle or run by the process that has the CPU, after everybody who is
\* available has been registered: who becomes available now was not so before
LEMMA TimeKeepsOrder ==
  ASSUME BaseInv, BaseInv', OrderInv, EnqueuedBefore(N + 1), current_time < MAX_TIME,
         NEW who, who = current_process \/ (who = Idle /\ current_process = NoProc),
         timeline' = [timeline EXCEPT ![current_time] = who], current_time' = current_time + 1,
         work' = work, UNCHANGED queueVars, current_process' \in {current_process, NoProc},
         \A i \in Procs : i # who => /\ completed'[i] = completed[i] /\ remaining_time'[i] = remaining_time[i]
                                    /\ blocked_until'[i] = blocked_until[i]
  PROVE  OrderInv'
<1>1. /\ ReadyTypeOK /\ ReadyTypeOK' /\ UNCHANGED <<items, front, rear, in_ready>>
      /\ current_time \in 0..MAX_TIME-1 /\ MAX_TIME \in Nat /\ N \in Nat /\ current_time' > 0
      /\ timeline'[current_time' - 1] = who
  <2>1. ReadyTypeOK /\ ReadyTypeOK' /\ UNCHANGED <<items, front, rear, in_ready>>
    BY DEF BaseInv, queueVars
  <2>2. current_time \in 0..MAX_TIME-1 /\ MAX_TIME \in Nat /\ N \in Nat /\ current_time' > 0 /\ current_time' - 1 = current_time
    BY <2>1, CpuAssumption DEF ReadyTypeOK
  <2>3. timeline'[current_time' - 1] = who
    BY <2>1, <2>2 DEF ReadyTypeOK
  <2> QED  BY <2>1, <2>2, <2>3
<1>2. ASSUME NEW i \in Procs, i # who  PROVE ReadySince(i)' = ReadySince(i)
  BY <1>1, <1>2, ReadySinceKept
<1>3. ASSUME NEW i \in Procs, in_ready[i]  PROVE ReadySince(i)' = ReadySince(i)
  <2>1. i # who
    <3>1. i # Idle /\ i # NoProc
      BY CpuAssumption DEF Procs, Idle, NoProc
    <3> QED  BY <1>3, <3>1 DEF BaseInv, QueueOK, QueueMatchesFlags
  <2> QED  BY <1>2, <2>1
<1>4. QueueInReadyOrder'
  <2> SUFFICES ASSUME NEW j \in front..rear-1, NEW k \in front..rear-1, j < k
               PROVE  ReadySince(items[j])' <= ReadySince(items[k])'
    BY <1>1 DEF QueueInReadyOrder
  <2>1. PICK x, y : x = items[j] /\ y = items[k]
    OBVIOUS
  <2>2. x \in Procs /\ y \in Procs /\ in_ready[x] /\ in_ready[y]
    BY <2>1 DEF BaseInv, QueueOK, QueueMatchesFlags, Queued
  <2>3. ReadySince(x) <= ReadySince(y)
    BY <2>1 DEF OrderInv, QueueInReadyOrder
  <2>4. ReadySince(x)' <= ReadySince(y)'
    BY <1>3, <2>2, <2>3
  <2>5. items'[j] = x /\ items'[k] = y
    BY <1>1, <2>1
  <2> QED  BY <2>4, <2>5
<1>5. \A i \in Procs : in_ready'[i] => ReadySince(i)' \in 0..current_time'
  BY <1>1, <1>3 DEF OrderInv
<1>6. Fresh'
  <2> SUFFICES ASSUME NEW i \in Procs, is_available(i)', ~in_ready'[i], i # current_process'
               PROVE  ReadySince(i)' = current_time'
    BY DEF Fresh
  <2>1. BecameReady(i)'
    <3>1. CASE i = who
      BY <1>1, <3>1 DEF BecameReady
    <3>2. CASE i # who
      <4>1. i # current_process
        BY <3>2, CpuAssumption DEF Procs, NoProc
      <4>2. ~is_available(i)
        BY <1>1, <4>1 DEF EnqueuedBefore, Procs
      <4>3. /\ ~completed[i] /\ remaining_time[i] > 0 /\ work[i].arrival <= current_time + 1
            /\ blocked_until[i] < 0 \/ blocked_until[i] <= current_time + 1
        BY <3>2 DEF is_available
      <4>4. work[i].arrival \in Nat /\ blocked_until[i] \in Int /\ current_time \in Nat
        <5>1. work[i].arrival \in Nat
          BY <1>1, WorkTyped
        <5>2. blocked_until[i] \in Int
          BY <1>1 DEF ReadyTypeOK, None
        <5> QED  BY <1>1, <5>1, <5>2
      <4>5. work[i].arrival = current_time + 1 \/ blocked_until[i] = current_time + 1
        BY <4>2, <4>3, <4>4 DEF is_available
      <4> QED  BY <3>2, <4>5 DEF BecameReady
    <3> QED  BY <3>1, <3>2
  <2> QED  BY <1>1, <2>1, ReadyNow
<1> QED  BY <1>4, <1>5, <1>6 DEF OrderInv

-----------------------------------------------------------------------------
(* FCFS: the invariant behind its safety properties, and that it implements *)
(* the abstract CPU.                                                        *)

\* BaseInv, and what is true at each place of the loop: enqueue_ready_processes has
\* registered every available process by the time a process is taken from the queue
FcfsInv ==
  /\ BaseInv
  /\ pc \in {"head", "enqueue", "cpu", "done", "exit"}
  /\ pc \in {"enqueue", "cpu"} => Simulating
  /\ pc \notin {"enqueue", "exit"} => cursor = 1
  /\ current_process # NoProc => HasCpu
  /\ pc = "enqueue" => EnqueuedBefore(cursor)
  /\ pc = "cpu" => EnqueuedBefore(N + 1)

LEMMA FcfsInitInv == ReadyInit => FcfsInv
<1> SUFFICES ASSUME ReadyInit  PROVE FcfsInv
  OBVIOUS
<1> QED  BY InitGivesInv DEF ReadyInit, FcfsInv

LEMMA SomeProcess == ASSUME BaseInv, Simulating  PROVE N \in Nat \ {0} /\ 1 \in Procs /\ current_time < MAX_TIME
  BY CpuAssumption DEF Simulating, all_completed, Procs, BaseInv, ReadyTypeOK

LEMMA FcfsKeepsInv == FcfsInv /\ [FcfsNext]_readyVars => FcfsInv'
<1> SUFFICES ASSUME FcfsInv, [FcfsNext]_readyVars  PROVE FcfsInv'
  OBVIOUS
<1> USE DEF FcfsInv
<1>1. CASE LoopHead
  <2>1. BaseInv'
    BY <1>1, StutterKeepsInv DEF LoopHead
  <2>2. Simulating' <=> Simulating
    BY <1>1 DEF LoopHead, Simulating, all_completed, cpuVars
  <2>3. HasCpu' <=> HasCpu
    BY <1>1 DEF LoopHead, HasCpu, is_available, cpuVars
  <2>4. EnqueuedBefore(1)'
    BY DEF EnqueuedBefore, Procs
  <2> QED  BY <1>1, <2>1, <2>2, <2>3, <2>4 DEF LoopHead
<1>2. CASE pc = "enqueue" /\ EnqueueOne("cpu")
  <2>1. cursor \in Procs
    BY <1>2, SomeProcess, CpuAssumption DEF BaseInv, ReadyTypeOK, Procs
  <2>2. /\ BaseInv'
        /\ \A i \in Procs : i <= cursor /\ is_available(i)' => in_ready'[i] \/ i = current_process'
    BY <1>2, <2>1, EnqueueKeepsInv
  <2>3. /\ UNCHANGED cpuVars /\ current_process' = current_process
        /\ IF cursor < N THEN cursor' = cursor + 1 /\ pc' = pc ELSE cursor' = 1 /\ pc' = "cpu"
    BY <1>2 DEF EnqueueOne
  <2>4. Simulating' /\ (HasCpu' <=> HasCpu)
    BY <1>2, <2>3 DEF Simulating, all_completed, HasCpu, is_available, cpuVars
  <2>5. CASE cursor < N
    BY <1>2, <2>1, <2>2, <2>3, <2>4, <2>5 DEF EnqueuedBefore, Procs
  <2>6. CASE ~(cursor < N)
    <3>1. EnqueuedBefore(N + 1)'
      BY <2>1, <2>2, <2>6, CpuAssumption DEF EnqueuedBefore, Procs
    <3> QED  BY <2>2, <2>3, <2>4, <2>6, <3>1
  <2> QED  BY <2>5, <2>6
<1>3. CASE Overflow /\ UNCHANGED <<cpuVars, current_process, state>>
  <2>1. BaseInv' /\ pc' = "exit"
    BY <1>3, StutterKeepsInv DEF Overflow
  <2>2. HasCpu' <=> HasCpu
    BY <1>3 DEF HasCpu, is_available, cpuVars
  <2> QED  BY <1>3, <2>1, <2>2
<1>4. CASE Dispatch
  <2>1. /\ BaseInv' /\ HasCpu'
        /\ \A i \in Procs : in_ready[i] => in_ready'[i] \/ i = current_process'
    BY <1>4, PopKeepsInv DEF Dispatch
  <2>2. pc' = "cpu" /\ cursor' = 1 /\ UNCHANGED cpuVars
    BY <1>4 DEF Dispatch
  <2>3. Simulating'
    BY <1>4, <2>2 DEF Dispatch, Simulating, all_completed, cpuVars
  <2>4. EnqueuedBefore(N + 1)'
    BY <1>4, <2>1, <2>2 DEF Dispatch, EnqueuedBefore, is_available, cpuVars, Procs, NoProc
  <2> QED  BY <2>1, <2>2, <2>3, <2>4
<1>5. CASE FcfsIdleUnit
  <2>1. BaseInv'
    BY <1>5, SomeProcess, PassTimeKeepsInv DEF FcfsIdleUnit
  <2> QED  BY <1>5, <2>1 DEF FcfsIdleUnit
<1>6. CASE RunUnit
  <2>1. HasCpu /\ current_time < MAX_TIME
    BY <1>6, SomeProcess DEF RunUnit
  <2>2. BaseInv' /\ (Outcome(current_process) = "more" => is_available(current_process)')
    BY <1>6, <2>1, ExecuteKeepsInv DEF RunUnit
  <2> QED  BY <1>6, <2>1, <2>2 DEF RunUnit, HasCpu
<1>7. CASE UNCHANGED readyVars
  <2>1. BaseInv'
    BY <1>7, StutterKeepsInv DEF readyVars, cpuVars, queueVars
  <2> QED  BY <1>7, <2>1 DEF readyVars, Simulating, all_completed, HasCpu, EnqueuedBefore, is_available
<1> QED  BY <1>1, <1>2, <1>3, <1>4, <1>5, <1>6, <1>7 DEF FcfsNext, FcfsEnqueue, EnqueuePass, Ended

THEOREM FcfsInvariance == FcfsSpec => []FcfsInv
<1>1. FcfsInv /\ [FcfsNext]_readyVars => FcfsInv'
  BY FcfsKeepsInv
<1> QED  BY <1>1, FcfsInitInv, PTL DEF FcfsSpec

-----------------------------------------------------------------------------
\* Every variable of FCFS stays in its range: the timeline and the queue are never
\* indexed outside their arrays' bounds, and no process runs past its burst.
THEOREM FcfsTypeCorrect == FcfsSpec => []ReadyTypeOK
<1>1. FcfsInv => ReadyTypeOK
  BY DEF FcfsInv, BaseInv
<1> QED  BY <1>1, FcfsInvariance, PTL

\* in_ready[] and the ready queue of FCFS agree, and no process is queued twice or
\* while it has the CPU.
THEOREM FcfsQueueConsistent == FcfsSpec => []QueueMatchesFlags
<1>1. FcfsInv => QueueMatchesFlags
  BY DEF FcfsInv, BaseInv, QueueOK
<1> QED  BY <1>1, FcfsInvariance, PTL

\* A process that FCFS takes from the queue can be run without asking again.
THEOREM FcfsQueuedCanRun == FcfsSpec => []QueuedAreAvailable
<1>1. FcfsInv => QueuedAreAvailable
  BY DEF FcfsInv, BaseInv, QueueOK
<1> QED  BY <1>1, FcfsInvariance, PTL

\* FCFS implements the abstract CPU: it runs only processes that have arrived, have
\* CPU time left and are in no I/O, and is idle only when there is none.
THEOREM FcfsImplementsCpu == FcfsSpec => CpuSpec
<1>1. ReadyInit => CpuInit
  BY DEF ReadyInit
<1>2. ASSUME FcfsInv, [FcfsNext]_readyVars  PROVE [CpuNext]_cpuVars
  <2> USE <1>2 DEF FcfsInv
  <2>1. CASE FcfsIdleUnit
    <3>1. IdleStep
      BY <2>1, EmptyQueueMeansIdle DEF FcfsIdleUnit, IdleStep
    <3> QED  BY <3>1 DEF CpuNext
  <2>2. CASE RunUnit
    <3>1. HasCpu /\ Simulating /\ Execute(current_process)
      BY <2>2 DEF RunUnit
    <3>2. current_process \in Procs /\ RunStep(current_process)
      BY <3>1 DEF HasCpu, RunStep
    <3> QED  BY <3>2 DEF CpuNext
  <2>3. CASE LoopHead \/ FcfsEnqueue \/ Dispatch \/ Ended \/ UNCHANGED readyVars
    BY <2>3 DEF LoopHead, FcfsEnqueue, EnqueuePass, EnqueueOne, Dispatch, Ended, readyVars, cpuVars
  <2> QED  BY <2>1, <2>2, <2>3 DEF FcfsNext
<1> QED  BY <1>1, <1>2, FcfsInvariance, PTL DEF FcfsSpec, CpuSpec

\* FCFS takes the CPU from a process only when it finishes or starts an I/O.
THEOREM NonPreemption == FcfsSpec => NeverPreempts
<1>1. ASSUME FcfsInv, [FcfsNext]_readyVars
      PROVE  [current_process # NoProc /\ current_process' # current_process
                => completed'[current_process]
                   \/ blocked_until'[current_process] >= current_time']_readyVars
  <2> USE <1>1 DEF FcfsInv
  <2>1. CASE RunUnit
    <3> SUFFICES ASSUME current_process' # current_process
                 PROVE  completed'[current_process] \/ blocked_until'[current_process] >= current_time'
      BY DEF readyVars
    <3>1. HasCpu /\ Outcome(current_process) \in {"finished", "io"} /\ Execute(current_process)
      BY <2>1 DEF RunUnit, Outcome
    <3>2. CASE Outcome(current_process) = "finished"
      BY <3>1, <3>2 DEF Execute, HasCpu, BaseInv, ReadyTypeOK
    <3>3. CASE Outcome(current_process) = "io"
      <4>1. IoDue(current_process, consumed_cpu_time(current_process) + 1)
        BY <3>3 DEF Outcome
      <4>2. work[current_process].io[next_io[current_process] + 1].burst \in Nat
        <5>1. current_process \in Procs /\ ReadyTypeOK
          BY <3>1 DEF HasCpu, BaseInv
        <5>2. next_io[current_process] + 1 \in 1..Len(work[current_process].io)
          BY <4>1, <5>1, WorkTyped DEF IoDue, ReadyTypeOK
        <5> QED  BY <5>1, <5>2, WorkTyped
      <4>3. blocked_until'[current_process]
              = current_time + 1 + work[current_process].io[next_io[current_process] + 1].burst
        BY <3>1, <3>3 DEF Execute, HasCpu, BaseInv, ReadyTypeOK
      <4>4. current_time \in Nat /\ current_time' = current_time + 1
        BY <3>1, CpuAssumption DEF Execute, BaseInv, ReadyTypeOK
      <4> QED  BY <4>2, <4>3, <4>4
    <3> QED  BY <3>1, <3>2, <3>3
  <2>2. CASE LoopHead \/ FcfsEnqueue \/ Dispatch \/ FcfsIdleUnit \/ Ended \/ UNCHANGED readyVars
    BY <2>2 DEF LoopHead, FcfsEnqueue, EnqueuePass, EnqueueOne, Dispatch, FcfsIdleUnit, Ended, readyVars
  <2> QED  BY <2>1, <2>2 DEF FcfsNext
<1> QED  BY <1>1, FcfsInvariance, PTL DEF FcfsSpec, NeverPreempts

-----------------------------------------------------------------------------
LEMMA FcfsKeepsStates == FcfsInv /\ StateMatchesPcb /\ [FcfsNext]_readyVars => StateMatchesPcb'
<1> SUFFICES ASSUME FcfsInv, StateMatchesPcb, [FcfsNext]_readyVars  PROVE StateMatchesPcb'
  OBVIOUS
<1> USE DEF FcfsInv
<1>1. CASE pc = "enqueue" /\ EnqueueOne("cpu")
  <2>1. cursor \in Procs
    BY <1>1, SomeProcess, CpuAssumption DEF BaseInv, ReadyTypeOK, Procs
  <2> QED  BY <1>1, <2>1, EnqueueKeepsStates
<1>2. CASE Dispatch
  BY <1>2, PopKeepsStates DEF Dispatch
<1>3. CASE RunUnit
  <2>1. HasCpu /\ current_time < MAX_TIME
    BY <1>3, SomeProcess DEF RunUnit
  <2> QED  BY <1>3, <2>1, ExecuteKeepsStates DEF RunUnit, queueVars
<1>4. CASE FcfsIdleUnit
  BY <1>4 DEF FcfsIdleUnit, PassTime, pcbVars, queueVars, StateMatchesPcb
<1>5. CASE LoopHead \/ (Overflow /\ UNCHANGED <<cpuVars, current_process, state>>) \/ UNCHANGED readyVars
  BY <1>5 DEF LoopHead, Overflow, readyVars, cpuVars, queueVars, StateMatchesPcb
<1> QED  BY <1>1, <1>2, <1>3, <1>4, <1>5 DEF FcfsNext, FcfsEnqueue, EnqueuePass, Ended

\* Under FCFS p[i].state agrees with the scheduling data after every step: whoever is
\* RUNNING has the CPU, whoever is WAITING is in no queue, TERMINATED means completed.
THEOREM FcfsStatesMatch == FcfsSpec => []StateMatchesPcb
<1>1. FcfsInv /\ StateMatchesPcb /\ [FcfsNext]_readyVars => StateMatchesPcb'
  BY FcfsKeepsStates
<1> QED  BY <1>1, InitGivesStates, FcfsInvariance, PTL DEF FcfsSpec

LEMMA FcfsKeepsOrder == FcfsInv /\ OrderInv /\ [FcfsNext]_readyVars => OrderInv'
<1> SUFFICES ASSUME FcfsInv, OrderInv, [FcfsNext]_readyVars  PROVE OrderInv'
  OBVIOUS
<1>0. FcfsInv'
  BY FcfsKeepsInv
<1> USE DEF FcfsInv
<1>1. CASE pc = "enqueue" /\ EnqueueOne("cpu")
  <2>1. cursor \in Procs
    BY <1>1, SomeProcess, CpuAssumption DEF BaseInv, ReadyTypeOK, Procs
  <2> QED  BY <1>1, <2>1, EnqueueKeepsOrder
<1>2. CASE Dispatch
  BY <1>2, PopKeepsOrder DEF Dispatch
<1>3. CASE RunUnit
  <2>1. HasCpu /\ current_time < MAX_TIME
    BY <1>3, SomeProcess DEF RunUnit
  <2>2. PICK c \in Procs : c = current_process
    BY <2>1 DEF HasCpu
  <2>3. /\ timeline' = [timeline EXCEPT ![current_time] = c] /\ current_time' = current_time + 1
        /\ work' = work /\ UNCHANGED queueVars /\ current_process' \in {current_process, NoProc}
    BY <1>3, <2>2 DEF RunUnit, Execute
  <2>4. \A i \in Procs : i # c => /\ completed'[i] = completed[i] /\ remaining_time'[i] = remaining_time[i]
                                 /\ blocked_until'[i] = blocked_until[i]
    BY <1>3, <2>2 DEF RunUnit, Execute, BaseInv, ReadyTypeOK
  <2> QED  BY <1>0, <1>3, <2>1, <2>2, <2>3, <2>4, TimeKeepsOrder DEF RunUnit
<1>4. CASE FcfsIdleUnit
  <2>1. /\ timeline' = [timeline EXCEPT ![current_time] = Idle] /\ current_time' = current_time + 1
        /\ UNCHANGED <<work, completed, remaining_time, blocked_until, queueVars, current_process>>
    BY <1>4 DEF FcfsIdleUnit, PassTime, pcbVars
  <2>2. EnqueuedBefore(N + 1) /\ current_time < MAX_TIME /\ current_process = NoProc
    BY <1>4, SomeProcess DEF FcfsIdleUnit
  <2> QED  BY <1>0, <2>1, <2>2, TimeKeepsOrder
<1>5. CASE LoopHead \/ (Overflow /\ UNCHANGED <<cpuVars, current_process, state>>) \/ UNCHANGED readyVars
  BY <1>5, StutterKeepsOrder DEF LoopHead, Overflow, readyVars, cpuVars, queueVars
<1> QED  BY <1>1, <1>2, <1>3, <1>4, <1>5 DEF FcfsNext, FcfsEnqueue, EnqueuePass, Ended

\* FCFS serves processes in the order in which they became ready, by arrival or by the
\* end of an I/O, whatever else happens in the same unit.
THEOREM FcfsReadyOrder == FcfsSpec => []QueueInReadyOrder
<1>1. FcfsInv /\ OrderInv /\ [FcfsNext]_readyVars => OrderInv'
  BY FcfsKeepsOrder
<1>2. OrderInv => QueueInReadyOrder
  BY DEF OrderInv
<1> QED  BY <1>1, <1>2, InitGivesOrder, FcfsInvariance, PTL DEF FcfsSpec

-----------------------------------------------------------------------------
(* The capacity of the queue.  A process is pushed at most once for each    *)
(* value of its next_io; rear counts the pushes, and items[] keeps them.    *)

\* g numbers the pushes of each process by the value next_io had; the last one counts
\* until the process has used the CPU up to its next event or to its end
Numbered(g) ==
  /\ g \in [0..rear-1 -> 0..MAX_IO_EVENTS]
  /\ \A j, k \in 0..rear-1 : items[j] = items[k] /\ g[j] = g[k] => j = k
  /\ \A k \in 0..rear-1 :
        /\ items[k] \in Procs /\ g[k] <= next_io[items[k]]
        /\ g[k] = next_io[items[k]]
              => in_ready[items[k]] \/ items[k] = current_process \/ completed[items[k]]

IoInRange == \A i \in Procs : next_io[i] <= Len(work[i].io)

PushInv == IoInRange /\ (\E g \in [0..rear-1 -> 0..MAX_IO_EVENTS] : Numbered(g))
                     /\ (N * (MAX_IO_EVENTS + 1) <= MAX_TIME => pc # "exit")

\* the pairs of a process and a number are N * (MAX_IO_EVENTS + 1)
LEMMA PairsAreBounded ==
  ASSUME NEW r \in Nat, NEW f \in [0..r-1 -> Procs \X (0..MAX_IO_EVENTS)],
         \A j, k \in 0..r-1 : f[j] = f[k] => j = k
  PROVE  r <= N * (MAX_IO_EVENTS + 1)
<1> DEFINE S == 0..r-1
           M == 0..MAX_IO_EVENTS
<1>1. N \in Nat /\ MAX_IO_EVENTS \in Nat
  BY CpuAssumption, IoAssumption
<1>2. IsFiniteSet(S) /\ Cardinality(S) = r
  <2>1. 0 \in Int /\ r - 1 \in Int
    OBVIOUS
  <2>2. IsFiniteSet(S) /\ Cardinality(S) = IF 0 > r - 1 THEN 0 ELSE (r - 1) - 0 + 1
    BY <2>1, FS_Interval
  <2> HIDE DEF S
  <2> QED  BY <2>2
<1>3. IsFiniteSet(Procs) /\ Cardinality(Procs) = N
  BY <1>1, FS_Interval DEF Procs
<1>4. IsFiniteSet(M) /\ Cardinality(M) = MAX_IO_EVENTS + 1
  BY <1>1, FS_Interval
<1> HIDE DEF S, M
<1>5. IsFiniteSet(Procs \X M) /\ Cardinality(Procs \X M) = N * (MAX_IO_EVENTS + 1)
  BY <1>3, <1>4, FS_Product
<1>6. f \in Injection(S, Procs \X M)
  BY DEF Injection, IsInjective, S, M
<1> QED  BY <1>2, <1>5, <1>6, FS_Injection

LEMMA NumberedIsBounded ==
  ASSUME BaseInv, NEW g, Numbered(g)  PROVE rear <= N * (MAX_IO_EVENTS + 1)
<1> DEFINE f == [k \in 0..rear-1 |-> <<items[k], g[k]>>]
<1>1. rear \in Nat
  BY CpuAssumption DEF BaseInv, ReadyTypeOK
<1>2. f \in [0..rear-1 -> Procs \X (0..MAX_IO_EVENTS)]
  BY DEF Numbered
<1>3. \A j, k \in 0..rear-1 : f[j] = f[k] => j = k
  BY DEF Numbered
<1> HIDE DEF f
<1> QED  BY <1>1, <1>2, <1>3, PairsAreBounded

\* a process that joins has no push with the present value of its next_io
LEMMA JoinIsNew ==
  ASSUME BaseInv, IoInRange, NEW g, Numbered(g), NEW i \in Procs, Joins(i)
  PROVE  /\ next_io[i] \in 0..MAX_IO_EVENTS
         /\ \A k \in 0..rear-1 : items[k] = i => g[k] < next_io[i]
         /\ rear + 1 <= N * (MAX_IO_EVENTS + 1)
<1>1. rear \in Nat /\ next_io[i] \in Nat /\ MAX_IO_EVENTS \in Nat
  BY CpuAssumption, IoAssumption DEF BaseInv, ReadyTypeOK
<1>2. next_io[i] \in 0..MAX_IO_EVENTS
  <2>1. work \in Workloads
    BY DEF BaseInv, ReadyTypeOK
  <2>2. Len(work[i].io) <= MAX_IO_EVENTS /\ work[i].io \in Seq(IoEvent)
    BY <2>1, CpuAssumption DEF WellFormed, Job
  <2>3. Len(work[i].io) \in Nat
    BY <2>2
  <2> QED  BY <1>1, <2>2, <2>3 DEF IoInRange
<1>3. ~in_ready[i] /\ i # current_process /\ ~completed[i]
  BY DEF Joins, is_available
<1>4. ASSUME NEW k \in 0..rear-1, items[k] = i  PROVE g[k] < next_io[i]
  BY <1>1, <1>3, <1>4 DEF Numbered
<1>5. rear + 1 <= N * (MAX_IO_EVENTS + 1)
  <2> DEFINE f == [k \in 0..rear |-> IF k = rear THEN <<i, next_io[i]>> ELSE <<items[k], g[k]>>]
  <2>1. \A k \in 0..rear : k = rear \/ k \in 0..rear-1
    BY <1>1
  <2>2. f \in [0..(rear + 1)-1 -> Procs \X (0..MAX_IO_EVENTS)]
    <3>1. (rear + 1) - 1 = rear
      BY <1>1
    <3>2. ASSUME NEW k \in 0..rear  PROVE f[k] \in Procs \X (0..MAX_IO_EVENTS)
      BY <1>2, <2>1 DEF Numbered
    <3> QED  BY <3>1, <3>2
  <2>3. ASSUME NEW j \in 0..(rear + 1)-1, NEW k \in 0..(rear + 1)-1, f[j] = f[k]  PROVE j = k
    <3>1. /\ j \in 0..rear /\ k \in 0..rear
          /\ j = rear \/ j \in 0..rear-1
          /\ k = rear \/ k \in 0..rear-1
      BY <1>1
    <3>2. \A x \in 0..rear-1 : f[x] = <<items[x], g[x]>> /\ f[x] # f[rear]
      BY <1>1, <1>4 DEF Numbered
    <3> QED  BY <2>3, <3>1, <3>2 DEF Numbered
  <2> HIDE DEF f
  <2>4. PICK r \in Nat : r = rear + 1
    BY <1>1
  <2>5. r <= N * (MAX_IO_EVENTS + 1)
    BY <2>2, <2>3, <2>4, PairsAreBounded
  <2> QED  BY <2>4, <2>5
<1> QED  BY <1>2, <1>4, <1>5

LEMMA FcfsKeepsPushes == FcfsInv /\ PushInv /\ [FcfsNext]_readyVars => PushInv'
<1> SUFFICES ASSUME FcfsInv, PushInv, [FcfsNext]_readyVars  PROVE PushInv'
  OBVIOUS
<1> USE DEF FcfsInv
<1>1. PICK g \in [0..rear-1 -> 0..MAX_IO_EVENTS] : Numbered(g)
  BY DEF PushInv
<1>2. /\ rear \in Nat /\ front \in Nat /\ N \in Nat /\ MAX_TIME \in Nat /\ MAX_IO_EVENTS \in Nat
      /\ IoInRange /\ BaseInv /\ next_io \in [Procs -> Nat] /\ in_ready \in [Procs -> BOOLEAN]
      /\ completed \in [Procs -> BOOLEAN]
  BY CpuAssumption, IoAssumption DEF BaseInv, ReadyTypeOK, PushInv
\* steps that neither push nor run anybody
<1>3. ASSUME UNCHANGED <<work, next_io, completed, items, rear>>,
             \A i \in Procs : in_ready[i] => in_ready'[i] \/ i = current_process',
             current_process \in Procs => current_process' = current_process,
             pc' = "exit" => pc = "exit"
      PROVE  PushInv'
  <2>1. IoInRange'
    BY <1>2, <1>3 DEF IoInRange
  <2>2. Numbered(g)'
    BY <1>1, <1>3 DEF Numbered
  <2> QED  BY <1>3, <2>1, <2>2 DEF PushInv, Numbered
<1>4. CASE Joins(cursor) /\ EnqueueOne("cpu") /\ pc = "enqueue"
  <2>1. cursor \in Procs
    BY <1>4, SomeProcess, CpuAssumption DEF BaseInv, ReadyTypeOK, Procs
  <2> DEFINE i == cursor
             h == [k \in 0..rear |-> IF k = rear THEN next_io[i] ELSE g[k]]
  <2>2. /\ next_io[i] \in 0..MAX_IO_EVENTS
        /\ \A k \in 0..rear-1 : items[k] = i => g[k] < next_io[i]
    BY <1>1, <1>2, <1>4, <2>1, JoinIsNew
  <2>3. /\ rear' = rear + 1 /\ rear \in 0..MAX_TIME-1
        /\ items' = [items EXCEPT ![rear] = i] /\ items \in [0..MAX_TIME-1 -> Procs \union {NoProc}]
        /\ in_ready' = [in_ready EXCEPT ![i] = TRUE]
        /\ UNCHANGED <<work, next_io, completed, current_process>> /\ pc' # "exit"
    BY <1>2, <1>4 DEF EnqueueOne, Push, queue_full, cpuVars, BaseInv, ReadyTypeOK
  <2>4. /\ \A k \in 0..rear : k = rear \/ k \in 0..rear-1
        /\ rear' - 1 = rear
        /\ \A k \in 0..rear-1 : h[k] = g[k] /\ items'[k] = items[k]
        /\ h[rear] = next_io[i] /\ items'[rear] = i
    BY <1>2, <2>3
  <2>5. h \in [0..rear'-1 -> 0..MAX_IO_EVENTS]
    BY <1>1, <2>2, <2>4 DEF Numbered
  <2> HIDE DEF h
  <2>6. PICK n \in [0..rear'-1 -> 0..MAX_IO_EVENTS] : n = h
    BY <2>5
  <2>7. \A j, k \in 0..rear'-1 : items'[j] = items'[k] /\ n[j] = n[k] => j = k
    <3> SUFFICES ASSUME NEW j \in 0..rear, NEW k \in 0..rear, items'[j] = items'[k], n[j] = n[k]
                 PROVE  j = k
      BY <2>4
    <3>1. CASE j \in 0..rear-1 /\ k \in 0..rear-1
      BY <1>1, <2>4, <2>6, <3>1 DEF Numbered
    <3>2. CASE j = rear /\ k \in 0..rear-1
      BY <1>1, <1>2, <2>2, <2>4, <2>6, <3>2 DEF Numbered
    <3>3. CASE j \in 0..rear-1 /\ k = rear
      <4>1. items[j] = i /\ g[j] = next_io[i]
        BY <2>4, <2>6, <3>3
      <4> QED  BY <1>1, <1>2, <2>2, <3>3, <4>1 DEF Numbered
    <3> QED  BY <2>4, <3>1, <3>2, <3>3
  <2>8. ASSUME NEW k \in 0..rear'-1
        PROVE  /\ items'[k] \in Procs /\ n[k] <= next_io'[items'[k]]
               /\ n[k] = next_io'[items'[k]]
                    => in_ready'[items'[k]] \/ items'[k] = current_process' \/ completed'[items'[k]]
    <3>1. CASE k = rear
      BY <1>2, <2>1, <2>3, <2>4, <2>6, <3>1
    <3>2. CASE k \in 0..rear-1
      <4>1. PICK x \in Procs : x = items[k]
        BY <1>1, <3>2 DEF Numbered
      <4>2. n[k] = g[k] /\ items'[k] = x
        BY <2>4, <2>6, <3>2, <4>1
      <4>3. in_ready[x] => in_ready'[x]
        BY <1>2, <2>3, <4>1
      <4>4. g[k] <= next_io[x] /\ (g[k] = next_io[x] => in_ready[x] \/ x = current_process \/ completed[x])
        BY <1>1, <3>2, <4>1 DEF Numbered
      <4> QED  BY <2>3, <4>1, <4>2, <4>3, <4>4
    <3> QED  BY <2>4, <3>1, <3>2
  <2>9. Numbered(n)'
    BY <2>6, <2>7, <2>8 DEF Numbered
  <2>10. IoInRange'
    BY <1>2, <2>3 DEF IoInRange
  <2> QED  BY <2>3, <2>6, <2>9, <2>10 DEF PushInv
<1>5. CASE Joins(cursor) /\ Overflow /\ pc = "enqueue" /\ UNCHANGED <<cpuVars, current_process, state>>
  <2>1. cursor \in Procs
    BY <1>5, SomeProcess, CpuAssumption DEF BaseInv, ReadyTypeOK, Procs
  <2>2. rear + 1 <= N * (MAX_IO_EVENTS + 1) /\ rear >= MAX_TIME
    BY <1>1, <1>2, <1>5, <2>1, JoinIsNew DEF Overflow, queue_full
  <2>3. ~(N * (MAX_IO_EVENTS + 1) <= MAX_TIME)
    <3>1. PICK x \in Nat : x = N * (MAX_IO_EVENTS + 1)
      BY <1>2
    <3> QED  BY <1>2, <2>2, <3>1
  <2>4. UNCHANGED <<work, next_io, completed, items, rear, in_ready, current_process>>
    BY <1>5 DEF Overflow, queueVars, cpuVars
  <2>5. IoInRange' /\ Numbered(g)'
    BY <1>1, <1>2, <2>4 DEF IoInRange, Numbered
  <2> QED  BY <2>3, <2>4, <2>5 DEF PushInv, Numbered
<1>6. CASE RunUnit
  <2>1. HasCpu /\ current_time < MAX_TIME
    BY <1>6, SomeProcess DEF RunUnit
  <2>2. PICK c \in Procs : c = current_process /\ Execute(c)
    BY <1>6, <2>1 DEF RunUnit, HasCpu
  <2>3. /\ UNCHANGED <<work, items, rear, in_ready>> /\ pc' # "exit"
        /\ current_process' = IF Outcome(c) = "more" THEN c ELSE NoProc
        /\ next_io'[c] = IF Outcome(c) = "io" THEN next_io[c] + 1 ELSE next_io[c]
        /\ completed'[c] <=> Outcome(c) = "finished"
        /\ \A i \in Procs : i # c => next_io'[i] = next_io[i] /\ completed'[i] = completed[i]
    BY <1>2, <1>6, <2>2 DEF RunUnit, Execute, queueVars
  <2>4. Outcome(c) \in {"finished", "io", "more"} /\ (Outcome(c) = "io" => next_io[c] < Len(work[c].io))
    BY DEF Outcome, IoDue
  <2>5. IoInRange'
    <3>1. Len(work[c].io) \in Nat /\ next_io[c] \in Nat
      BY <1>2, WorkTyped DEF BaseInv
    <3> QED  BY <1>2, <2>3, <2>4, <3>1 DEF IoInRange
  <2>6. Numbered(g)'
    <3> SUFFICES ASSUME NEW k \in 0..rear-1
                 PROVE  /\ g[k] <= next_io'[items[k]]
                        /\ g[k] = next_io'[items[k]]
                             => in_ready'[items[k]] \/ items[k] = current_process' \/ completed'[items[k]]
      BY <1>1, <2>3 DEF Numbered
    <3>1. PICK x \in Procs : x = items[k]
      BY <1>1 DEF Numbered
    <3>2. /\ g[k] \in Nat /\ next_io[x] \in Nat /\ g[k] <= next_io[x]
          /\ g[k] = next_io[x] => in_ready[x] \/ x = c \/ completed[x]
      BY <1>1, <1>2, <2>2, <3>1 DEF Numbered
    <3>3. CASE x = c
      BY <2>3, <2>4, <3>1, <3>2, <3>3
    <3>4. CASE x # c
      BY <2>3, <3>1, <3>2, <3>4
    <3> QED  BY <3>3, <3>4
  <2> QED  BY <2>3, <2>5, <2>6 DEF PushInv, Numbered
<1>7. CASE ~Joins(cursor) /\ EnqueueOne("cpu") /\ pc = "enqueue"
  BY <1>3, <1>7 DEF EnqueueOne, queueVars, cpuVars
<1>8. CASE Dispatch
  <2>1. \A i \in Procs : in_ready[i] => in_ready'[i] \/ i = current_process'
    BY <1>2, <1>8, PopKeepsInv DEF Dispatch
  <2> QED  BY <1>3, <1>8, <2>1, CpuAssumption DEF Dispatch, Pop, cpuVars, Procs, NoProc
<1>9. CASE FcfsIdleUnit \/ LoopHead \/ UNCHANGED readyVars
  BY <1>3, <1>9 DEF FcfsIdleUnit, PassTime, LoopHead, readyVars, cpuVars, pcbVars, queueVars
<1> QED  BY <1>4, <1>5, <1>6, <1>7, <1>8, <1>9 DEF FcfsNext, FcfsEnqueue, EnqueuePass, Ended

\* FCFS never overflows its queue, if the array has room for one push of every process
\* and one more for each of its I/O events (types.h: 50 processes, 10 events, 1000 entries).
THEOREM QueueSuffices == N * (MAX_IO_EVENTS + 1) <= MAX_TIME => (FcfsSpec => []NeverOverflows)
<1> SUFFICES ASSUME N * (MAX_IO_EVENTS + 1) <= MAX_TIME  PROVE FcfsSpec => []NeverOverflows
  OBVIOUS
<1>1. ReadyInit => PushInv
  <2> SUFFICES ASSUME ReadyInit  PROVE PushInv
    OBVIOUS
  <2>1. rear = 0 /\ pc # "exit" /\ \A i \in Procs : next_io[i] = 0 /\ Len(work[i].io) \in Nat
    BY CpuAssumption DEF ReadyInit, CpuInit, Job
  <2> DEFINE g == [k \in 0..rear-1 |-> 0]
  <2>2. g \in [0..rear-1 -> 0..MAX_IO_EVENTS] /\ Numbered(g)
    BY <2>1 DEF Numbered
  <2> HIDE DEF g
  <2>3. IoInRange
    BY <2>1 DEF IoInRange
  <2> QED  BY <2>1, <2>2, <2>3 DEF PushInv
<1>2. FcfsInv /\ PushInv /\ [FcfsNext]_readyVars => PushInv'
  BY FcfsKeepsPushes
<1>3. FcfsInv /\ PushInv => NeverOverflows
  BY NumberedIsBounded DEF PushInv, NeverOverflows, FcfsInv
<1> QED  BY <1>1, <1>2, <1>3, FcfsInvariance, PTL DEF FcfsSpec

-----------------------------------------------------------------------------
(* simulate_round_robin                                                     *)

SliceOK ==
  /\ time_quantum \in Nat \ {0} /\ used_time \in 0..time_quantum
  /\ status \in {"more", "finished", "io"}

\* in the inner loop: a process whose last unit left it runnable can go on; one that
\* finished or started an I/O is RUNNING no more
InnerLoop ==
  /\ current_process \in Procs
  /\ status = "more" => HasCpu
  /\ status # "more" => state[current_process] # "RUNNING"

Inv ==
  /\ BaseInv /\ SliceOK
  /\ pc \in {"head", "enqueue", "pick", "refill", "slice", "done", "exit"}
  /\ pc \in {"enqueue", "pick"} => Simulating
  /\ pc \in {"head", "enqueue", "pick", "done"} => current_process = NoProc
  /\ pc \in {"refill", "slice"} => InnerLoop
  /\ pc \notin {"enqueue", "refill", "exit"} => cursor = 1
  /\ pc = "enqueue" => EnqueuedBefore(cursor)
  /\ pc = "pick" => EnqueuedBefore(N + 1)

LEMMA InitInv == Init => Inv
<1> SUFFICES ASSUME Init  PROVE Inv
  OBVIOUS
<1>1. SliceOK
  BY QuantaAssumption DEF Init, SliceOK
<1> QED  BY <1>1, InitGivesInv DEF Init, ReadyInit, Inv

LEMMA CursorInRange == ASSUME BaseInv, Simulating \/ current_process \in Procs  PROVE cursor \in Procs
  BY CpuAssumption DEF Simulating, all_completed, Procs, BaseInv, ReadyTypeOK

LEMMA NextKeepsInv == Inv /\ [Next]_vars => Inv'
<1> SUFFICES ASSUME Inv, [Next]_vars  PROVE Inv'
  OBVIOUS
<1> USE DEF Inv
<1>1. CASE OuterLoop
  <2>1. BaseInv' /\ SliceOK'
    BY <1>1, StutterKeepsInv DEF OuterLoop, LoopHead, SliceOK, sliceVars
  <2>2. Simulating' <=> Simulating
    BY <1>1 DEF OuterLoop, LoopHead, Simulating, all_completed, cpuVars
  <2>3. EnqueuedBefore(1)'
    BY DEF EnqueuedBefore, Procs
  <2> QED  BY <1>1, <2>1, <2>2, <2>3 DEF OuterLoop, LoopHead
<1>2. CASE pc = "enqueue" /\ EnqueueOne("pick") /\ UNCHANGED sliceVars
  <2>1. cursor \in Procs
    BY <1>2, CursorInRange
  <2>2. /\ BaseInv' /\ SliceOK'
        /\ \A i \in Procs : i <= cursor /\ is_available(i)' => in_ready'[i] \/ i = current_process'
    BY <1>2, <2>1, EnqueueKeepsInv DEF SliceOK, sliceVars
  <2>3. /\ UNCHANGED cpuVars /\ current_process' = current_process
        /\ IF cursor < N THEN cursor' = cursor + 1 /\ pc' = pc ELSE cursor' = 1 /\ pc' = "pick"
    BY <1>2 DEF EnqueueOne
  <2>4. Simulating'
    BY <1>2, <2>3 DEF Simulating, all_completed, cpuVars
  <2>5. CASE cursor < N
    BY <1>2, <2>1, <2>2, <2>3, <2>4, <2>5 DEF EnqueuedBefore, Procs
  <2>6. CASE ~(cursor < N)
    <3>1. EnqueuedBefore(N + 1)'
      BY <2>1, <2>2, <2>6, CpuAssumption DEF EnqueuedBefore, Procs
    <3> QED  BY <1>2, <2>2, <2>3, <2>4, <2>6, <3>1
  <2> QED  BY <2>5, <2>6
<1>3. CASE pc = "refill" /\ EnqueueOne("slice") /\ UNCHANGED sliceVars
  <2>1. cursor \in Procs
    BY <1>3, CursorInRange DEF InnerLoop
  <2>2. BaseInv' /\ SliceOK'
    BY <1>3, <2>1, EnqueueKeepsInv DEF SliceOK, sliceVars
  <2>3. /\ UNCHANGED cpuVars /\ current_process' = current_process
        /\ IF cursor < N THEN cursor' = cursor + 1 /\ pc' = pc ELSE cursor' = 1 /\ pc' = "slice"
    BY <1>3 DEF EnqueueOne
  <2>4. state'[current_process] = "RUNNING" => state[current_process] = "RUNNING"
    BY <1>3, <2>1 DEF EnqueueOne, Refreshed, InnerLoop, BaseInv, ReadyTypeOK
  <2>5. InnerLoop'
    BY <1>3, <2>3, <2>4 DEF InnerLoop, HasCpu, is_available, cpuVars, sliceVars
  <2> QED  BY <1>3, <2>2, <2>3, <2>5
<1>4. CASE Overflow /\ UNCHANGED <<cpuVars, current_process, state>> /\ UNCHANGED sliceVars
  <2>1. BaseInv' /\ SliceOK' /\ pc' = "exit"
    BY <1>4, StutterKeepsInv DEF Overflow, SliceOK, sliceVars
  <2> QED  BY <2>1
<1>5. CASE IdleUnit
  <2>1. BaseInv' /\ SliceOK'
    BY <1>5, PassTimeKeepsInv DEF IdleUnit, Simulating, SliceOK, sliceVars
  <2> QED  BY <1>5, <2>1 DEF IdleUnit
<1>6. CASE Pick
  <2>1. BaseInv' /\ HasCpu'
    BY <1>6, PopKeepsInv DEF Pick
  <2>2. pc' = "slice" /\ cursor' = 1 /\ status' = "more" /\ SliceOK'
    BY <1>6 DEF Pick, SliceOK
  <2>3. InnerLoop'
    BY <2>1, <2>2 DEF InnerLoop, HasCpu
  <2> QED  BY <2>1, <2>2, <2>3
<1>7. CASE Unit
  <2>1. HasCpu /\ current_time < MAX_TIME
    BY <1>7 DEF Unit, SliceGoesOn, InnerLoop
  <2>2. BaseInv' /\ (Outcome(current_process) = "more" => is_available(current_process)')
    BY <1>7, <2>1, ExecuteKeepsInv DEF Unit
  <2>3. pc' = "refill" /\ current_process' = current_process /\ status' = Outcome(current_process) /\ SliceOK'
    BY <1>7 DEF Unit, SliceGoesOn, SliceOK, Outcome
  <2>4. Outcome(current_process) # "more" => state'[current_process] # "RUNNING"
    BY <1>7, <2>1 DEF Unit, StateAfter, Outcome, HasCpu, BaseInv, ReadyTypeOK
  <2>5. InnerLoop'
    BY <1>7, <2>1, <2>2, <2>3, <2>4 DEF InnerLoop, HasCpu
  <2> QED  BY <2>2, <2>3, <2>5
<1>8. CASE SliceEnd
  <2>1. current_process \in Procs /\ current_process' = NoProc /\ UNCHANGED cpuVars /\ SliceOK'
    BY <1>8 DEF SliceEnd, InnerLoop, SliceOK, sliceVars
  <2>2. CASE QuantumUsed /\ Push(current_process) /\ pc' = "head" /\ UNCHANGED cursor
             /\ state' = [state EXCEPT ![current_process] = "READY"]
    <3>1. is_available(current_process) /\ ~in_ready[current_process]
      BY <1>8, <2>2, CpuAssumption DEF SliceEnd, QuantumUsed, InnerLoop, HasCpu, BaseInv, QueueOK,
         QueueMatchesFlags, Procs, NoProc
    <3>2. /\ QueueOK' /\ items' \in [0..MAX_TIME-1 -> Procs \union {NoProc}]
          /\ rear' \in 0..MAX_TIME /\ front' \in 0..MAX_TIME /\ in_ready' \in [Procs -> BOOLEAN]
      BY <2>1, <2>2, <3>1, PushKeepsQueue
    <3>3. state' \in [Procs -> States]
      BY <2>2 DEF BaseInv, ReadyTypeOK, States
    <3>4. BaseInv'
      BY <2>1, <2>2, <3>2, <3>3 DEF BaseInv, ReadyTypeOK, PcbOK, cpuVars
    <3> QED  BY <1>8, <2>1, <2>2, <3>4 DEF SliceEnd
  <2>3. CASE UNCHANGED <<queueVars, cursor>> /\ state' \in [Procs -> States] /\ pc' \in {"head", "exit"}
    <3>1. ReadyTypeOK' /\ PcbOK'
      BY <2>1, <2>3 DEF BaseInv, ReadyTypeOK, PcbOK, cpuVars, queueVars
    <3>2. QueueOK'
      BY <2>1, <2>3 DEF BaseInv, QueueOK, QueueMatchesFlags, Queued, QueuedAreAvailable,
         is_available, cpuVars, queueVars
    <3> QED  BY <1>8, <2>1, <2>3, <3>1, <3>2 DEF SliceEnd, BaseInv
  <2>4. [state EXCEPT ![current_process] = "READY"] \in [Procs -> States] /\ state \in [Procs -> States]
    BY DEF BaseInv, ReadyTypeOK, States
  <2> QED  BY <1>8, <2>2, <2>3, <2>4 DEF SliceEnd, Overflow
<1>9. CASE UNCHANGED vars
  <2>1. BaseInv'
    BY <1>9, StutterKeepsInv DEF vars, readyVars, cpuVars, queueVars
  <2> QED  BY <1>9, <2>1 DEF vars, readyVars, sliceVars, SliceOK, InnerLoop, Simulating, all_completed,
     HasCpu, EnqueuedBefore, is_available
<1> QED  BY <1>1, <1>2, <1>3, <1>4, <1>5, <1>6, <1>7, <1>8, <1>9 DEF Next, Enqueue, EnqueuePass, Ended, vars, sliceVars

THEOREM Invariance == Spec => []Inv
<1>1. Inv /\ [Next]_vars => Inv'
  BY NextKeepsInv
<1> QED  BY <1>1, InitInv, PTL DEF Spec

-----------------------------------------------------------------------------
\* Every variable of Round Robin stays in its range, whatever the quantum: neither
\* the timeline nor the queue is indexed outside its array.
THEOREM TypeCorrect == Spec => []ReadyTypeOK
<1>1. Inv => ReadyTypeOK
  BY DEF Inv, BaseInv
<1> QED  BY <1>1, Invariance, PTL

\* in_ready[] and the ready queue agree through arrivals, I/O returns in the middle
\* of a slice and preemptions: no process is queued twice or while it has the CPU.
THEOREM QueueConsistent == Spec => []QueueMatchesFlags
<1>1. Inv => QueueMatchesFlags
  BY DEF Inv, BaseInv, QueueOK
<1> QED  BY <1>1, Invariance, PTL

\* A process that Round Robin takes from the queue can be run without asking again.
THEOREM QueuedCanRun == Spec => []QueuedAreAvailable
<1>1. Inv => QueuedAreAvailable
  BY DEF Inv, BaseInv, QueueOK
<1> QED  BY <1>1, Invariance, PTL

\* Round Robin implements the abstract CPU: it runs only processes that have arrived,
\* have CPU time left and are in no I/O, and is idle only when there is none.
THEOREM ImplementsCpu == Spec => CpuSpec
<1>1. Init => CpuInit
  BY DEF Init, ReadyInit
<1>2. ASSUME Inv, [Next]_vars  PROVE [CpuNext]_cpuVars
  <2> USE <1>2 DEF Inv
  <2>1. CASE IdleUnit
    <3>1. IdleStep
      BY <2>1, EmptyQueueMeansIdle DEF IdleUnit, IdleStep
    <3> QED  BY <3>1 DEF CpuNext
  <2>2. CASE Unit
    <3>1. HasCpu /\ current_time < MAX_TIME /\ Execute(current_process)
      BY <2>2 DEF Unit, SliceGoesOn, InnerLoop
    <3>2. current_process \in Procs /\ RunStep(current_process)
      BY <3>1 DEF HasCpu, RunStep, Simulating, all_completed, is_available
    <3> QED  BY <3>2 DEF CpuNext
  <2>3. CASE OuterLoop \/ Enqueue \/ Pick \/ SliceEnd \/ (Ended /\ UNCHANGED sliceVars) \/ UNCHANGED vars
    BY <2>3 DEF OuterLoop, LoopHead, Enqueue, EnqueuePass, EnqueueOne, Pick, SliceEnd, Ended,
       vars, readyVars, cpuVars
  <2> QED  BY <2>1, <2>2, <2>3 DEF Next
<1> QED  BY <1>1, <1>2, Invariance, PTL DEF Spec, CpuSpec

\* A slice of Round Robin that ends with its process still able to run has lasted the
\* whole quantum, unless the simulation's time is over.
THEOREM WholeSlices == Spec => SliceIsWhole
<1>1. ASSUME Inv, [Next]_vars
      PROVE  [(current_process # NoProc /\ current_process' = NoProc /\ ~completed[current_process]
                 /\ is_available(current_process) /\ state[current_process] = "RUNNING")
                => used_time = time_quantum \/ current_time = MAX_TIME]_vars
  <2> USE <1>1 DEF Inv
  <2> SUFFICES ASSUME current_process # NoProc, current_process' = NoProc,
                      is_available(current_process), state[current_process] = "RUNNING"
               PROVE  used_time = time_quantum \/ current_time = MAX_TIME
    OBVIOUS
  <2>1. SliceEnd
    BY DEF Next, OuterLoop, LoopHead, Enqueue, EnqueuePass, EnqueueOne, IdleUnit, Pick, Unit, Ended,
       vars, readyVars, Pop
  <2>2. status = "more" /\ ~SliceGoesOn
    BY <2>1 DEF SliceEnd, InnerLoop
  <2>3. /\ used_time \in 0..time_quantum /\ time_quantum \in Nat /\ MAX_TIME \in Nat
        /\ current_time \in 0..MAX_TIME /\ remaining_time[current_process] > 0
    BY CpuAssumption DEF SliceOK, BaseInv, ReadyTypeOK, is_available
  <2> QED  BY <2>2, <2>3 DEF SliceGoesOn
<1> QED  BY <1>1, Invariance, PTL DEF Spec, SliceIsWhole

-----------------------------------------------------------------------------
(* The capacity of the queue.  Every pop but the last is followed by a unit *)
(* of CPU time, so front keeps up with the time at most.                    *)

Paid ==
  /\ front <= current_time + (IF current_process = NoProc \/ used_time > 0 THEN 0 ELSE 1)
  /\ pc = "refill" => used_time > 0
  /\ pc = "slice" /\ used_time = 0 => current_time < MAX_TIME /\ status = "more"
  /\ pc = "exit" => current_time + N >= MAX_TIME

\* distinct processes: the queue holds at most process_count of them
LEMMA QueueIsShort == ASSUME BaseInv  PROVE rear - front <= N
<1> USE DEF BaseInv
<1>1. front \in Nat /\ rear \in Nat /\ front <= rear /\ N \in Nat
  BY CpuAssumption DEF ReadyTypeOK, QueueOK, QueueMatchesFlags
<1> DEFINE slots == front..rear-1
           f == [k \in slots |-> items[k]]
<1>2. f \in [slots -> Procs]
  BY DEF QueueOK
<1>3. \A j, k \in slots : f[j] = f[k] => j = k
  BY DEF QueueOK, QueueMatchesFlags
<1>4. IsFiniteSet(slots) /\ Cardinality(slots) = rear - front
  <2>1. front \in Int /\ rear - 1 \in Int
    BY <1>1
  <2>2. /\ IsFiniteSet(slots)
        /\ Cardinality(slots) = IF front > rear - 1 THEN 0 ELSE (rear - 1) - front + 1
    BY <2>1, FS_Interval
  <2> HIDE DEF slots
  <2> QED  BY <1>1, <2>2
<1>5. IsFiniteSet(Procs) /\ Cardinality(Procs) = N
  BY <1>1, FS_Interval DEF Procs
<1> HIDE DEF f, slots
<1>6. f \in Injection(slots, Procs)
  BY <1>2, <1>3 DEF Injection, IsInjective
<1>7. Cardinality(slots) <= Cardinality(Procs)
  BY <1>5, <1>6, FS_Injection
<1> QED  BY <1>4, <1>5, <1>7

LEMMA OverflowIsLate ==
  ASSUME BaseInv, queue_full, front <= current_time  PROVE current_time + N >= MAX_TIME
  BY QueueIsShort, CpuAssumption DEF queue_full, BaseInv, ReadyTypeOK

LEMMA NextKeepsPaid == Inv /\ Paid /\ [Next]_vars => Paid'
<1> SUFFICES ASSUME Inv, Paid, [Next]_vars  PROVE Paid'
  OBVIOUS
<1> USE DEF Inv, Paid
<1>1. /\ current_time \in Nat /\ MAX_TIME \in Nat /\ N \in Nat /\ front \in Nat
      /\ used_time \in Nat /\ time_quantum \in Nat \ {0}
  BY CpuAssumption DEF BaseInv, ReadyTypeOK, SliceOK
<1>2. CASE OuterLoop
  BY <1>2 DEF OuterLoop, LoopHead, cpuVars, queueVars, sliceVars
<1>3. CASE Enqueue
  <2>1. /\ UNCHANGED <<cpuVars, current_process, used_time, status>> /\ front' = front
        /\ pc' \in {pc, "pick", "slice", "exit"} /\ (pc' = "slice" => used_time > 0)
    BY <1>3 DEF Enqueue, EnqueuePass, EnqueueOne, Overflow, Push, queueVars, sliceVars
  <2>2. front <= current_time
    BY <1>1, <1>3 DEF Enqueue
  <2>3. pc' = "exit" => queue_full
    BY <1>3 DEF Enqueue, EnqueuePass, EnqueueOne, Overflow
  <2> QED  BY <1>1, <1>3, <2>1, <2>2, <2>3, OverflowIsLate DEF Enqueue, cpuVars
<1>4. CASE IdleUnit
  BY <1>1, <1>4 DEF IdleUnit, PassTime, queueVars, sliceVars
<1>5. CASE Pick
  <2>1. /\ front' = front + 1 /\ UNCHANGED cpuVars /\ pc' = "slice" /\ used_time' = 0
        /\ status' = "more" /\ current_process = NoProc /\ Simulating
    BY <1>5 DEF Pick, Pop
  <2>2. current_process' # NoProc
    BY <1>5, PopKeepsInv, CpuAssumption DEF Pick, HasCpu, Procs, NoProc
  <2> QED  BY <1>1, <2>1, <2>2 DEF Simulating, cpuVars
<1>6. CASE Unit
  BY <1>1, <1>6 DEF Unit, Execute, queueVars
<1>7. CASE SliceEnd
  <2>1. used_time > 0
    BY <1>1, <1>7 DEF SliceEnd, SliceGoesOn, InnerLoop, HasCpu, is_available
  <2>2. /\ UNCHANGED <<cpuVars, used_time, status>> /\ front' = front /\ pc' \in {"head", "exit"}
        /\ (pc' = "exit" => queue_full)
    BY <1>7 DEF SliceEnd, Overflow, Push, queueVars, sliceVars
  <2> QED  BY <1>1, <2>1, <2>2, OverflowIsLate DEF cpuVars
<1>8. CASE (Ended /\ UNCHANGED sliceVars) \/ UNCHANGED vars
  BY <1>8 DEF Ended, vars, readyVars, sliceVars
<1> QED  BY <1>2, <1>3, <1>4, <1>5, <1>6, <1>7, <1>8 DEF Next

\* Round Robin's queue array holds: it can fill, and end the program, only in the
\* last process_count units of the timeline, however short the quantum.
THEOREM QueueHasRoom == Spec => []PushesArePaidFor
<1>1. Init => Paid
  BY CpuAssumption DEF Init, ReadyInit, CpuInit, Paid
<1>2. Inv /\ Paid /\ [Next]_vars => Paid'
  BY NextKeepsPaid
<1>3. Inv /\ Paid => PushesArePaidFor
  <2> SUFFICES ASSUME Inv, Paid  PROVE PushesArePaidFor
    OBVIOUS
  <2>1. rear - front <= N
    BY QueueIsShort DEF Inv
  <2> QED  BY <2>1, CpuAssumption DEF Paid, PushesArePaidFor, Inv, BaseInv, ReadyTypeOK, SliceOK
<1> QED  BY <1>1, <1>2, <1>3, Invariance, PTL DEF Spec

-----------------------------------------------------------------------------
LEMMA NextKeepsStates == Inv /\ StateMatchesPcb /\ [Next]_vars => StateMatchesPcb'
<1> SUFFICES ASSUME Inv, StateMatchesPcb, [Next]_vars  PROVE StateMatchesPcb'
  OBVIOUS
<1> USE DEF Inv
<1>1. CASE \/ pc = "enqueue" /\ EnqueueOne("pick")
           \/ pc = "refill" /\ EnqueueOne("slice")
  <2>1. cursor \in Procs
    BY <1>1, CursorInRange DEF InnerLoop
  <2> QED  BY <1>1, <2>1, EnqueueKeepsStates
<1>2. CASE Pick
  BY <1>2, PopKeepsStates DEF Pick
<1>3. CASE Unit
  <2>1. HasCpu /\ current_time < MAX_TIME
    BY <1>3 DEF Unit, SliceGoesOn, InnerLoop
  <2> QED  BY <1>3, <2>1, ExecuteKeepsStates DEF Unit, queueVars
<1>4. CASE SliceEnd
  <2>1. PICK c \in Procs : c = current_process
    BY <1>4 DEF SliceEnd, InnerLoop
  <2>2. /\ UNCHANGED <<completed, remaining_time, finish_time, next_io>> /\ current_process' = NoProc
        /\ state \in [Procs -> States] /\ in_ready \in [Procs -> BOOLEAN]
    BY <1>4 DEF SliceEnd, cpuVars, BaseInv, ReadyTypeOK
  <2>3. CASE QuantumUsed
    <3>1. /\ state' = [state EXCEPT ![c] = "READY"] /\ ~completed[c]
          /\ in_ready' = in_ready \/ in_ready' = [in_ready EXCEPT ![c] = TRUE]
      BY <1>4, <2>1, <2>3 DEF SliceEnd, QuantumUsed, Push, Overflow, queueVars
    <3> SUFFICES ASSUME NEW i \in Procs
                 PROVE  /\ state'[i] = "RUNNING" => i = current_process'
                        /\ state'[i] = "TERMINATED" <=> completed'[i]
                        /\ completed'[i] <=> remaining_time'[i] = 0
                        /\ completed'[i] <=> finish_time'[i] # None
                        /\ state'[i] = "WAITING" => next_io'[i] > 0 /\ ~in_ready'[i]
                        /\ in_ready'[i] => state'[i] = "READY"
      BY DEF StateMatchesPcb
    <3>2. CASE i = c
      BY <2>2, <3>1, <3>2 DEF StateMatchesPcb
    <3>3. CASE i # c
      BY <2>1, <2>2, <3>1, <3>3 DEF StateMatchesPcb
    <3> QED  BY <3>2, <3>3
  <2>4. CASE ~QuantumUsed
    <3>1. state' = state /\ in_ready' = in_ready
      BY <1>4, <2>4 DEF SliceEnd, queueVars
    <3>2. state[c] # "RUNNING"
      BY <1>4, <2>1, <2>4 DEF SliceEnd, QuantumUsed, InnerLoop, HasCpu, is_available
    <3> QED  BY <2>1, <2>2, <3>1, <3>2 DEF StateMatchesPcb
  <2> QED  BY <2>3, <2>4
<1>5. CASE IdleUnit
  BY <1>5 DEF IdleUnit, PassTime, pcbVars, queueVars, StateMatchesPcb
<1>6. CASE OuterLoop \/ (Overflow /\ UNCHANGED <<cpuVars, current_process, state>>) \/ UNCHANGED vars
  BY <1>6 DEF OuterLoop, LoopHead, Overflow, vars, readyVars, cpuVars, queueVars, StateMatchesPcb
<1> QED  BY <1>1, <1>2, <1>3, <1>4, <1>5, <1>6 DEF Next, Enqueue, EnqueuePass, Ended, vars, sliceVars

\* Under Round Robin p[i].state agrees with the scheduling data after every step, a
\* preemption and the enqueue pass inside a slice included.
THEOREM StatesMatch == Spec => []StateMatchesPcb
<1>1. Init => StateMatchesPcb
  BY InitGivesStates DEF Init
<1>2. Inv /\ StateMatchesPcb /\ [Next]_vars => StateMatchesPcb'
  BY NextKeepsStates
<1> QED  BY <1>1, <1>2, Invariance, PTL DEF Spec

-----------------------------------------------------------------------------
(* The order of the queue.  Before a unit runs, everybody who is available  *)
(* has been registered, in the middle of a slice as well as at its start;   *)
(* after it the process that ran became ready, if it still can run, now.    *)

Refilled ==
  /\ pc = "refill" => EnqueuedBefore(cursor)
  /\ pc = "slice" => EnqueuedBefore(N + 1)
  /\ pc \in {"refill", "slice"} /\ used_time > 0
       => current_time > 0 /\ timeline[current_time - 1] = current_process

\* a slice does not end before its first unit
LEMMA SliceHasUnit == ASSUME Inv, Paid, SliceEnd  PROVE used_time > 0
  BY DEF Inv, Paid, SliceOK, SliceEnd, SliceGoesOn, InnerLoop, HasCpu, is_available

\* at the end of a slice its process, if it can still run, became ready this very moment
LEMMA SliceReady ==
  ASSUME Inv, Paid, Refilled, SliceEnd, NEW c \in Procs, c = current_process, is_available(c)
  PROVE  ReadySince(c) = current_time
<1>1. /\ current_time > 0 /\ timeline[current_time - 1] = c
      /\ current_time \in Nat /\ ReadyTypeOK
  BY SliceHasUnit, CpuAssumption DEF SliceEnd, Refilled, Inv, BaseInv, ReadyTypeOK
<1>2. /\ work[c].arrival \in Int /\ work[c].arrival <= current_time
      /\ blocked_until[c] \in Int /\ blocked_until[c] <= current_time
  <2>1. work[c].arrival \in Int /\ work[c].arrival <= current_time
    BY <1>1, WorkTyped DEF is_available
  <2>2. blocked_until[c] \in Int
    BY <1>1 DEF ReadyTypeOK, None
  <2> QED  BY <1>1, <2>1, <2>2 DEF is_available
<1>3. ReadySince(c) = CHOOSE t \in Times(current_time, timeline, work[c].arrival, blocked_until[c], c) :
        \A u \in Times(current_time, timeline, work[c].arrival, blocked_until[c], c) : u <= t
  BY ReadySinceIs DEF ReadyTimes
<1> QED  BY <1>1, <1>2, <1>3, LastIsNow

LEMMA NextKeepsRefilled == Inv /\ Refilled /\ [Next]_vars => Refilled'
<1> SUFFICES ASSUME Inv, Refilled, [Next]_vars  PROVE Refilled'
  OBVIOUS
<1> USE DEF Inv, Refilled
<1>1. CASE pc = "refill" /\ EnqueueOne("slice") /\ UNCHANGED sliceVars
  <2>1. cursor \in Procs
    BY <1>1, CursorInRange DEF InnerLoop
  <2>2. \A i \in Procs : i <= cursor /\ is_available(i)' => in_ready'[i] \/ i = current_process'
    BY <1>1, <2>1, EnqueueKeepsInv
  <2>3. /\ UNCHANGED <<current_time, timeline, used_time>> /\ current_process' = current_process
        /\ IF cursor < N THEN cursor' = cursor + 1 /\ pc' = pc ELSE cursor' = 1 /\ pc' = "slice"
    BY <1>1 DEF EnqueueOne, cpuVars, sliceVars
  <2>4. CASE cursor < N
    <3>1. EnqueuedBefore(cursor)'
      BY <2>1, <2>2, <2>3, <2>4 DEF EnqueuedBefore, Procs
    <3> QED  BY <1>1, <2>3, <2>4, <3>1
  <2>5. CASE ~(cursor < N)
    <3>1. EnqueuedBefore(N + 1)'
      BY <2>1, <2>2, <2>5, CpuAssumption DEF EnqueuedBefore, Procs
    <3> QED  BY <1>1, <2>3, <2>5, <3>1
  <2> QED  BY <2>4, <2>5
<1>2. CASE pc = "enqueue" /\ EnqueueOne("pick")
  BY <1>2 DEF EnqueueOne
<1>3. CASE Pick
  <2>1. \A i \in Procs : in_ready[i] => in_ready'[i] \/ i = current_process'
    BY <1>3, PopKeepsInv DEF Pick
  <2>2. UNCHANGED cpuVars /\ current_process = NoProc /\ EnqueuedBefore(N + 1) /\ pc' = "slice" /\ used_time' = 0
    BY <1>3 DEF Pick
  <2>3. EnqueuedBefore(N + 1)'
    BY <2>1, <2>2, CpuAssumption DEF EnqueuedBefore, is_available, cpuVars, Procs, NoProc
  <2> QED  BY <2>2, <2>3
<1>4. CASE Unit
  <2>1. current_time \in 0..MAX_TIME-1 /\ MAX_TIME \in Nat /\ timeline \in [0..MAX_TIME-1 -> Procs \union {Idle}]
    BY <1>4, CpuAssumption DEF Unit, SliceGoesOn, BaseInv, ReadyTypeOK
  <2>2. /\ timeline' = [timeline EXCEPT ![current_time] = current_process] /\ current_time' = current_time + 1
        /\ pc' = "refill" /\ cursor' = 1 /\ current_process' = current_process
    BY <1>4 DEF Unit, Execute
  <2>3. current_time' > 0 /\ timeline'[current_time' - 1] = current_process'
    BY <2>1, <2>2
  <2>4. EnqueuedBefore(1)'
    BY DEF EnqueuedBefore, Procs
  <2> QED  BY <2>2, <2>3, <2>4
<1>5. CASE \/ OuterLoop \/ IdleUnit \/ SliceEnd \/ Overflow
  BY <1>5 DEF OuterLoop, LoopHead, IdleUnit, SliceEnd, Overflow
<1>6. CASE UNCHANGED vars
  BY <1>6 DEF vars, readyVars, EnqueuedBefore, is_available
<1> QED  BY <1>1, <1>2, <1>3, <1>4, <1>5, <1>6 DEF Next, Enqueue, EnqueuePass, Ended, vars, sliceVars

LEMMA NextKeepsOrder == Inv /\ Paid /\ Refilled /\ OrderInv /\ [Next]_vars => OrderInv'
<1> SUFFICES ASSUME Inv, Paid, Refilled, OrderInv, [Next]_vars  PROVE OrderInv'
  OBVIOUS
<1>0. BaseInv /\ BaseInv'
  BY NextKeepsInv DEF Inv
<1>1. CASE \/ pc = "enqueue" /\ EnqueueOne("pick")
           \/ pc = "refill" /\ EnqueueOne("slice")
  <2>1. cursor \in Procs
    BY <1>1, CursorInRange DEF Inv, InnerLoop
  <2> QED  BY <1>0, <1>1, <2>1, EnqueueKeepsOrder
<1>2. CASE Pick
  <2>1. current_process = NoProc
    BY <1>2 DEF Pick, Inv
  <2> QED  BY <1>0, <1>2, <2>1, PopKeepsOrder DEF Pick
<1>3. CASE Unit
  <2>1. HasCpu /\ current_time < MAX_TIME /\ EnqueuedBefore(N + 1)
    BY <1>3 DEF Unit, SliceGoesOn, Inv, InnerLoop, Refilled
  <2>2. PICK c \in Procs : c = current_process
    BY <2>1 DEF HasCpu
  <2>3. /\ timeline' = [timeline EXCEPT ![current_time] = c] /\ current_time' = current_time + 1
        /\ work' = work /\ UNCHANGED queueVars /\ current_process' = current_process
    BY <1>3, <2>2 DEF Unit, Execute
  <2>4. \A i \in Procs : i # c => /\ completed'[i] = completed[i] /\ remaining_time'[i] = remaining_time[i]
                                 /\ blocked_until'[i] = blocked_until[i]
    BY <1>0, <1>3, <2>2 DEF Unit, Execute, BaseInv, ReadyTypeOK
  <2> QED  BY <1>0, <2>1, <2>2, <2>3, <2>4, TimeKeepsOrder
<1>4. CASE IdleUnit
  <2>1. /\ timeline' = [timeline EXCEPT ![current_time] = Idle] /\ current_time' = current_time + 1
        /\ UNCHANGED <<work, completed, remaining_time, blocked_until, queueVars, current_process>>
    BY <1>4 DEF IdleUnit, PassTime, pcbVars
  <2>2. EnqueuedBefore(N + 1) /\ current_time < MAX_TIME /\ current_process = NoProc
    BY <1>4 DEF IdleUnit, Inv, Simulating
  <2> QED  BY <1>0, <2>1, <2>2, TimeKeepsOrder
<1>5. CASE SliceEnd
  <2>1. PICK c \in Procs : c = current_process
    BY <1>5 DEF SliceEnd, Inv, InnerLoop
  <2>2. UNCHANGED cpuVars /\ current_process' = NoProc
    BY <1>5 DEF SliceEnd
  <2>3. is_available(c) => ReadySince(c) = current_time
    BY <1>5, <2>1, SliceReady
  <2>4. CASE QuantumUsed /\ Push(c)
    <3>1. is_available(c) /\ ~in_ready[c]
      BY <1>0, <1>5, <2>1, <2>4, CpuAssumption DEF SliceEnd, QuantumUsed, Inv, InnerLoop, HasCpu, BaseInv,
         QueueOK, QueueMatchesFlags, Procs, NoProc
    <3> QED  BY <1>0, <2>1, <2>2, <2>3, <2>4, <3>1, PushKeepsOrder
  <2>5. CASE UNCHANGED queueVars
    BY <2>1, <2>2, <2>3, <2>5, StutterKeepsOrder
  <2> QED  BY <1>5, <2>1, <2>4, <2>5 DEF SliceEnd, Overflow
<1>6. CASE OuterLoop \/ (Overflow /\ UNCHANGED <<cpuVars, current_process, state>>) \/ UNCHANGED vars
  BY <1>6, StutterKeepsOrder DEF OuterLoop, LoopHead, Overflow, vars, readyVars, cpuVars, queueVars
<1> QED  BY <1>1, <1>2, <1>3, <1>4, <1>5, <1>6 DEF Next, Enqueue, EnqueuePass, Ended, vars, sliceVars

LEMMA InitRefilled == Init => Paid /\ Refilled /\ OrderInv
<1>1. Init => Paid /\ Refilled
  BY CpuAssumption DEF Init, ReadyInit, CpuInit, Paid, Refilled
<1>2. Init => OrderInv
  BY InitGivesOrder DEF Init
<1> QED  BY <1>1, <1>2

\* Round Robin serves processes in the order in which they became ready: by arrival, by
\* the end of an I/O, or by the end of a slice that left them able to run.
THEOREM ReadyOrder == Spec => []QueueInReadyOrder
<1>1. Inv /\ Paid /\ [Next]_vars => Paid'
  BY NextKeepsPaid
<1>2. Inv /\ Refilled /\ [Next]_vars => Refilled'
  BY NextKeepsRefilled
<1>3. Inv /\ Paid /\ Refilled /\ OrderInv /\ [Next]_vars => OrderInv'
  BY NextKeepsOrder
<1>4. OrderInv => QueueInReadyOrder
  BY DEF OrderInv
<1> QED  BY <1>1, <1>2, <1>3, <1>4, InitRefilled, Invariance, PTL DEF Spec

-----------------------------------------------------------------------------
(* The wait.  Whoever is at index k has let pass at most one slice of every *)
(* process but himself, those between front and k and the one with the CPU  *)
(* having theirs still to come.                                             *)

Busy   == IF current_process = NoProc THEN 0 ELSE 1
Served == IF current_process = NoProc THEN 0 ELSE used_time

\* the queue and the CPU together hold each process at most once
OneEach == rear - front + Busy <= N

WaitInv ==
  \A k \in front..rear-1 :
     current_time - ReadySince(items[k]) <= (N - 1 - (k - front) - Busy) * time_quantum + Served

LEMMA QueueAndCpu == ASSUME BaseInv  PROVE OneEach
<1>1. CASE current_process = NoProc
  BY <1>1, QueueIsShort, CpuAssumption DEF OneEach, Busy, BaseInv, ReadyTypeOK
<1>2. CASE current_process # NoProc
  <2>1. /\ front \in Nat /\ rear \in Nat /\ front <= rear /\ N \in Nat
        /\ current_process \in Procs /\ ~in_ready[current_process]
    BY <1>2, CpuAssumption DEF BaseInv, ReadyTypeOK, QueueOK, QueueMatchesFlags
  <2> DEFINE slots == front..rear
             f == [k \in slots |-> IF k = rear THEN current_process ELSE items[k]]
  <2>2. \A k \in slots : k = rear \/ k \in front..rear-1
    BY <2>1
  <2>3. \A k \in front..rear-1 : items[k] \in Procs /\ items[k] # current_process
    BY <2>1 DEF BaseInv, QueueOK, QueueMatchesFlags, Queued
  <2>4. f \in [slots -> Procs]
    BY <2>1, <2>2, <2>3
  <2>5. \A j, k \in slots : f[j] = f[k] => j = k
    BY <2>2, <2>3 DEF BaseInv, QueueOK, QueueMatchesFlags
  <2>6. IsFiniteSet(slots) /\ Cardinality(slots) = rear - front + 1
    <3>1. /\ IsFiniteSet(slots)
          /\ Cardinality(slots) = IF front > rear THEN 0 ELSE rear - front + 1
      BY <2>1, FS_Interval
    <3> HIDE DEF slots
    <3> QED  BY <2>1, <3>1
  <2>7. IsFiniteSet(Procs) /\ Cardinality(Procs) = N
    BY <2>1, FS_Interval DEF Procs
  <2> HIDE DEF f, slots
  <2>8. f \in Injection(slots, Procs)
    BY <2>4, <2>5 DEF Injection, IsInjective
  <2>9. Cardinality(slots) <= Cardinality(Procs)
    BY <2>7, <2>8, FS_Injection
  <2> QED  BY <1>2, <2>6, <2>7, <2>9 DEF OneEach, Busy
<1> QED  BY <1>1, <1>2

\* a slice that is over has taken no more than was set aside for it
LEMMA SliceFits == ASSUME NEW x \in Int, NEW q \in Nat, NEW u \in 0..q  PROVE (x - 1) * q + u <= x * q
<1>1. (x - 1) * q = x * q - q
  OBVIOUS
<1>2. PICK y \in Int : y = x * q
  OBVIOUS
<1> QED  BY <1>1, <1>2

LEMMA MoreSlices ==
  ASSUME NEW x \in Int, NEW y \in Int, x <= y, NEW q \in Nat  PROVE x * q <= y * q /\ x * q \in Int /\ y * q \in Int
<1>1. (y - x) * q >= 0 /\ (y - x) * q = y * q - x * q
  OBVIOUS
<1>2. PICK a \in Int, b \in Int : a = x * q /\ b = y * q
  OBVIOUS
<1> QED  BY <1>1, <1>2

LEMMA WaitTypes ==
  ASSUME Inv
  PROVE  /\ N \in Nat /\ front \in Nat /\ rear \in Nat /\ front <= rear /\ current_time \in Nat
         /\ time_quantum \in Nat \ {0} /\ used_time \in 0..time_quantum /\ Busy \in 0..1
         /\ items \in [0..MAX_TIME-1 -> Procs \union {NoProc}]
         /\ \A k \in front..rear-1 : items[k] \in Procs /\ items[k] # current_process /\ in_ready[items[k]]
<1>1. /\ N \in Nat /\ front \in Nat /\ rear \in Nat /\ front <= rear /\ current_time \in Nat
      /\ time_quantum \in Nat \ {0} /\ used_time \in 0..time_quantum /\ Busy \in 0..1
      /\ items \in [0..MAX_TIME-1 -> Procs \union {NoProc}]
  BY CpuAssumption DEF Inv, SliceOK, BaseInv, ReadyTypeOK, QueueOK, QueueMatchesFlags, Busy
<1>2. ASSUME NEW k \in front..rear-1
      PROVE  items[k] \in Procs /\ items[k] # current_process /\ in_ready[items[k]]
  <2>1. items[k] \in Procs /\ in_ready[items[k]]
    BY DEF Inv, BaseInv, QueueOK, QueueMatchesFlags, Queued
  <2>2. items[k] # current_process
    BY <2>1, CpuAssumption DEF Inv, BaseInv, QueueOK, QueueMatchesFlags, Procs, NoProc
  <2> QED  BY <2>1, <2>2
<1> QED  BY <1>1, <1>2

\* a process that is pushed at the end, ready this very moment, has its whole wait to come
LEMMA PushKeepsWaits ==
  ASSUME Inv, OrderInv, WaitInv, OneEach', NEW i \in Procs, Push(i), ReadySince(i) = current_time,
         UNCHANGED <<cpuVars, time_quantum>>,
         (Busy' = Busy /\ Served' = Served) \/ (Busy = 1 /\ Busy' = 0 /\ Served = used_time /\ Served' = 0),
         Served' \in Nat
  PROVE  WaitInv'
<1>1. /\ rear \in 0..MAX_TIME-1 /\ rear' = rear + 1 /\ front' = front
      /\ items' = [items EXCEPT ![rear] = i]
      /\ \A k \in front..rear-1 : items'[k] = items[k]
      /\ items'[rear] = i
  <2>1. rear \in 0..MAX_TIME-1
    BY CpuAssumption DEF Inv, BaseInv, ReadyTypeOK, Push, queue_full
  <2> QED  BY <2>1, WaitTypes DEF Push
<1>2. current_time' = current_time /\ \A x : ReadySince(x)' = ReadySince(x)
  BY ReadySinceFrozen DEF cpuVars
<1>3. Busy' \in 0..1 /\ time_quantum' = time_quantum
  BY WaitTypes
<1> SUFFICES ASSUME NEW k \in front..rear
             PROVE  current_time' - ReadySince(items[k])'
                      <= (N - 1 - (k - front) - Busy') * time_quantum + Served'
  BY <1>1, <1>3, WaitTypes DEF WaitInv
<1>4. CASE k = rear
  <2>1. N - 1 - (k - front) - Busy' \in Nat
    BY <1>1, <1>3, <1>4, WaitTypes DEF OneEach
  <2>2. PICK m \in Nat : m = N - 1 - (k - front) - Busy'
    BY <2>1
  <2>3. m * time_quantum \in Nat
    BY WaitTypes
  <2>4. items'[k] = i /\ ReadySince(i)' = current_time'
    BY <1>1, <1>2, <1>4
  <2>5. ReadySince(items[k])' = current_time'
    BY <2>4
  <2> QED  BY <1>2, <2>2, <2>3, <2>5, WaitTypes
<1>5. CASE k \in front..rear-1
  <2>1. PICK x \in Procs : x = items[k]
    BY <1>5, WaitTypes
  <2>2. items'[k] = x
    BY <1>1, <1>5, <2>1
  <2>3. ReadySince(items[k])' = ReadySince(x)
    BY <1>2, <2>2
  <2>4. current_time - ReadySince(x) <= (N - 1 - (k - front) - Busy) * time_quantum + Served
    BY <1>5, <2>1 DEF WaitInv
  <2>5. CASE Busy' = Busy /\ Served' = Served
    BY <1>2, <2>3, <2>4, <2>5
  <2>6. CASE Busy = 1 /\ Busy' = 0 /\ Served = used_time /\ Served' = 0
    <3>1. PICK m \in Int : m = N - 1 - (k - front)
      BY WaitTypes
    <3>2. (m - 1) * time_quantum + used_time <= m * time_quantum
      BY WaitTypes, SliceFits
    <3>3. N - 1 - (k - front) - 1 = m - 1 /\ N - 1 - (k - front) - 0 = m
      BY <3>1, WaitTypes
    <3>4. PICK w \in Int : w = current_time - ReadySince(x)
      BY <1>5, <2>1, WaitTypes DEF OrderInv
    <3>5. w <= (m - 1) * time_quantum + used_time
      BY <2>4, <2>6, <3>3, <3>4
    <3>6. PICK a \in Int, b \in Int : a = (m - 1) * time_quantum /\ b = m * time_quantum
      BY WaitTypes
    <3>7. w <= m * time_quantum + 0
      BY <3>2, <3>5, <3>6, WaitTypes
    <3> QED  BY <1>2, <2>3, <2>6, <3>3, <3>4, <3>7
  <2> QED  BY <2>5, <2>6
<1> QED  BY <1>1, <1>4, <1>5, WaitTypes

LEMMA NextKeepsWaits == Inv /\ Paid /\ Refilled /\ OrderInv /\ OneEach' /\ WaitInv /\ [Next]_vars => WaitInv'
<1> SUFFICES ASSUME Inv, Paid, Refilled, OrderInv, OneEach', WaitInv, [Next]_vars  PROVE WaitInv'
  OBVIOUS
\* steps in which nobody enters the queue, no slot comes nearer and no time passes
<1>1. ASSUME UNCHANGED <<cpuVars, items, front, rear, current_process, time_quantum, used_time>>  PROVE WaitInv'
  <2> SUFFICES ASSUME NEW k \in front..rear-1
               PROVE  current_time' - ReadySince(items[k])'
                        <= (N - 1 - (k - front) - Busy) * time_quantum + Served
    BY <1>1 DEF WaitInv, Busy, Served
  <2>1. PICK x : x = items[k]
    OBVIOUS
  <2>2. items'[k] = x /\ current_time' = current_time
    BY <1>1, <2>1 DEF cpuVars
  <2>3. ReadySince(items[k])' = ReadySince(x)
    BY <1>1, <2>2, ReadySinceFrozen
  <2> QED  BY <2>1, <2>2, <2>3 DEF WaitInv
<1>2. CASE \/ pc = "enqueue" /\ EnqueueOne("pick") /\ UNCHANGED sliceVars
           \/ pc = "refill" /\ EnqueueOne("slice") /\ UNCHANGED sliceVars
  <2>1. cursor \in Procs
    BY <1>2, CursorInRange DEF Inv, InnerLoop
  <2>2. UNCHANGED <<cpuVars, current_process, time_quantum, used_time>>
    BY <1>2 DEF EnqueueOne, sliceVars
  <2>3. CASE Joins(cursor)
    <3>1. Push(cursor) /\ ReadySince(cursor) = current_time
      BY <1>2, <2>1, <2>3 DEF EnqueueOne, Joins, OrderInv, Fresh
    <3>2. Busy' = Busy /\ Served' = Served /\ Served \in Nat
      BY <2>2, WaitTypes DEF Busy, Served
    <3> QED  BY <2>1, <2>2, <3>1, <3>2, PushKeepsWaits
  <2>4. CASE ~Joins(cursor)
    BY <1>1, <1>2, <2>2, <2>4 DEF EnqueueOne, queueVars
  <2> QED  BY <2>3, <2>4
<1>3. CASE Pick
  <2>1. /\ current_process = NoProc /\ current_process' # NoProc /\ used_time' = 0
        /\ front' = front + 1 /\ UNCHANGED <<items, rear, time_quantum>> /\ UNCHANGED cpuVars
    <3>1. HasCpu'
      BY <1>3, PopKeepsInv DEF Pick, Inv
    <3>2. current_process' # NoProc
      BY <3>1, CpuAssumption DEF HasCpu, Procs, NoProc
    <3> QED  BY <1>3, <3>2 DEF Pick, Pop, Inv
  <2>2. Busy = 0 /\ Busy' = 1 /\ Served = 0 /\ Served' = 0
    BY <2>1 DEF Busy, Served
  <2> SUFFICES ASSUME NEW k \in front+1..rear-1
               PROVE  current_time' - ReadySince(items[k])' <= (N - 1 - (k - (front + 1)) - 1) * time_quantum + 0
    BY <2>1, <2>2 DEF WaitInv
  <2>3. k \in front..rear-1
    BY WaitTypes
  <2>4. PICK x : x = items[k]
    OBVIOUS
  <2>5. items'[k] = x /\ current_time' = current_time
    BY <2>1, <2>4 DEF cpuVars
  <2>6. ReadySince(items[k])' = ReadySince(x)
    BY <2>1, <2>5, ReadySinceFrozen
  <2>7. N - 1 - (k - (front + 1)) - 1 = N - 1 - (k - front) - 0
    BY WaitTypes
  <2>8. current_time - ReadySince(x) <= (N - 1 - (k - front) - 0) * time_quantum + 0
    BY <2>2, <2>3, <2>4 DEF WaitInv
  <2> QED  BY <2>5, <2>6, <2>7, <2>8
<1>4. CASE Unit
  <2>1. HasCpu /\ current_time < MAX_TIME /\ current_process # NoProc
    BY <1>4, CpuAssumption DEF Unit, SliceGoesOn, Inv, InnerLoop, HasCpu, Procs, NoProc
  <2>2. /\ UNCHANGED <<items, front, rear, current_process, time_quantum, work>> /\ used_time' = used_time + 1
        /\ timeline' = [timeline EXCEPT ![current_time] = current_process] /\ current_time' = current_time + 1
    BY <1>4 DEF Unit, Execute, queueVars
  <2>3. Busy = 1 /\ Busy' = 1 /\ Served = used_time /\ Served' = used_time + 1
    BY <2>1, <2>2 DEF Busy, Served
  <2> SUFFICES ASSUME NEW k \in front..rear-1
               PROVE  current_time' - ReadySince(items[k])' <= (N - 1 - (k - front) - 1) * time_quantum + (used_time + 1)
    BY <2>2, <2>3 DEF WaitInv
  <2>4. PICK x \in Procs : x = items[k]
    BY WaitTypes
  <2>5. x # current_process /\ in_ready[x]
    BY <2>4, WaitTypes
  <2>6. blocked_until'[x] = blocked_until[x]
    BY <1>4, <2>5 DEF Unit, Execute, Inv, BaseInv, ReadyTypeOK
  <2>7. ReadySince(x)' = ReadySince(x)
    BY <2>1, <2>2, <2>5, <2>6, ReadySinceKept DEF Inv, BaseInv
  <2>8. ReadySince(items[k])' = ReadySince(x)
    <3>1. items'[k] = x
      BY <2>2, <2>4
    <3> QED  BY <2>7, <3>1
  <2>9. PICK r \in Int : r = ReadySince(x)
    BY <2>5, WaitTypes DEF OrderInv
  <2>10. current_time - r <= (N - 1 - (k - front) - 1) * time_quantum + used_time
    BY <2>3, <2>4, <2>9 DEF WaitInv
  <2>11. PICK m \in Int : m = (N - 1 - (k - front) - 1) * time_quantum
    BY WaitTypes
  <2>12. PICK t \in Nat, u \in Nat : t = current_time /\ u = used_time
    BY WaitTypes
  <2>13. (t + 1) - r <= m + (u + 1)
    BY <2>10, <2>11, <2>12
  <2> QED  BY <2>2, <2>8, <2>9, <2>11, <2>12, <2>13
<1>5. CASE IdleUnit
  <2>1. PICK n \in Nat : front' = n /\ rear' = n
    BY <1>5, WaitTypes DEF IdleUnit, queue_empty, queueVars
  <2>2. n..n-1 = {}
    OBVIOUS
  <2> QED  BY <2>1, <2>2 DEF WaitInv
<1>6. CASE SliceEnd
  <2>1. PICK c \in Procs : c = current_process
    BY <1>6 DEF SliceEnd, Inv, InnerLoop
  <2>2. UNCHANGED <<cpuVars, time_quantum, used_time>> /\ current_process' = NoProc /\ c # NoProc
    BY <1>6, CpuAssumption DEF SliceEnd, sliceVars, Procs, NoProc
  <2>3. Busy = 1 /\ Busy' = 0 /\ Served = used_time /\ Served' = 0
    BY <2>1, <2>2 DEF Busy, Served
  <2>4. CASE QuantumUsed /\ Push(c)
    <3>1. ReadySince(c) = current_time
      BY <1>6, <2>1, <2>4, SliceReady DEF QuantumUsed, SliceEnd, Inv, InnerLoop, HasCpu
    <3> QED  BY <2>1, <2>2, <2>3, <2>4, <3>1, PushKeepsWaits
  <2>5. CASE UNCHANGED queueVars
    <3> SUFFICES ASSUME NEW k \in front..rear-1
                 PROVE  current_time' - ReadySince(items[k])' <= (N - 1 - (k - front) - 0) * time_quantum + 0
      BY <2>2, <2>3, <2>5 DEF WaitInv, queueVars
    <3>1. PICK x \in Procs : x = items[k]
      BY WaitTypes
    <3>2. items'[k] = x /\ current_time' = current_time
      BY <2>2, <2>5, <3>1 DEF queueVars, cpuVars
    <3>3. ReadySince(items[k])' = ReadySince(x)
      BY <2>2, <3>2, ReadySinceFrozen
    <3>4. PICK w \in Int : w = current_time - ReadySince(x)
      BY <3>1, WaitTypes DEF OrderInv
    <3>5. PICK m \in Int : m = N - 1 - (k - front)
      BY WaitTypes
    <3>6. w <= (m - 1) * time_quantum + used_time
      BY <2>3, <3>1, <3>4, <3>5 DEF WaitInv
    <3>7. (m - 1) * time_quantum + used_time <= m * time_quantum
      BY WaitTypes, SliceFits
    <3>8. PICK a \in Int, b \in Int : a = (m - 1) * time_quantum /\ b = m * time_quantum
      BY WaitTypes
    <3>9. w <= m * time_quantum + 0
      BY <3>6, <3>7, <3>8, WaitTypes
    <3>10. N - 1 - (k - front) - 0 = m
      BY <3>5
    <3> QED  BY <3>2, <3>3, <3>4, <3>9, <3>10
  <2> QED  BY <1>6, <2>1, <2>4, <2>5 DEF SliceEnd, Overflow
<1>7. CASE OuterLoop \/ (Overflow /\ UNCHANGED <<cpuVars, current_process, state>> /\ UNCHANGED sliceVars)
           \/ UNCHANGED vars
  BY <1>1, <1>7 DEF OuterLoop, LoopHead, Overflow, vars, readyVars, cpuVars, queueVars, sliceVars
<1> QED  BY <1>2, <1>3, <1>4, <1>5, <1>6, <1>7 DEF Next, Enqueue, EnqueuePass, Ended, vars, sliceVars

\* With Round Robin nobody waits in the queue for longer than one slice of each of the
\* others, whatever arrives or returns from I/O before his turn.
THEOREM WaitIsBounded == Spec => []BoundedWait
<1>1. Inv /\ Paid /\ [Next]_vars => Paid'
  BY NextKeepsPaid
<1>2. Inv /\ Refilled /\ [Next]_vars => Refilled'
  BY NextKeepsRefilled
<1>3. Inv /\ Paid /\ Refilled /\ OrderInv /\ [Next]_vars => OrderInv'
  BY NextKeepsOrder
<1>4. Inv /\ Paid /\ Refilled /\ OrderInv /\ OneEach' /\ WaitInv /\ [Next]_vars => WaitInv'
  BY NextKeepsWaits
<1>5. Inv => OneEach
  BY QueueAndCpu DEF Inv
<1>6. Init => WaitInv
  <2> SUFFICES ASSUME Init  PROVE WaitInv
    OBVIOUS
  <2>1. front..rear-1 = {}
    BY DEF Init, ReadyInit
  <2> QED  BY <2>1 DEF WaitInv
<1>7. Inv /\ OrderInv /\ WaitInv => BoundedWait
  <2> SUFFICES ASSUME Inv, OrderInv, WaitInv, NEW i \in Procs, in_ready[i]
               PROVE  current_time - ReadySince(i) <= (N - 1) * time_quantum
    BY DEF BoundedWait
  <2>1. PICK k \in front..rear-1 : items[k] = i
    BY DEF Inv, BaseInv, QueueOK, QueueMatchesFlags, Queued
  <2>2. PICK w \in Int : w = current_time - ReadySince(i)
    BY WaitTypes DEF OrderInv
  <2>3. PICK m \in Int : m = N - 1 - (k - front)
    BY WaitTypes
  <2>4. m <= N - 1 /\ N - 1 \in Int
    BY <2>3, WaitTypes
  <2>5. w <= (m - Busy) * time_quantum + Served
    BY <2>1, <2>2, <2>3 DEF WaitInv
  <2>6. (m - Busy) * time_quantum + Served <= m * time_quantum
    <3>1. CASE current_process = NoProc
      <4>1. m - Busy = m /\ Served = 0
        BY <3>1 DEF Busy, Served
      <4>2. m * time_quantum \in Int
        BY WaitTypes
      <4> QED  BY <4>1, <4>2
    <3>2. CASE current_process # NoProc
      BY <3>2, WaitTypes, SliceFits DEF Busy, Served
    <3> QED  BY <3>1, <3>2
  <2>7. m * time_quantum <= (N - 1) * time_quantum
    BY <2>4, WaitTypes, MoreSlices
  <2>8. /\ (m - Busy) * time_quantum + Served \in Int
        /\ m * time_quantum \in Int /\ (N - 1) * time_quantum \in Int
    BY <2>4, WaitTypes DEF Served
  <2>9. PICK a \in Int, b \in Int, c \in Int : /\ a = (m - Busy) * time_quantum + Served
                                             /\ b = m * time_quantum /\ c = (N - 1) * time_quantum
    BY <2>8
  <2>10. w <= c
    BY <2>5, <2>6, <2>7, <2>9
  <2> QED  BY <2>2, <2>9, <2>10
<1> QED  BY <1>1, <1>2, <1>3, <1>4, <1>5, <1>6, <1>7, InitRefilled, Invariance, PTL DEF Spec
=============================================================================
