----------------------------- MODULE CpuProofs -----------------------------
(***************************************************************************)
(* What any CPU that keeps the promise CpuSpec guarantees, for every set   *)
(* of workloads, number of processes and MAX_TIME, and what main.c makes   *)
(* of it.                                                                  *)
(*                                                                         *)
(* The timeline is compared with the PCBs it came from: CpuInv says that a *)
(* process has used as much CPU time as it has units in the timeline, that *)
(* next_io counts the I/O events those units have reached, and that        *)
(* blocked_until is the end of the last of them.  Hence is_available is    *)
(* what Runnable reads off the timeline (AvailableIsRunnable), and the     *)
(* past is not rewritten (PastIsKept).                                     *)
(*                                                                         *)
(* The metrics are sums over the processes (SumProofs).  Accounted keeps   *)
(* the books of one: the time since its arrival is what it was ready, ran  *)
(* and spent in the I/O it has begun; Stamped says that the PCB remembers  *)
(* its first and its last unit.  StatsAre is what the loop over the        *)
(* timeline has counted after some of the units.                           *)
(***************************************************************************)
EXTENDS Main, SumProofs, TLAPS

-----------------------------------------------------------------------------
(* Lemmas about the data                                                    *)

LEMMA WorkFacts ==
  ASSUME work \in Workloads, NEW i \in Procs
  PROVE  /\ work[i].arrival \in Nat /\ work[i].burst \in Nat \ {0} /\ work[i].priority \in Nat \ {0}
         /\ Len(work[i].io) \in Nat /\ DOMAIN work[i].io = 1..Len(work[i].io)
         /\ \A k \in 1..Len(work[i].io) :
               /\ work[i].io[k].start \in Nat /\ work[i].io[k].burst \in Nat
               /\ work[i].io[k].start < work[i].burst
               /\ work[i].io[k].start = 0 => work[i].burst = 1
         /\ \A k, m \in 1..Len(work[i].io) : k < m => work[i].io[k].start < work[i].io[m].start
<1>1. WellFormed(work[i])
  BY CpuAssumption
<1>2. /\ work[i].arrival \in Nat /\ work[i].burst \in Nat \ {0} /\ work[i].priority \in Nat \ {0}
      /\ work[i].io \in Seq(IoEvent)
  BY <1>1 DEF WellFormed, Job
<1>3. \A k \in 1..Len(work[i].io) : work[i].io[k] \in IoEvent
  BY <1>2
<1> QED  BY <1>1, <1>2, <1>3 DEF WellFormed, IoEvent

\* how many of the first units of a timeline show x
Count(f, x, t) == Cardinality({u \in 0..t-1 : f[u] = x})

LEMMA CountFacts ==
  ASSUME NEW f, NEW x, NEW t \in Nat
  PROVE  /\ Count(f, x, t) \in Nat
         /\ Count(f, x, 0) = 0
         /\ Count(f, x, t + 1) = IF f[t] = x THEN Count(f, x, t) + 1 ELSE Count(f, x, t)
<1> DEFINE S == {u \in 0..t-1 : f[u] = x}
<1>1. IsFiniteSet(S)
  <2>1. IsFiniteSet(0..t-1)
    BY FS_Interval
  <2> QED  BY <2>1, FS_Subset
<1>2. Count(f, x, t) \in Nat
  BY <1>1, FS_CardinalityType DEF Count
<1>3. Count(f, x, 0) = 0
  <2>1. {u \in 0..0-1 : f[u] = x} = {}
    OBVIOUS
  <2> QED  BY <2>1, FS_EmptySet DEF Count
<1>4. Count(f, x, t + 1) = Cardinality({u \in 0..t : f[u] = x})
  BY DEF Count
<1>5. CASE f[t] = x
  <2>1. {u \in 0..t : f[u] = x} = S \union {t} /\ t \notin S
    BY <1>5
  <2>2. Cardinality(S \union {t}) = Cardinality(S) + 1
    BY <1>1, <2>1, FS_AddElement
  <2> QED  BY <1>2, <1>3, <1>4, <1>5, <2>1, <2>2 DEF Count
<1>6. CASE f[t] # x
  <2>1. {u \in 0..t : f[u] = x} = S
    BY <1>6
  <2> QED  BY <1>2, <1>3, <1>4, <1>6, <2>1 DEF Count
<1> QED  BY <1>5, <1>6

-----------------------------------------------------------------------------
(* The PCBs and the timeline                                                *)

CpuTyped ==
  /\ work \in Workloads
  /\ current_time \in Nat /\ current_time <= MAX_TIME
  /\ timeline \in [0..MAX_TIME-1 -> Procs \union {Idle}]
  /\ remaining_time \in [Procs -> Nat] /\ next_io \in [Procs -> Nat]
  /\ blocked_until \in [Procs -> Nat \union {None}]
  /\ completed \in [Procs -> BOOLEAN]

\* the CPU unit of p[i] that ends at s is followed by its k-th I/O
Began(i, k, s) == timeline[s-1] = i /\ work[i].io[k].start = Ran(i, s)

CpuTimeUsed == \A i \in Procs : /\ Ran(i, current_time) + remaining_time[i] = work[i].burst
                                /\ completed[i] <=> remaining_time[i] = 0

IoReached ==
  \A i \in Procs : /\ next_io[i] <= Len(work[i].io)
                   /\ \A k \in 1..Len(work[i].io) :
                         k <= next_io[i] <=> work[i].io[k].start \in 1..Ran(i, current_time)

BlockedByLast ==
  \A i \in Procs :
    /\ \A s \in 1..current_time : \A k \in 1..Len(work[i].io) :
          Began(i, k, s) => s + work[i].io[k].burst <= blocked_until[i]
    /\ blocked_until[i] # None =>
          \E s \in 1..current_time : \E k \in 1..Len(work[i].io) :
             Began(i, k, s) /\ blocked_until[i] = s + work[i].io[k].burst

CpuInv == CpuTyped /\ CpuTimeUsed /\ IoReached /\ BlockedByLast

LEMMA RanType == ASSUME NEW i, NEW t \in Nat  PROVE Ran(i, t) \in Nat
<1>1. Count(timeline, i, t) \in Nat
  BY CountFacts
<1> QED  BY <1>1 DEF Ran, Count

\* is_available tells from the PCB what the timeline says
LEMMA AvailableIsRunnable ==
  ASSUME CpuInv, NEW i \in Procs
  PROVE  is_available(i) <=> Runnable(i, current_time)
<1>1. /\ work[i].arrival \in Nat /\ work[i].burst \in Nat
      /\ DOMAIN work[i].io = 1..Len(work[i].io)
      /\ \A k \in 1..Len(work[i].io) : work[i].io[k].burst \in Nat
  BY WorkFacts DEF CpuInv, CpuTyped
<1>2. /\ Ran(i, current_time) \in Nat /\ Ran(i, current_time) + remaining_time[i] = work[i].burst
      /\ completed[i] <=> remaining_time[i] = 0
      /\ remaining_time[i] \in Nat
  BY RanType DEF CpuInv, CpuTyped, CpuTimeUsed
<1>3. current_time \in Nat /\ blocked_until[i] \in Nat \union {-1}
  BY DEF CpuInv, CpuTyped, None
<1>4. InIo(i, current_time) <=>
        \E s \in 1..current_time : \E k \in 1..Len(work[i].io) :
           Began(i, k, s) /\ current_time < s + work[i].io[k].burst
  BY <1>1 DEF InIo, Began
<1>5. ASSUME NEW s \in 1..current_time, NEW k \in 1..Len(work[i].io),
             Began(i, k, s), current_time < s + work[i].io[k].burst
      PROVE  current_time < blocked_until[i]
  <2>1. s + work[i].io[k].burst <= blocked_until[i]
    BY <1>5 DEF CpuInv, BlockedByLast
  <2>2. work[i].io[k].burst \in Nat
    BY <1>1
  <2> QED  BY <1>3, <1>5, <2>1, <2>2
<1>6. ASSUME current_time < blocked_until[i]  PROVE InIo(i, current_time)
  <2>1. blocked_until[i] # None
    BY <1>3, <1>6 DEF None
  <2>2. PICK s \in 1..current_time : \E k \in 1..Len(work[i].io) :
             Began(i, k, s) /\ blocked_until[i] = s + work[i].io[k].burst
    BY <2>1 DEF CpuInv, BlockedByLast
  <2> QED  BY <1>4, <1>6, <2>2
<1>7. InIo(i, current_time) <=> current_time < blocked_until[i]
  BY <1>4, <1>5, <1>6
<1> QED  BY <1>1, <1>2, <1>3, <1>7 DEF is_available, Runnable

\* Writing the current unit changes nothing that is read off the earlier ones.
LEMMA PastIsKept ==
  ASSUME CpuTyped, current_time < MAX_TIME, NEW x, timeline' = [timeline EXCEPT ![current_time] = x],
         work' = work, NEW i \in Procs, NEW t \in 0..current_time
  PROVE  /\ Ran(i, t)' = Ran(i, t)
         /\ InIo(i, t)' <=> InIo(i, t)
         /\ Runnable(i, t)' <=> Runnable(i, t)
         /\ \A s \in 1..t, k \in 1..Len(work[i].io) : Began(i, k, s)' <=> Began(i, k, s)
<1>1. \A u \in 0..current_time-1 : timeline'[u] = timeline[u]
  BY DEF CpuTyped
<1>2. \A s \in 0..t : Ran(i, s)' = Ran(i, s)
  <2> TAKE s \in 0..t
  <2>1. s \in Nat /\ \A u \in 0..s-1 : timeline'[u] = timeline[u]
    BY <1>1 DEF CpuTyped
  <2>2. {u \in 0..s-1 : timeline'[u] = i} = {u \in 0..s-1 : timeline[u] = i}
    BY <2>1
  <2> QED  BY <2>2 DEF Ran
<1>3. InIo(i, t)' <=> InIo(i, t)
  BY <1>1, <1>2 DEF InIo, CpuTyped
<1>4. \A s \in 1..t, k \in 1..Len(work[i].io) : Began(i, k, s)' <=> Began(i, k, s)
  BY <1>1, <1>2 DEF Began, CpuTyped
<1>5. Ran(i, t)' = Ran(i, t)
  BY <1>2
<1> QED  BY <1>3, <1>4, <1>5 DEF Runnable

\* One more unit is counted.
LEMMA UnitIsCounted ==
  ASSUME CpuTyped, current_time < MAX_TIME, NEW x, timeline' = [timeline EXCEPT ![current_time] = x],
         current_time' = current_time + 1, work' = work, NEW i \in Procs
  PROVE  Ran(i, current_time)' = IF i = x THEN Ran(i, current_time) + 1 ELSE Ran(i, current_time)
<1> DEFINE S == {u \in 0..current_time-1 : timeline[u] = i}
<1>1. Ran(i, current_time)' = Cardinality({u \in 0..current_time : timeline'[u] = i})
  BY DEF Ran, CpuTyped
<1>2. Ran(i, current_time) = Cardinality(S)
  BY DEF Ran
<1>3. IsFiniteSet(S)
  <2>1. IsFiniteSet(0..current_time-1)
    BY FS_Interval DEF CpuTyped
  <2> QED  BY <2>1, FS_Subset
<1>4. timeline'[current_time] = x /\ \A u \in 0..current_time-1 : timeline'[u] = timeline[u]
  <2>1. current_time \in 0..MAX_TIME-1
    BY CpuAssumption DEF CpuTyped
  <2> QED  BY <2>1 DEF CpuTyped
<1>5. CASE i = x
  <2>1. {u \in 0..current_time : timeline'[u] = i} = S \union {current_time} /\ current_time \notin S
    BY <1>4, <1>5 DEF CpuTyped
  <2>2. Cardinality(S \union {current_time}) = Cardinality(S) + 1
    BY <1>3, <2>1, FS_AddElement
  <2> QED  BY <1>1, <1>2, <1>5, <2>1, <2>2
<1>6. CASE i # x
  <2>1. {u \in 0..current_time : timeline'[u] = i} = S
    BY <1>4, <1>6 DEF CpuTyped
  <2> QED  BY <1>1, <1>2, <1>6, <2>1
<1> QED  BY <1>5, <1>6

\* The I/O event at the point p[i] reaches with its next unit is the one next_io is at.
LEMMA DueIsNext ==
  ASSUME CpuInv, NEW i \in Procs, is_available(i)
  PROVE  /\ consumed_cpu_time(i) + 1 = Ran(i, current_time) + 1
         /\ Outcome(i) = "io" => /\ next_io[i] + 1 \in 1..Len(work[i].io)
                                 /\ work[i].io[next_io[i] + 1].start = Ran(i, current_time) + 1
                                 /\ remaining_time[i] # 1
         /\ \A k \in 1..Len(work[i].io) : work[i].io[k].start = Ran(i, current_time) + 1 =>
               Outcome(i) = "io" /\ k = next_io[i] + 1
<1>1. /\ Ran(i, current_time) \in Nat /\ remaining_time[i] \in Nat \ {0} /\ next_io[i] \in Nat
      /\ Ran(i, current_time) + remaining_time[i] = work[i].burst
      /\ next_io[i] <= Len(work[i].io)
      /\ \A k \in 1..Len(work[i].io) : k <= next_io[i] <=> work[i].io[k].start \in 1..Ran(i, current_time)
  BY RanType DEF CpuInv, CpuTyped, CpuTimeUsed, IoReached, is_available
<1>2. /\ work[i].burst \in Nat /\ Len(work[i].io) \in Nat
      /\ \A k \in 1..Len(work[i].io) :
            /\ work[i].io[k].start \in Nat /\ work[i].io[k].start < work[i].burst
            /\ work[i].io[k].start = 0 => work[i].burst = 1
      /\ \A k, m \in 1..Len(work[i].io) : k < m => work[i].io[k].start < work[i].io[m].start
  BY WorkFacts DEF CpuInv, CpuTyped
<1>3. consumed_cpu_time(i) + 1 = Ran(i, current_time) + 1
  BY <1>1, <1>2 DEF consumed_cpu_time
<1>4. ASSUME Outcome(i) = "io"
      PROVE  /\ next_io[i] + 1 \in 1..Len(work[i].io)
             /\ work[i].io[next_io[i] + 1].start = Ran(i, current_time) + 1
             /\ remaining_time[i] # 1
  <2>1. remaining_time[i] # 1 /\ IoDue(i, consumed_cpu_time(i) + 1)
    BY <1>4 DEF Outcome
  <2> QED  BY <1>1, <1>2, <1>3, <2>1 DEF IoDue
<1>5. ASSUME NEW k \in 1..Len(work[i].io), work[i].io[k].start = Ran(i, current_time) + 1
      PROVE  Outcome(i) = "io" /\ k = next_io[i] + 1
  <2> DEFINE n == next_io[i] + 1
  <2>1. remaining_time[i] # 1
    BY <1>1, <1>2, <1>5
  <2>2. ~(k <= next_io[i])
    BY <1>1, <1>5
  <2>3. n \in 1..Len(work[i].io) /\ n <= k
    BY <1>1, <1>2, <2>2
  <2>4. n = k
    <3> SUFFICES ASSUME n < k  PROVE FALSE
      BY <2>3
    <3>1. work[i].io[n].start < work[i].io[k].start /\ work[i].io[n].start \notin 1..Ran(i, current_time)
      BY <1>1, <1>2, <2>3
    <3>2. work[i].io[n].start = 0
      <4> DEFINE a == work[i].io[n].start
      <4>1. a \in Nat /\ a < Ran(i, current_time) + 1 /\ a \notin 1..Ran(i, current_time)
        BY <1>2, <1>5, <2>3, <3>1
      <4> HIDE DEF a
      <4>2. a = 0
        BY <1>1, <4>1
      <4> QED  BY <4>2 DEF a
    <3> QED  BY <1>1, <1>2, <1>5, <2>3, <3>2
  <2>5. IoDue(i, consumed_cpu_time(i) + 1)
    BY <1>1, <1>2, <1>3, <1>5, <2>3, <2>4 DEF IoDue
  <2> QED  BY <2>1, <2>4, <2>5 DEF Outcome
<1> QED  BY <1>3, <1>4, <1>5

LEMMA InitCpu == CpuInit => CpuInv
<1> SUFFICES ASSUME CpuInit  PROVE CpuInv
  OBVIOUS
<1>1. \A i \in Procs : work[i].burst \in Nat \ {0}
  BY WorkFacts DEF CpuInit
<1>2. CpuTyped
  BY <1>1, CpuAssumption DEF CpuInit, CpuTyped, None, Idle
<1>3. \A i \in Procs : Ran(i, current_time) = 0
  <2>1. \A i : {u \in 0..0-1 : timeline[u] = i} = {}
    OBVIOUS
  <2> QED  BY <2>1, FS_EmptySet DEF CpuInit, Ran
<1>4. CpuTimeUsed
  BY <1>1, <1>3 DEF CpuInit, CpuTimeUsed
<1>5. IoReached
  <2> SUFFICES ASSUME NEW i \in Procs
               PROVE  /\ next_io[i] <= Len(work[i].io)
                      /\ \A k \in 1..Len(work[i].io) :
                            k <= next_io[i] <=> work[i].io[k].start \in 1..Ran(i, current_time)
    BY DEF IoReached
  <2>1. next_io[i] = 0 /\ Len(work[i].io) \in Nat
    BY WorkFacts DEF CpuInit
  <2> QED  BY <1>3, <2>1
<1>6. BlockedByLast
  BY DEF CpuInit, BlockedByLast
<1> QED  BY <1>2, <1>4, <1>5, <1>6 DEF CpuInv

LEMMA ExecuteKeepsCpu ==
  ASSUME CpuInv, current_time < MAX_TIME, NEW i \in Procs, is_available(i), Execute(i)
  PROVE  CpuInv'
<1>1. /\ timeline' = [timeline EXCEPT ![current_time] = i] /\ current_time' = current_time + 1
      /\ work' = work /\ remaining_time' = [remaining_time EXCEPT ![i] = @ - 1]
      /\ completed' = [completed EXCEPT ![i] = (Outcome(i) = "finished")]
      /\ blocked_until' = [blocked_until EXCEPT ![i] =
            IF Outcome(i) = "io" THEN current_time + 1 + work[i].io[next_io[i] + 1].burst ELSE @]
      /\ next_io' = [next_io EXCEPT ![i] = IF Outcome(i) = "io" THEN @ + 1 ELSE @]
  BY DEF Execute
<1>2. /\ CpuTyped /\ current_time \in 0..MAX_TIME-1 /\ current_time \in Nat
      /\ remaining_time[i] \in Nat \ {0}
      /\ blocked_until[i] \in Nat \union {-1} /\ blocked_until[i] <= current_time
      /\ \A j \in Procs : Ran(j, current_time) \in Nat
  BY CpuAssumption, RanType DEF CpuInv, CpuTyped, None, is_available
<1>3. \A j \in Procs : Ran(j, current_time)' = IF j = i THEN Ran(j, current_time) + 1 ELSE Ran(j, current_time)
  BY <1>1, <1>2, UnitIsCounted
<1>4. /\ Outcome(i) = "io" => /\ next_io[i] + 1 \in 1..Len(work[i].io)
                              /\ work[i].io[next_io[i] + 1].start = Ran(i, current_time) + 1
                              /\ remaining_time[i] # 1
                              /\ work[i].io[next_io[i] + 1].burst \in Nat
      /\ \A k \in 1..Len(work[i].io) : work[i].io[k].start = Ran(i, current_time) + 1 =>
            Outcome(i) = "io" /\ k = next_io[i] + 1
      /\ Outcome(i) = "finished" <=> remaining_time[i] = 1
  BY <1>2, DueIsNext, WorkFacts DEF CpuTyped, Outcome
<1>5. CpuTyped'
  <2>1. timeline' \in [0..MAX_TIME-1 -> Procs \union {Idle}] /\ current_time' \in Nat /\ current_time' <= MAX_TIME
    BY <1>1, <1>2, CpuAssumption DEF CpuTyped
  <2>2. remaining_time' \in [Procs -> Nat] /\ next_io' \in [Procs -> Nat]
    BY <1>1, <1>2 DEF CpuTyped
  <2>3. blocked_until' \in [Procs -> Nat \union {None}]
    <3>1. PICK until \in Nat \union {None} :
            blocked_until' = [blocked_until EXCEPT ![i] = until]
      <4>1. CASE Outcome(i) = "io"
        <5>1. work[i].io[next_io[i] + 1].burst \in Nat
          BY <1>4, <4>1
        <5>2. PICK until \in Nat : until = current_time + 1 + work[i].io[next_io[i] + 1].burst
          BY <1>2, <5>1
        <5> QED  BY <1>1, <4>1, <5>2
      <4>2. CASE Outcome(i) # "io"
        BY <1>1, <1>2, <4>2 DEF None
      <4> QED  BY <4>1, <4>2
    <3> QED  BY <1>2, <3>1 DEF CpuTyped
  <2>4. completed' \in [Procs -> BOOLEAN]
    BY <1>1, <1>2 DEF CpuTyped
  <2> QED  BY <1>1, <1>2, <2>1, <2>2, <2>3, <2>4 DEF CpuTyped
<1>6. CpuTimeUsed'
  <2> SUFFICES ASSUME NEW j \in Procs
               PROVE  /\ Ran(j, current_time)' + remaining_time'[j] = work'[j].burst
                      /\ completed'[j] <=> remaining_time'[j] = 0
    BY DEF CpuTimeUsed
  <2>1. /\ Ran(j, current_time) + remaining_time[j] = work[j].burst
        /\ completed[j] <=> remaining_time[j] = 0
    BY DEF CpuInv, CpuTimeUsed
  <2>2. CASE j = i
    <3>1. remaining_time'[j] = remaining_time[j] - 1 /\ (completed'[j] <=> remaining_time[j] = 1)
      BY <1>1, <1>2, <1>4, <2>2 DEF CpuTyped
    <3> QED  BY <1>1, <1>2, <1>3, <2>1, <2>2, <3>1
  <2>3. CASE j # i
    <3>1. remaining_time'[j] = remaining_time[j] /\ completed'[j] = completed[j]
      BY <1>1, <1>2, <2>3 DEF CpuTyped
    <3> QED  BY <1>1, <1>3, <2>1, <2>3, <3>1
  <2> QED  BY <2>2, <2>3
<1>7. IoReached'
  <2> SUFFICES ASSUME NEW j \in Procs
               PROVE  /\ next_io'[j] <= Len(work'[j].io)
                      /\ \A k \in 1..Len(work'[j].io) :
                            k <= next_io'[j] <=> work'[j].io[k].start \in 1..Ran(j, current_time)'
    BY DEF IoReached
  <2>1. /\ next_io[j] <= Len(work[j].io)
        /\ \A k \in 1..Len(work[j].io) : k <= next_io[j] <=> work[j].io[k].start \in 1..Ran(j, current_time)
    BY DEF CpuInv, IoReached
  <2>2. CASE j # i
    <3>1. next_io'[j] = next_io[j]
      BY <1>1, <1>2, <2>2 DEF CpuTyped
    <3> QED  BY <1>1, <1>3, <2>1, <2>2, <3>1
  <2>3. CASE j = i
    <3>1. next_io'[i] = IF Outcome(i) = "io" THEN next_io[i] + 1 ELSE next_io[i]
      BY <1>1, <1>2 DEF CpuTyped
    <3>2. next_io'[i] <= Len(work[i].io)
      BY <1>4, <2>1, <2>3, <3>1
    <3>3. ASSUME NEW k \in 1..Len(work[i].io)
          PROVE  k <= next_io'[i] <=> work[i].io[k].start \in 1..(Ran(i, current_time) + 1)
      <4> DEFINE a == work[i].io[k].start
                 r == Ran(i, current_time)
      <4>1. a \in Nat /\ r \in Nat /\ next_io[i] \in Nat /\ k \in Nat
        BY <1>2, WorkFacts DEF CpuTyped
      <4>2. k <= next_io[i] <=> a \in 1..r
        BY <2>1, <2>3
      <4>3. a = r + 1 <=> Outcome(i) = "io" /\ k = next_io[i] + 1
        BY <1>4
      <4> HIDE DEF a, r
      <4>4. k <= next_io'[i] <=> a \in 1..(r + 1)
        BY <3>1, <4>1, <4>2, <4>3
      <4> QED  BY <4>4 DEF a, r
    <3> QED  BY <1>1, <1>3, <2>3, <3>2, <3>3
  <2> QED  BY <2>2, <2>3
<1>8. BlockedByLast'
  <2> SUFFICES ASSUME NEW j \in Procs
               PROVE  /\ \A s \in 1..current_time' : \A k \in 1..Len(work'[j].io) :
                            Began(j, k, s)' => s + work'[j].io[k].burst <= blocked_until'[j]
                      /\ blocked_until'[j] # None =>
                            \E s \in 1..current_time' : \E k \in 1..Len(work'[j].io) :
                               Began(j, k, s)' /\ blocked_until'[j] = s + work'[j].io[k].burst
    BY DEF BlockedByLast
  <2>1. \A s \in 1..current_time, k \in 1..Len(work[j].io) : Began(j, k, s)' <=> Began(j, k, s)
    <3>1. current_time \in 0..current_time
      BY <1>2
    <3> QED  BY <1>1, <1>2, <3>1, PastIsKept
  <2>2. ASSUME NEW s, s = current_time + 1, NEW k \in 1..Len(work[j].io)
        PROVE  Began(j, k, s)' <=> j = i /\ Outcome(i) = "io" /\ k = next_io[i] + 1
    <3>1. timeline'[s - 1] = i
      BY <1>1, <1>2, <2>2 DEF CpuTyped
    <3>2. Ran(j, s)' = IF j = i THEN Ran(j, current_time) + 1 ELSE Ran(j, current_time)
      BY <1>1, <1>3, <2>2 DEF Ran
    <3>3. Began(j, k, s)' <=> timeline'[s - 1] = j /\ work[j].io[k].start = Ran(j, s)'
      BY <1>1 DEF Began
    <3> QED  BY <1>4, <3>1, <3>2, <3>3
  <2>3. /\ \A s \in 1..current_time : \A k \in 1..Len(work[j].io) :
              Began(j, k, s) => s + work[j].io[k].burst <= blocked_until[j]
        /\ blocked_until[j] # None =>
              \E s \in 1..current_time : \E k \in 1..Len(work[j].io) :
                 Began(j, k, s) /\ blocked_until[j] = s + work[j].io[k].burst
    BY DEF CpuInv, BlockedByLast
  <2>4. \A s \in 1..current_time' : s \in 1..current_time \/ s = current_time + 1
    BY <1>1, <1>2
  <2>5. current_time + 1 \in 1..current_time' /\ 1..current_time \subseteq 1..current_time'
    BY <1>1, <1>2
  <2>6. CASE j = i /\ Outcome(i) = "io"
    <3>0. PICK n \in 1..Len(work[j].io) : n = next_io[i] + 1
      BY <1>4, <2>6
    <3>1. blocked_until'[j] = current_time + 1 + work[j].io[n].burst
      BY <1>1, <1>2, <2>6, <3>0 DEF CpuTyped
    <3>2. work[j].io[n].burst \in Nat
      BY <1>4, <2>6, <3>0
    <3>3. ASSUME NEW s \in 1..current_time, NEW k \in 1..Len(work[j].io), Began(j, k, s)
          PROVE  s + work[j].io[k].burst <= blocked_until'[j]
      <4>1. s + work[j].io[k].burst <= blocked_until[j]
        BY <2>3, <3>3
      <4>2. work[j].io[k].burst \in Nat
        BY <1>2, WorkFacts DEF CpuTyped
      <4>3. blocked_until[j] <= current_time /\ blocked_until[j] \in Int
        BY <1>2, <2>6
      <4> DEFINE old == work[j].io[k].burst
                 new == work[j].io[n].burst
                 b   == blocked_until[j]
      <4>4. old \in Nat /\ new \in Nat /\ b \in Int /\ s + old <= b /\ b <= current_time
        BY <3>2, <4>1, <4>2, <4>3
      <4> HIDE DEF old, new, b
      <4>5. s + old <= current_time + 1 + new
        BY <1>2, <4>4
      <4> QED  BY <3>1, <4>5 DEF old, new
    <3>4. ASSUME NEW s \in 1..current_time', NEW k \in 1..Len(work[j].io), Began(j, k, s)'
          PROVE  s + work[j].io[k].burst <= blocked_until'[j]
      <4>1. CASE s \in 1..current_time
        BY <2>1, <3>3, <3>4, <4>1
      <4>2. CASE s = current_time + 1
        <5>1. k = n
          BY <2>2, <3>0, <3>4, <4>2
        <5>2. blocked_until'[j] = s + work[j].io[k].burst
          BY <3>1, <4>2, <5>1
        <5> QED  BY <1>2, <3>2, <4>2, <5>1, <5>2
      <4> QED  BY <2>4, <4>1, <4>2
    <3>5. PICK s \in 1..current_time' : s = current_time + 1
      BY <2>5
    <3>6. Began(j, n, s)'
      BY <2>2, <2>6, <3>0, <3>5
    <3>7. blocked_until'[j] = s + work[j].io[n].burst
      BY <3>1, <3>5
    <3> QED  BY <1>1, <3>4, <3>6, <3>7
  <2>7. CASE ~(j = i /\ Outcome(i) = "io")
    <3>1. blocked_until'[j] = blocked_until[j]
      BY <1>1, <1>2, <2>7 DEF CpuTyped
    <3>2. ASSUME NEW s \in 1..current_time', NEW k \in 1..Len(work[j].io), Began(j, k, s)'
          PROVE  s + work[j].io[k].burst <= blocked_until'[j]
      BY <2>1, <2>2, <2>3, <2>4, <2>7, <3>1, <3>2
    <3>3. ASSUME blocked_until'[j] # None
          PROVE  \E s \in 1..current_time' : \E k \in 1..Len(work[j].io) :
                    Began(j, k, s)' /\ blocked_until'[j] = s + work[j].io[k].burst
      <4>1. PICK s \in 1..current_time, k \in 1..Len(work[j].io) :
               Began(j, k, s) /\ blocked_until[j] = s + work[j].io[k].burst
        BY <2>3, <3>1, <3>3
      <4> QED  BY <2>1, <2>5, <3>1, <4>1
    <3> QED  BY <1>1, <3>2, <3>3
  <2> QED  BY <2>6, <2>7
<1> QED  BY <1>5, <1>6, <1>7, <1>8 DEF CpuInv

LEMMA PassTimeKeepsCpu ==
  ASSUME CpuInv, current_time < MAX_TIME, PassTime
  PROVE  CpuInv'
<1>1. /\ timeline' = [timeline EXCEPT ![current_time] = Idle] /\ current_time' = current_time + 1
      /\ UNCHANGED <<work, remaining_time, next_io, blocked_until, completed>>
  BY DEF PassTime, pcbVars
<1>2. CpuTyped /\ current_time \in 0..MAX_TIME-1 /\ current_time \in Nat /\ \A j \in Procs : j # Idle
  BY CpuAssumption DEF CpuInv, CpuTyped, Procs, Idle
<1>3. \A j \in Procs : Ran(j, current_time)' = Ran(j, current_time)
  BY <1>1, <1>2, UnitIsCounted
<1>4. CpuTyped'
  <2>1. timeline' \in [0..MAX_TIME-1 -> Procs \union {Idle}] /\ current_time' \in Nat /\ current_time' <= MAX_TIME
    BY <1>1, <1>2, CpuAssumption DEF CpuTyped
  <2> QED  BY <1>1, <1>2, <2>1 DEF CpuTyped
<1>5. CpuTimeUsed' /\ IoReached'
  BY <1>1, <1>3 DEF CpuInv, CpuTimeUsed, IoReached
<1>6. BlockedByLast'
  <2> SUFFICES ASSUME NEW j \in Procs
               PROVE  /\ \A s \in 1..current_time' : \A k \in 1..Len(work'[j].io) :
                            Began(j, k, s)' => s + work'[j].io[k].burst <= blocked_until'[j]
                      /\ blocked_until'[j] # None =>
                            \E s \in 1..current_time' : \E k \in 1..Len(work'[j].io) :
                               Began(j, k, s)' /\ blocked_until'[j] = s + work'[j].io[k].burst
    BY DEF BlockedByLast
  <2>1. \A s \in 1..current_time, k \in 1..Len(work[j].io) : Began(j, k, s)' <=> Began(j, k, s)
    <3>1. current_time \in 0..current_time
      BY <1>2
    <3> QED  BY <1>1, <1>2, <3>1, PastIsKept
  <2>2. ASSUME NEW s, s = current_time + 1, NEW k \in 1..Len(work[j].io)
        PROVE  ~Began(j, k, s)'
    <3>1. timeline'[s - 1] = Idle
      BY <1>1, <1>2, <2>2 DEF CpuTyped
    <3> QED  BY <1>2, <3>1 DEF Began
  <2>3. \A s \in 1..current_time' : s \in 1..current_time \/ s = current_time + 1
    BY <1>1, <1>2
  <2>4. 1..current_time \subseteq 1..current_time'
    BY <1>1, <1>2
  <2>5. ASSUME NEW s \in 1..current_time', NEW k \in 1..Len(work[j].io), Began(j, k, s)'
        PROVE  s + work[j].io[k].burst <= blocked_until[j]
    BY <2>1, <2>2, <2>3, <2>5 DEF CpuInv, BlockedByLast
  <2>6. ASSUME blocked_until[j] # None
        PROVE  \E s \in 1..current_time' : \E k \in 1..Len(work[j].io) :
                  Began(j, k, s)' /\ blocked_until[j] = s + work[j].io[k].burst
    <3>1. PICK s \in 1..current_time, k \in 1..Len(work[j].io) :
             Began(j, k, s) /\ blocked_until[j] = s + work[j].io[k].burst
      BY <2>6 DEF CpuInv, BlockedByLast
    <3> QED  BY <2>1, <2>4, <3>1
  <2> QED  BY <1>1, <2>5, <2>6
<1> QED  BY <1>4, <1>5, <1>6 DEF CpuInv

LEMMA StutterKeepsCpu == CpuInv /\ UNCHANGED cpuVars => CpuInv'
<1> SUFFICES ASSUME CpuInv, UNCHANGED cpuVars  PROVE CpuInv'
  OBVIOUS
<1>1. UNCHANGED <<work, current_time, timeline, remaining_time, next_io, blocked_until, completed>>
  BY DEF cpuVars
<1>2. \A i, t : Ran(i, t)' = Ran(i, t)
  BY <1>1 DEF Ran
<1>3. \A i : Ran(i, current_time)' = Ran(i, current_time)
  BY <1>1 DEF Ran
<1>4. \A i, k, s : Began(i, k, s)' <=> Began(i, k, s)
  BY <1>1, <1>2 DEF Began
<1> QED  BY <1>1, <1>2, <1>3, <1>4 DEF CpuInv, CpuTyped, CpuTimeUsed, IoReached, BlockedByLast

LEMMA NextKeepsCpu == CpuInv /\ [CpuNext]_cpuVars => CpuInv'
<1> SUFFICES ASSUME CpuInv, [CpuNext]_cpuVars  PROVE CpuInv'
  OBVIOUS
<1>1. CASE IdleStep
  BY <1>1, PassTimeKeepsCpu DEF IdleStep, Simulating
<1>2. ASSUME NEW i \in Procs, RunStep(i)  PROVE CpuInv'
  BY <1>2, ExecuteKeepsCpu DEF RunStep, Simulating
<1>3. CASE UNCHANGED cpuVars
  BY <1>3, StutterKeepsCpu
<1> QED  BY <1>1, <1>2, <1>3 DEF CpuNext, Stopped

LEMMA CpuInvariance == CpuSpec => []CpuInv
  BY InitCpu, NextKeepsCpu, PTL DEF CpuSpec

-----------------------------------------------------------------------------
(* A CPU that runs what is available has a legal timeline.                  *)

\* TimelineIsLegal, one process at a time
Legal == \A t \in 0..current_time-1 : \A i \in Procs :
            /\ timeline[t] = i => Runnable(i, t)
            /\ timeline[t] = Idle => ~Runnable(i, t)

LEMMA UnitKeepsLegal ==
  ASSUME CpuInv, Legal, current_time < MAX_TIME, NEW x \in Procs \union {Idle},
         timeline' = [timeline EXCEPT ![current_time] = x], current_time' = current_time + 1, work' = work,
         x \in Procs => is_available(x), x = Idle => \A i \in Procs : ~is_available(i)
  PROVE  Legal'
<1>1. CpuTyped /\ current_time \in 0..MAX_TIME-1 /\ current_time \in Nat /\ Idle \notin Procs
  BY CpuAssumption DEF CpuInv, CpuTyped, Procs, Idle
<1>2. ASSUME NEW t \in 0..current_time-1, NEW i \in Procs
      PROVE  /\ timeline'[t] = i => Runnable(i, t)'
             /\ timeline'[t] = Idle => ~Runnable(i, t)'
  <2>1. timeline'[t] = timeline[t] /\ t \in 0..current_time
    BY <1>1 DEF CpuTyped
  <2>2. Runnable(i, t)' <=> Runnable(i, t)
    BY <1>1, <2>1, PastIsKept
  <2> QED  BY <2>1, <2>2 DEF Legal
<1>3. ASSUME NEW t, t = current_time, NEW i \in Procs
      PROVE  /\ timeline'[t] = i => Runnable(i, t)'
             /\ timeline'[t] = Idle => ~Runnable(i, t)'
  <2>1. timeline'[t] = x /\ t \in 0..current_time
    BY <1>1, <1>3 DEF CpuTyped
  <2>2. Runnable(i, t)' <=> Runnable(i, t)
    BY <1>1, <2>1, PastIsKept
  <2>3. Runnable(i, t) <=> is_available(i)
    BY <1>3, AvailableIsRunnable
  <2> QED  BY <1>1, <2>1, <2>2, <2>3
<1>4. \A t \in 0..current_time'-1 : t \in 0..current_time-1 \/ t = current_time
  BY <1>1
<1> QED  BY <1>2, <1>3, <1>4 DEF Legal

LEMMA NextKeepsLegal == CpuInv /\ Legal /\ [CpuNext]_cpuVars => Legal'
<1> SUFFICES ASSUME CpuInv, Legal, [CpuNext]_cpuVars  PROVE Legal'
  OBVIOUS
<1>1. Idle \notin Procs
  BY CpuAssumption DEF Procs, Idle
<1>2. CASE IdleStep
  <2>1. /\ timeline' = [timeline EXCEPT ![current_time] = Idle] /\ current_time' = current_time + 1
        /\ work' = work /\ current_time < MAX_TIME /\ \A i \in Procs : ~is_available(i)
    BY <1>2 DEF IdleStep, PassTime, Simulating
  <2> QED  BY <1>1, <2>1, UnitKeepsLegal
<1>3. ASSUME NEW i \in Procs, RunStep(i)  PROVE Legal'
  <2>1. /\ timeline' = [timeline EXCEPT ![current_time] = i] /\ current_time' = current_time + 1
        /\ work' = work /\ current_time < MAX_TIME /\ is_available(i) /\ i # Idle
    BY <1>1, <1>3 DEF RunStep, Execute, Simulating
  <2> QED  BY <2>1, UnitKeepsLegal
<1>4. CASE UNCHANGED cpuVars
  <2>1. UNCHANGED <<work, current_time, timeline>>
    BY <1>4 DEF cpuVars
  <2>2. \A i, t : Ran(i, t)' = Ran(i, t)
    BY <2>1 DEF Ran
  <2>3. \A i, t : InIo(i, t)' <=> InIo(i, t)
    BY <2>1, <2>2 DEF InIo
  <2>4. \A i, t : Runnable(i, t)' <=> Runnable(i, t)
    BY <2>1, <2>2, <2>3 DEF Runnable
  <2> QED  BY <2>1, <2>4 DEF Legal
<1> QED  BY <1>2, <1>3, <1>4 DEF CpuNext, Stopped

LEMMA LegalIsLegal == CpuInv /\ Legal => TimelineIsLegal
<1> SUFFICES ASSUME CpuInv, Legal, NEW t \in 0..current_time-1
             PROVE  IF BusyAt(t) THEN Runnable(timeline[t], t) ELSE \A i \in Procs : ~Runnable(i, t)
  BY DEF TimelineIsLegal
<1>1. timeline[t] \in Procs \union {Idle}
  BY CpuAssumption DEF CpuInv, CpuTyped
<1> QED  BY <1>1 DEF Legal, BusyAt

\* The Gantt chart of every legal CPU shows a process only where it had arrived, had
\* CPU time left and was in no I/O, and an idle unit only where there was none: what
\* FCFS, Round Robin and the five schedulers below share, since each implements CpuSpec.
THEOREM LegalTimeline == CpuSpec => []TimelineIsLegal
<1>1. CpuInit => Legal
  BY DEF CpuInit, Legal
<1> QED  BY <1>1, NextKeepsLegal, LegalIsLegal, CpuInvariance, PTL DEF CpuSpec

-----------------------------------------------------------------------------
(* The metrics and the timeline                                             *)

\* the length of each I/O of p[i], and of those it has begun
Bursts(i) == [k \in 1..Len(work[i].io) |-> work[i].io[k].burst]
IoTime(i) == Upto(Bursts(i), next_io[i])

LEMMA BurstFacts ==
  ASSUME work \in Workloads, NEW i \in Procs
  PROVE  /\ Len(work[i].io) \in Nat /\ Bursts(i) \in [1..Len(work[i].io) -> Nat]
         /\ Upto(Bursts(i), 0) = 0 /\ Total(Bursts(i)) = Upto(Bursts(i), Len(work[i].io))
         /\ \A k \in 0..Len(work[i].io) : Upto(Bursts(i), k) \in Nat
         /\ \A k \in 0..Len(work[i].io)-1 : Upto(Bursts(i), k + 1) = work[i].io[k + 1].burst + Upto(Bursts(i), k)
<1> DEFINE n == Len(work[i].io)
           f == Bursts(i)
<1>1. n \in Nat /\ f \in [1..n -> Nat] /\ \A k \in 1..n : f[k] = work[i].io[k].burst
  BY WorkFacts DEF Bursts
<1>2. f \in [1..n -> Int]
  BY <1>1
<1>3. \A k \in 0..n-1 : k + 1 \in 1..n
  BY <1>1
<1> HIDE DEF n, f
<1>4. /\ Upto(f, 0) = 0 /\ Total(f) = Upto(f, n)
      /\ \A k \in 0..n : Upto(f, k) \in Int
      /\ \A k \in 0..n-1 : Upto(f, k + 1) = f[k + 1] + Upto(f, k)
  BY <1>1, <1>2, UptoFacts
<1>5. \A m \in 0..n : \A k \in 0..m : Upto(f, k) <= Upto(f, m)
  BY <1>1, UptoGrows
<1>6. \A k \in 0..n : Upto(f, k) \in Nat
  BY <1>1, <1>4, <1>5
<1>7. \A k \in 0..n-1 : Upto(f, k + 1) = work[i].io[k + 1].burst + Upto(f, k)
  BY <1>1, <1>3, <1>4
<1> QED  BY <1>1, <1>4, <1>6, <1>7 DEF n, f

LEMMA IoTimeIs ==
  ASSUME work \in Workloads, NEW i \in Procs
  PROVE  total_io_time(i) = Total(Bursts(i))
<1> DEFINE S == 1..Len(work[i].io)
           f == Bursts(i)
           P(h) == h = [s \in SUBSET S |-> IF s = {} THEN 0 ELSE work[i].io[CHOOSE x \in s : TRUE].burst
                                                                  + h[s \ {CHOOSE x \in s : TRUE}]]
           Q(h) == Sums(h, S, f)
<1>1. DOMAIN work[i].io = S /\ DOMAIN f = S
  BY WorkFacts DEF Bursts
<1>2. total_io_time(i) = (CHOOSE h : P(h))[S]
  BY <1>1 DEF total_io_time, MapThenSumSet, MapThenFoldSet
<1>3. Total(f) = (CHOOSE h : Q(h))[S]
  <2> HIDE DEF f, S
  <2> QED  BY <1>1 DEF Total, SumsOf
<1>4. ASSUME NEW h  PROVE P(h) <=> Q(h)
  <2>1. \A s \in SUBSET S : s # {} => f[NextOf(s)] = work[i].io[CHOOSE x \in s : TRUE].burst
    BY DEF NextOf, Bursts
  <2>2. [s \in SUBSET S |-> IF s = {} THEN 0 ELSE work[i].io[CHOOSE x \in s : TRUE].burst
                                                    + h[s \ {CHOOSE x \in s : TRUE}]]
        = [s \in SUBSET S |-> IF s = {} THEN 0 ELSE f[NextOf(s)] + h[s \ {NextOf(s)}]]
    BY <2>1 DEF NextOf
  <2> QED  BY <2>2 DEF Sums
<1>5. (CHOOSE h : P(h)) = (CHOOSE h : Q(h))
  <2> HIDE DEF P, Q
  <2> QED  BY <1>4, Zenon
<1> HIDE DEF P, Q, f, S
<1> QED  BY <1>2, <1>3, <1>5 DEF f

\* how long p[i] will still perform the I/O it is in
Rest(i) == IF blocked_until[i] > current_time THEN blocked_until[i] - current_time ELSE 0

\* Every unit since the arrival of p[i] was one of waiting, of running or of I/O, until
\* it finished; and it first ran after it had waited only.
Accounted(i) ==
  /\ current_time <= work[i].arrival =>
        Ran(i, current_time) = 0 /\ next_io[i] = 0 /\ ReadyTicks(i) = 0 /\ blocked_until[i] = None
  /\ work[i].arrival <= current_time /\ ~completed[i] =>
        current_time - work[i].arrival = ReadyTicks(i) + Ran(i, current_time) + IoTime(i) - Rest(i)
  /\ finish_time[i] = None <=> ~completed[i]
  /\ completed[i] => finish_time[i] - work[i].arrival = ReadyTicks(i) + work[i].burst + IoTime(i)
  /\ Ran(i, current_time) = 0 => first_run_time[i] = None
  /\ Ran(i, current_time) # 0 => first_run_time[i] - work[i].arrival \in 0..ReadyTicks(i)

TimesTyped == finish_time \in [Procs -> Nat \union {None}] /\ first_run_time \in [Procs -> Nat \union {None}]

Accounts == TimesTyped /\ \A i \in Procs : Accounted(i)

\* One more unit of waiting is counted for those who could run and did not.
LEMMA TickIsCounted ==
  ASSUME CpuTyped, current_time < MAX_TIME, NEW x, timeline' = [timeline EXCEPT ![current_time] = x],
         current_time' = current_time + 1, work' = work, NEW i \in Procs
  PROVE  /\ ReadyTicks(i) \in Nat
         /\ ReadyTicks(i)' = IF Runnable(i, current_time) /\ i # x THEN ReadyTicks(i) + 1 ELSE ReadyTicks(i)
<1> DEFINE S == {t \in 0..current_time-1 : Runnable(i, t) /\ timeline[t] # i}
<1>1. IsFiniteSet(S)
  <2>1. IsFiniteSet(0..current_time-1)
    BY FS_Interval DEF CpuTyped
  <2> QED  BY <2>1, FS_Subset
<1>2. ReadyTicks(i) = Cardinality(S) /\ Cardinality(S) \in Nat
  BY <1>1, FS_CardinalityType DEF ReadyTicks, end_time
<1>3. timeline'[current_time] = x /\ \A u \in 0..current_time-1 : timeline'[u] = timeline[u]
  <2>1. current_time \in 0..MAX_TIME-1
    BY CpuAssumption DEF CpuTyped
  <2> QED  BY <2>1 DEF CpuTyped
<1>4. \A t \in 0..current_time : Runnable(i, t)' <=> Runnable(i, t)
  BY PastIsKept
<1>5. current_time \in Nat
  BY DEF CpuTyped
<1>6. ReadyTicks(i)' = Cardinality({t \in 0..current_time : Runnable(i, t)' /\ timeline'[t] # i})
  <2>1. 0..current_time'-1 = 0..current_time
    BY <1>5
  <2> QED  BY <2>1 DEF ReadyTicks, end_time
<1>7. {t \in 0..current_time : Runnable(i, t)' /\ timeline'[t] # i}
      = {t \in 0..current_time : Runnable(i, t) /\ timeline'[t] # i}
  BY <1>4
<1>8. CASE Runnable(i, current_time) /\ i # x
  <2>1. {t \in 0..current_time : Runnable(i, t) /\ timeline'[t] # i} = S \union {current_time} /\ current_time \notin S
    BY <1>3, <1>5, <1>8
  <2>2. Cardinality(S \union {current_time}) = Cardinality(S) + 1
    BY <1>1, <2>1, FS_AddElement
  <2> QED  BY <1>2, <1>6, <1>7, <1>8, <2>1, <2>2
<1>9. CASE ~(Runnable(i, current_time) /\ i # x)
  <2>1. {t \in 0..current_time : Runnable(i, t) /\ timeline'[t] # i} = S
    BY <1>3, <1>5, <1>9
  <2> QED  BY <1>2, <1>6, <1>7, <1>9, <2>1
<1> QED  BY <1>2, <1>8, <1>9

LEMMA InitAccounts == CpuInit => Accounts
<1> SUFFICES ASSUME CpuInit  PROVE Accounts
  OBVIOUS
<1>1. /\ work \in Workloads /\ current_time = 0
      /\ next_io = [i \in Procs |-> 0] /\ blocked_until = [i \in Procs |-> -1]
      /\ first_run_time = [i \in Procs |-> -1] /\ finish_time = [i \in Procs |-> -1]
      /\ completed = [i \in Procs |-> FALSE]
  BY DEF CpuInit, None
<1>2. TimesTyped
  BY <1>1 DEF TimesTyped, None
<1>3. ASSUME NEW i \in Procs  PROVE Accounted(i)
  <2>1. Ran(i, current_time) = 0 /\ ReadyTicks(i) = 0
    <3>1. {u \in 0..0-1 : timeline[u] = i} = {} /\ {t \in 0..0-1 : Runnable(i, t) /\ timeline[t] # i} = {}
      OBVIOUS
    <3> QED  BY <1>1, <3>1, FS_EmptySet DEF Ran, ReadyTicks, end_time
  <2>2. work[i].arrival \in Nat
    BY <1>1, WorkFacts
  <2>3. next_io[i] = 0 /\ blocked_until[i] = -1 /\ first_run_time[i] = -1 /\ finish_time[i] = -1 /\ ~completed[i]
    BY <1>1
  <2>4. IoTime(i) = 0
    BY <1>1, <2>3, BurstFacts DEF IoTime
  <2>5. Rest(i) = 0
    BY <1>1, <2>3 DEF Rest
  <2> QED  BY <1>1, <2>1, <2>2, <2>3, <2>4, <2>5 DEF Accounted, None
<1> QED  BY <1>2, <1>3 DEF Accounts

\* a process another one has the unit of (or none has)
LEMMA WaitingAccounted ==
  ASSUME CpuInv, Accounts, current_time < MAX_TIME, NEW x, timeline' = [timeline EXCEPT ![current_time] = x],
         current_time' = current_time + 1, work' = work, NEW i \in Procs, i # x,
         next_io'[i] = next_io[i], blocked_until'[i] = blocked_until[i], completed'[i] = completed[i],
         finish_time'[i] = finish_time[i], first_run_time'[i] = first_run_time[i]
  PROVE  Accounted(i)'
<1> DEFINE now == current_time
           R   == Ran(i, current_time)
           K   == ReadyTicks(i)
           D   == IoTime(i)
           B   == blocked_until[i]
           a   == work[i].arrival
           b   == work[i].burst
<1>1. CpuTyped /\ now \in Nat /\ B \in Nat \union {-1} /\ a \in Nat /\ b \in Nat /\ R \in Nat /\ Accounted(i)
  BY WorkFacts, RanType DEF CpuInv, CpuTyped, Accounts, None
<1>2. K \in Nat /\ K' = IF Runnable(i, now) THEN K + 1 ELSE K
  BY <1>1, TickIsCounted
<1>3. R' = R
  BY <1>1, UnitIsCounted
<1>4. D \in Nat /\ D' = D
  <2>1. next_io[i] \in 0..Len(work[i].io)
    BY WorkFacts DEF CpuInv, CpuTyped, IoReached
  <2>2. D \in Nat
    BY <1>1, <2>1, BurstFacts DEF IoTime, CpuTyped
  <2>3. D' = D
    BY DEF IoTime, Bursts
  <2> QED  BY <2>2, <2>3
<1>5. /\ Runnable(i, now) <=> ~completed[i] /\ a <= now /\ B <= now
      /\ now < a => ~Runnable(i, now)
  <2>1. Runnable(i, now) <=> is_available(i)
    BY AvailableIsRunnable
  <2>2. completed[i] <=> remaining_time[i] = 0
    BY DEF CpuInv, CpuTimeUsed
  <2>3. remaining_time[i] \in Nat
    BY DEF CpuInv, CpuTyped
  <2> QED  BY <1>1, <2>1, <2>2, <2>3 DEF is_available
<1>6. /\ Rest(i) = IF B > now THEN B - now ELSE 0
      /\ Rest(i)' = IF B > now + 1 THEN B - (now + 1) ELSE 0
  BY DEF Rest
<1>7. next_io[i] = 0 => D = 0
  BY <1>1, BurstFacts DEF IoTime, CpuTyped
<1>8. /\ now <= a => R = 0 /\ next_io[i] = 0 /\ K = 0 /\ B = -1
      /\ a <= now /\ ~completed[i] => now - a = K + R + D - Rest(i)
      /\ finish_time[i] = None <=> ~completed[i]
      /\ completed[i] => finish_time[i] - a = K + b + D
      /\ R = 0 => first_run_time[i] = None
      /\ R # 0 => first_run_time[i] - a \in 0..K
  BY <1>1 DEF Accounted, None
<1> DEFINE F == first_run_time[i]
           E == finish_time[i]
<1>9. F \in Nat \union {-1} /\ E \in Nat \union {-1}
  BY DEF Accounts, TimesTyped, None
<1>10. /\ a' = a /\ b' = b /\ B' = B /\ F' = F /\ E' = E /\ now' = now + 1
  OBVIOUS
<1> HIDE DEF now, R, K, D, B, a, b, F, E
<1>11. now + 1 <= a => R' = 0 /\ next_io[i] = 0 /\ K' = 0 /\ B = -1
  BY <1>1, <1>2, <1>3, <1>5, <1>8
<1>12. a <= now + 1 /\ ~completed[i] => now + 1 - a = K' + R' + D' - Rest(i)'
  <2>1. CASE a <= now
    <3>1. CASE B > now
      BY <1>1, <1>2, <1>3, <1>4, <1>5, <1>6, <1>8, <2>1, <3>1
    <3>2. CASE ~(B > now)
      BY <1>1, <1>2, <1>3, <1>4, <1>5, <1>6, <1>8, <2>1, <3>2
    <3> QED  BY <3>1, <3>2
  <2>2. CASE now < a
    BY <1>1, <1>2, <1>3, <1>4, <1>5, <1>6, <1>7, <1>8, <2>2
  <2> QED  BY <1>1, <2>1, <2>2
<1>13. completed[i] => E - a = K' + b + D'
  BY <1>2, <1>4, <1>5, <1>8 DEF E
<1>14. R' # 0 => F - a \in 0..K'
  BY <1>1, <1>2, <1>3, <1>8, <1>9 DEF F
<1>15. R' = 0 => F = None
  BY <1>3, <1>8 DEF F
<1>16. /\ now' <= a' => R' = 0 /\ next_io'[i] = 0 /\ K' = 0 /\ B' = None
       /\ a' <= now' /\ ~completed'[i] => now' - a' = K' + R' + D' - Rest(i)'
       /\ E' = None <=> ~completed'[i]
       /\ completed'[i] => E' - a' = K' + b' + D'
       /\ R' = 0 => F' = None
       /\ R' # 0 => F' - a' \in 0..K'
  <2>1. /\ now' = now + 1 /\ a' = a /\ b' = b /\ B' = B /\ F' = F /\ E' = E
        /\ next_io'[i] = next_io[i] /\ completed'[i] = completed[i]
    BY <1>10
  <2>2. now' <= a' => R' = 0 /\ next_io'[i] = 0 /\ K' = 0 /\ B' = None
    BY <1>11, <2>1 DEF None
  <2>3. a' <= now' /\ ~completed'[i] => now' - a' = K' + R' + D' - Rest(i)'
    <3> SUFFICES ASSUME a' <= now', ~completed'[i]  PROVE now' - a' = K' + R' + D' - Rest(i)'
      OBVIOUS
    <3>1. PICK s : s = K' + R' + D' - Rest(i)'
      OBVIOUS
    <3>2. a <= now + 1 /\ ~completed[i]
      BY <2>1
    <3>3. now + 1 - a = s
      BY <1>12, <3>1, <3>2
    <3>4. now' - a' = s
      BY <1>1, <2>1, <3>3
    <3> QED  BY <3>1, <3>4
  <2>4. E = None <=> ~completed[i]
    BY <1>8 DEF E
  <2>5. E' = None <=> ~completed'[i]
    BY <2>1, <2>4, Zenon
  <2>6. completed'[i] => E' - a' = K' + b' + D'
    BY <1>13, <2>1
  <2>7. R' = 0 => F' = None
    BY <1>15, <2>1
  <2>8. R' # 0 => F' - a' \in 0..K'
    BY <1>14, <2>1
  <2> QED  BY <2>2, <2>3, <2>5, <2>6, <2>7, <2>8, Zenon
<1> QED  BY <1>16, Zenon DEF Accounted, now, R, K, D, B, a, b, F, E

\* the process that has the unit
LEMMA RunnerAccounted ==
  ASSUME CpuInv, Accounts, current_time < MAX_TIME, NEW i \in Procs, is_available(i), Execute(i)
  PROVE  Accounted(i)' /\ TimesTyped'
<1> DEFINE now == current_time
           R   == Ran(i, current_time)
           K   == ReadyTicks(i)
           D   == IoTime(i)
           B   == blocked_until[i]
           a   == work[i].arrival
           b   == work[i].burst
           F   == first_run_time[i]
           E   == finish_time[i]
<1>1. CpuTyped /\ now \in Nat /\ B \in Nat \union {-1} /\ a \in Nat /\ b \in Nat /\ R \in Nat /\ Accounted(i)
  BY WorkFacts, RanType DEF CpuInv, CpuTyped, Accounts, None
<1>2. /\ timeline' = [timeline EXCEPT ![now] = i] /\ now' = now + 1 /\ work' = work
      /\ completed' = [completed EXCEPT ![i] = Outcome(i) = "finished"]
      /\ finish_time' = [finish_time EXCEPT ![i] = IF Outcome(i) = "finished" THEN now + 1 ELSE @]
      /\ first_run_time' = [first_run_time EXCEPT ![i] = IF @ = None THEN now ELSE @]
      /\ blocked_until' = [blocked_until EXCEPT ![i] =
            IF Outcome(i) = "io" THEN now + 1 + work[i].io[next_io[i] + 1].burst ELSE @]
      /\ next_io' = [next_io EXCEPT ![i] = IF Outcome(i) = "io" THEN @ + 1 ELSE @]
  BY DEF Execute
<1>3. K \in Nat /\ K' = K /\ R' = R + 1
  BY <1>1, <1>2, TickIsCounted, UnitIsCounted
<1>4. /\ ~completed[i] /\ a <= now /\ B <= now /\ R < b
      /\ Outcome(i) = "finished" <=> R + 1 = b
  <2>1. remaining_time[i] \in Nat /\ R + remaining_time[i] = b
    BY DEF CpuInv, CpuTyped, CpuTimeUsed
  <2> QED  BY <1>1, <2>1 DEF is_available, Outcome
<1>5. /\ next_io[i] \in Nat /\ next_io[i] \in 0..Len(work[i].io) /\ D \in Nat
      /\ R = 0 => next_io[i] = 0
  <2>1. /\ next_io[i] \in Nat /\ Len(work[i].io) \in Nat /\ next_io[i] <= Len(work[i].io)
        /\ \A k \in 1..Len(work[i].io) : k <= next_io[i] <=> work[i].io[k].start \in 1..R
    BY WorkFacts DEF CpuInv, CpuTyped, IoReached
  <2>2. D \in Nat
    BY <1>1, <2>1, BurstFacts DEF IoTime, CpuTyped
  <2>3. ASSUME R = 0  PROVE next_io[i] = 0
    <3>1. next_io[i] \in 1..Len(work[i].io) => work[i].io[next_io[i]].start \in 1..R
      BY <2>1
    <3> QED  BY <2>1, <2>3, <3>1
  <2> QED  BY <2>1, <2>2, <2>3
<1>6. /\ Outcome(i) = "io" => /\ next_io'[i] = next_io[i] + 1
                              /\ \E c \in Nat : /\ c = work[i].io[next_io[i] + 1].burst
                                                /\ B' = now + 1 + c /\ D' = c + D
      /\ Outcome(i) # "io" => next_io'[i] = next_io[i] /\ B' = B /\ D' = D
  <2>1. CASE Outcome(i) = "io"
    <3>1. next_io[i] + 1 \in 1..Len(work[i].io) /\ next_io'[i] = next_io[i] + 1
      BY <1>1, <1>2, <2>1, DueIsNext DEF CpuTyped
    <3>2. PICK c \in Nat : c = work[i].io[next_io[i] + 1].burst
      BY <1>1, <3>1, WorkFacts DEF CpuTyped
    <3>3. B' = now + 1 + c
      BY <1>1, <1>2, <2>1, <3>2 DEF CpuTyped
    <3>4. next_io[i] \in 0..Len(work[i].io)-1
      BY <1>5, <3>1
    <3>5. Upto(Bursts(i), next_io[i] + 1) = c + D
      BY <1>1, <3>2, <3>4, BurstFacts DEF IoTime, CpuTyped
    <3>6. D' = Upto(Bursts(i), next_io[i] + 1)
      <4>1. Bursts(i)' = Bursts(i)
        BY <1>2 DEF Bursts
      <4>2. D' = Upto(Bursts(i)', next_io'[i])
        BY DEF IoTime
      <4> QED  BY <3>1, <4>1, <4>2, Zenon
    <3> QED  BY <2>1, <3>1, <3>2, <3>3, <3>5, <3>6
  <2>2. CASE Outcome(i) # "io"
    <3>1. next_io'[i] = next_io[i] /\ B' = B
      BY <1>1, <1>2, <2>2 DEF CpuTyped
    <3>2. D' = D
      <4>1. Bursts(i)' = Bursts(i)
        BY <1>2 DEF Bursts
      <4>2. D' = Upto(Bursts(i)', next_io'[i])
        BY DEF IoTime
      <4> QED  BY <3>1, <4>1, <4>2, Zenon DEF IoTime
    <3> QED  BY <2>2, <3>1, <3>2
  <2> QED  BY <2>1, <2>2
<1>7. /\ Rest(i) = IF B > now THEN B - now ELSE 0
      /\ Rest(i)' = IF B' > now + 1 THEN B' - (now + 1) ELSE 0
  BY <1>2 DEF Rest
<1>8. /\ a <= now /\ ~completed[i] => now - a = K + R + D - Rest(i)
      /\ R = 0 => F = None
      /\ R # 0 => F - a \in 0..K
  BY <1>1 DEF Accounted
<1>9. R = 0 => D = 0
  BY <1>1, <1>5, BurstFacts DEF IoTime, CpuTyped
<1>10. F \in Nat \union {-1} /\ E \in Nat \union {-1} /\ E = -1
  BY <1>1, <1>4 DEF Accounts, TimesTyped, None, Accounted
<1>11. /\ a' = a /\ b' = b /\ F' = (IF F = -1 THEN now ELSE F)
       /\ E' = (IF Outcome(i) = "finished" THEN now + 1 ELSE E)
       /\ completed'[i] <=> Outcome(i) = "finished"
  BY <1>1, <1>2 DEF CpuTyped, Accounts, TimesTyped, None
<1>12. TimesTyped'
  <2>1. now \in Nat /\ now + 1 \in Nat
    BY <1>1
  <2> QED  BY <1>2, <2>1 DEF Accounts, TimesTyped
<1>13. Outcome(i) \in {"finished", "io", "more"}
  BY DEF Outcome
<1> DEFINE o == Outcome(i)
           r == Rest(i)
<1> HIDE DEF now, R, K, D, B, a, b, F, E, o
<1>14. Rest(i) = 0 /\ now - a = K + R + D
  BY <1>1, <1>3, <1>4, <1>5, <1>7, <1>8
<1>15. o # "finished" => now + 1 - a = K' + R' + D' - Rest(i)'
  <2>1. CASE o = "io"
    <3>1. PICK c \in Nat : B' = now + 1 + c /\ D' = c + D
      BY <1>6, <2>1 DEF o
    <3>2. Rest(i)' = c
      BY <1>1, <1>7, <3>1
    <3> QED  BY <1>1, <1>3, <1>5, <1>14, <3>1, <3>2
  <2>2. CASE o # "io"
    <3>1. B' = B /\ D' = D
      BY <1>6, <2>2 DEF o
    <3>2. Rest(i)' = 0
      BY <1>1, <1>4, <1>7, <3>1
    <3> QED  BY <1>1, <1>3, <1>5, <1>14, <3>1, <3>2
  <2> QED  BY <2>1, <2>2
<1>16. o = "finished" => now + 1 - a = K' + b + D'
  <2> SUFFICES ASSUME o = "finished"  PROVE now + 1 - a = K' + b + D'
    OBVIOUS
  <2>1. R + 1 = b /\ D' = D
    BY <1>4, <1>6 DEF o
  <2> QED  BY <1>1, <1>3, <1>5, <1>14, <2>1
<1>17. R' # 0 /\ F' - a' \in 0..K'
  <2>1. CASE R = 0
    <3>1. F' = now /\ now - a = K
      BY <1>1, <1>3, <1>8, <1>9, <1>11, <1>14, <2>1 DEF None
    <3> QED  BY <1>1, <1>3, <1>11, <2>1, <3>1
  <2>2. CASE R # 0
    <3>1. F - a \in 0..K
      BY <1>8, <2>2
    <3>2. F # -1
      BY <1>1, <3>1
    <3>3. F' = F /\ a' = a /\ K' = K
      BY <1>3, <1>11, <3>2
    <3> QED  BY <1>1, <1>3, <3>1, <3>3
  <2> QED  BY <2>1, <2>2
<1>18. /\ now' <= a' => R' = 0 /\ next_io'[i] = 0 /\ K' = 0 /\ B' = None
       /\ a' <= now' /\ ~completed'[i] => now' - a' = K' + R' + D' - Rest(i)'
       /\ E' = None <=> ~completed'[i]
       /\ completed'[i] => E' - a' = K' + b' + D'
       /\ R' = 0 => F' = None
       /\ R' # 0 => F' - a' \in 0..K'
  <2>1. ~(now' <= a')
    BY <1>1, <1>2, <1>4, <1>11 DEF now
  <2>2. now' = now + 1
    BY <1>2 DEF now
  <2>3. E' = None <=> ~completed'[i]
    BY <1>1, <1>10, <1>11 DEF None
  <2>4. completed'[i] <=> o = "finished"
    BY <1>11 DEF o
  <2>5. completed'[i] => E' = now + 1
    BY <1>11
  <2>6. a' = a /\ b' = b
    BY <1>11
  <2>7. ~completed'[i] => now' - a' = K' + R' + D' - Rest(i)'
    <3> SUFFICES ASSUME ~completed'[i]  PROVE now' - a' = K' + R' + D' - Rest(i)'
      OBVIOUS
    <3>1. PICK s : s = K' + R' + D' - Rest(i)'
      OBVIOUS
    <3>2. now + 1 - a = s
      BY <1>15, <2>4, <3>1
    <3>3. now' - a' = s
      BY <1>1, <2>2, <2>6, <3>2
    <3> QED  BY <3>1, <3>3
  <2>8. completed'[i] => E' - a' = K' + b' + D'
    <3> SUFFICES ASSUME completed'[i]  PROVE E' - a' = K' + b' + D'
      OBVIOUS
    <3>1. PICK s : s = K' + b + D'
      OBVIOUS
    <3>2. E' = now + 1 /\ now + 1 - a = s
      BY <1>16, <2>4, <2>5, <3>1
    <3>3. E' - a' = s
      BY <1>1, <2>6, <3>2
    <3>4. s = K' + b' + D'
      BY <2>6, <3>1
    <3> QED  BY <3>3, <3>4
  <2> QED  BY <1>17, <2>1, <2>3, <2>7, <2>8, Zenon
<1>19. Accounted(i)'
  BY <1>18, Zenon DEF Accounted, now, R, K, D, B, a, b, F, E
<1> QED  BY <1>12, <1>19

LEMMA NextKeepsAccounts == CpuInv /\ Accounts /\ [CpuNext]_cpuVars => Accounts'
<1> SUFFICES ASSUME CpuInv, Accounts, [CpuNext]_cpuVars  PROVE Accounts'
  OBVIOUS
<1>1. CASE IdleStep
  <2>1. /\ timeline' = [timeline EXCEPT ![current_time] = Idle] /\ current_time' = current_time + 1
        /\ UNCHANGED <<work, remaining_time, next_io, blocked_until, first_run_time, finish_time, completed>>
        /\ current_time < MAX_TIME
    BY <1>1 DEF IdleStep, PassTime, Simulating, pcbVars
  <2>2. \A i \in Procs : i # Idle
    BY CpuAssumption DEF Procs, Idle
  <2>3. \A i \in Procs : Accounted(i)'
    BY <2>1, <2>2, WaitingAccounted
  <2>4. TimesTyped'
    BY <2>1 DEF Accounts, TimesTyped
  <2> QED  BY <2>3, <2>4 DEF Accounts
<1>2. ASSUME NEW i \in Procs, RunStep(i)  PROVE Accounts'
  <2>1. is_available(i) /\ Execute(i) /\ current_time < MAX_TIME
    BY <1>2 DEF RunStep, Simulating
  <2>2. Accounted(i)' /\ TimesTyped'
    BY <2>1, RunnerAccounted
  <2>3. ASSUME NEW j \in Procs, j # i  PROVE Accounted(j)'
    <3>1. /\ timeline' = [timeline EXCEPT ![current_time] = i] /\ current_time' = current_time + 1
          /\ work' = work
      BY <2>1 DEF Execute
    <3>2. /\ next_io'[j] = next_io[j] /\ blocked_until'[j] = blocked_until[j]
          /\ completed'[j] = completed[j] /\ finish_time'[j] = finish_time[j]
          /\ first_run_time'[j] = first_run_time[j]
      BY <2>1, <2>3 DEF Execute, CpuInv, CpuTyped, Accounts, TimesTyped
    <3> QED  BY <2>1, <2>3, <3>1, <3>2, WaitingAccounted
  <2> QED  BY <2>2, <2>3 DEF Accounts
<1>3. CASE UNCHANGED cpuVars
  <2>1. UNCHANGED <<work, current_time, timeline, next_io, blocked_until, first_run_time, finish_time, completed>>
    BY <1>3 DEF cpuVars
  <2>2. \A i, t : Ran(i, t)' = Ran(i, t)
    BY <2>1 DEF Ran
  <2>3. \A i, t : Runnable(i, t)' <=> Runnable(i, t)
    BY <2>1, <2>2 DEF Runnable, InIo
  <2>4. \A i : ReadyTicks(i)' = ReadyTicks(i) /\ Ran(i, current_time)' = Ran(i, current_time)
    BY <2>1, <2>3 DEF ReadyTicks, Ran, end_time
  <2>5. \A i : IoTime(i)' = IoTime(i) /\ Rest(i)' = Rest(i)
    BY <2>1 DEF IoTime, Bursts, Rest
  <2> QED  BY <2>1, <2>4, <2>5 DEF Accounts, TimesTyped, Accounted
<1> QED  BY <1>1, <1>2, <1>3 DEF CpuNext, Stopped

-----------------------------------------------------------------------------
(* The loop of calculate_runtime_stats                                      *)

LEMMA StatsSteps ==
  ASSUME MAX_TIME \in Nat
  PROVE  /\ runtime_stats[0] = NoUnits
         /\ \A t \in 1..MAX_TIME : runtime_stats[t] = CountUnit(runtime_stats[t - 1], timeline[t - 1])
<1> DEFINE IsStats(f, n) == f = [t \in 0..n |-> IF t = 0 THEN NoUnits ELSE CountUnit(f[t - 1], timeline[t - 1])]
           T == {n \in Nat : ~\E f : IsStats(f, n)}
<1>1. T = {}
  <2> SUFFICES ASSUME T # {}  PROVE FALSE
    OBVIOUS
  <2>1. PICK m \in T : \A n \in T : m <= n
    BY LeastNat
  <2>2. m # 0
    <3>1. IsStats([t \in 0..0 |-> NoUnits], 0)
      OBVIOUS
    <3> QED  BY <3>1
  <2>3. m - 1 \in Nat /\ m - 1 \notin T
    <3>1. m \in Nat
      BY <2>1
    <3> HIDE DEF T
    <3> QED  BY <2>1, <2>2, <3>1
  <2>4. PICK f : IsStats(f, m - 1)
    BY <2>3
  <2> DEFINE g == [t \in 0..m |-> IF t = m THEN CountUnit(f[m - 1], timeline[m - 1]) ELSE f[t]]
  <2>5. IsStats(g, m)
    <3>1. \A t \in 0..m : t # 0 => g[t - 1] = f[t - 1]
      BY <2>3
    <3>2. \A t \in 0..m : g[t] = IF t = 0 THEN NoUnits ELSE CountUnit(g[t - 1], timeline[t - 1])
      BY <2>2, <2>3, <2>4, <3>1
    <3> QED  BY <3>2
  <2> QED  BY <2>5
<1>2. \E f : IsStats(f, MAX_TIME)
  BY <1>1
<1>3. IsStats(runtime_stats, MAX_TIME)
  BY <1>2 DEF runtime_stats
<1>4. 0 \in 0..MAX_TIME /\ \A t \in 1..MAX_TIME : t \in 0..MAX_TIME /\ t # 0
  OBVIOUS
<1> QED  BY <1>3, <1>4

BusyUnits(t) == {u \in 0..t-1 : BusyAt(u)}
IdleUnits(t) == {u \in 0..t-1 : ~BusyAt(u)}

\* the last of the first t units that is not idle
IsLastBusy(u, t) == u \in BusyUnits(t) /\ \A v \in u+1..t-1 : ~BusyAt(v)

\* What the loop has counted in the first t units, and which process it remembers.
StatsAre(t) ==
  /\ runtime_stats[t] = [last_pid             |-> runtime_stats[t].last_pid,
                         cpu_time             |-> Cardinality(BusyUnits(t)),
                         idle_time            |-> Cardinality(IdleUnits(t)),
                         context_switch_count |-> Cardinality(HandOvers(t))]
  /\ \/ BusyUnits(t) = {} /\ runtime_stats[t].last_pid = None
     \/ \E u \in 0..t-1 : IsLastBusy(u, t) /\ runtime_stats[t].last_pid = timeline[u]

\* One more unit, busy or idle, adds at most itself to each of the sets.
LEMMA UnitsFacts ==
  ASSUME NEW n \in Nat
  PROVE  /\ IsFiniteSet(BusyUnits(n)) /\ IsFiniteSet(IdleUnits(n)) /\ IsFiniteSet(HandOvers(n))
         /\ n \notin BusyUnits(n) /\ n \notin IdleUnits(n) /\ n \notin HandOvers(n)
         /\ BusyUnits(n + 1) = IF BusyAt(n) THEN BusyUnits(n) \union {n} ELSE BusyUnits(n)
         /\ IdleUnits(n + 1) = IF BusyAt(n) THEN IdleUnits(n) ELSE IdleUnits(n) \union {n}
         /\ HandOvers(n + 1) =
              IF BusyAt(n) /\ \E s \in 0..n-1 : IsLastBusy(s, n) /\ timeline[s] # timeline[n]
              THEN HandOvers(n) \union {n} ELSE HandOvers(n)
<1>1. IsFiniteSet(BusyUnits(n)) /\ IsFiniteSet(IdleUnits(n)) /\ IsFiniteSet(HandOvers(n))
  <2>1. IsFiniteSet(0..n-1)
    BY FS_Interval
  <2>2. BusyUnits(n) \subseteq 0..n-1 /\ IdleUnits(n) \subseteq 0..n-1 /\ HandOvers(n) \subseteq 0..n-1
    BY DEF BusyUnits, IdleUnits, HandOvers
  <2> QED  BY <2>1, <2>2, FS_Subset
<1>2. n \notin 0..n-1 /\ n \in 0..(n + 1)-1 /\ \A u : u \in 0..(n + 1)-1 <=> u \in 0..n-1 \/ u = n
  OBVIOUS
<1>3. n \notin BusyUnits(n) /\ n \notin IdleUnits(n) /\ n \notin HandOvers(n)
  BY <1>2 DEF BusyUnits, IdleUnits, HandOvers
<1>4. /\ BusyUnits(n + 1) = IF BusyAt(n) THEN BusyUnits(n) \union {n} ELSE BusyUnits(n)
      /\ IdleUnits(n + 1) = IF BusyAt(n) THEN IdleUnits(n) ELSE IdleUnits(n) \union {n}
  BY <1>2 DEF BusyUnits, IdleUnits
<1> DEFINE Over(u) == BusyAt(u) /\ \E s \in 0..u-1 : /\ BusyAt(s) /\ timeline[s] # timeline[u]
                                                    /\ \A v \in s+1..u-1 : ~BusyAt(v)
<1>5. Over(n) <=> BusyAt(n) /\ \E s \in 0..n-1 : IsLastBusy(s, n) /\ timeline[s] # timeline[n]
  BY DEF IsLastBusy, BusyUnits
<1>6. HandOvers(n) = {u \in 0..n-1 : Over(u)} /\ HandOvers(n + 1) = {u \in 0..(n + 1)-1 : Over(u)}
  BY DEF HandOvers
<1> HIDE DEF Over
<1>7. HandOvers(n + 1) = IF Over(n) THEN HandOvers(n) \union {n} ELSE HandOvers(n)
  BY <1>2, <1>6
<1> QED  BY <1>1, <1>3, <1>4, <1>5, <1>7

LEMMA StatsCount == CpuTyped => StatsAre(current_time)
<1> SUFFICES ASSUME CpuTyped  PROVE StatsAre(current_time)
  OBVIOUS
<1> DEFINE T == {n \in Nat : n <= current_time => StatsAre(n)}
<1>1. /\ MAX_TIME \in Nat /\ current_time \in Nat /\ current_time <= MAX_TIME
      /\ \A u \in 0..current_time-1 : BusyAt(u) => timeline[u] # None
  BY CpuAssumption DEF CpuTyped, BusyAt, Idle, None
<1>2. 0 \in T
  <2>1. BusyUnits(0) = {} /\ IdleUnits(0) = {} /\ HandOvers(0) = {}
    BY DEF BusyUnits, IdleUnits, HandOvers
  <2>2. runtime_stats[0] = NoUnits
    BY <1>1, StatsSteps
  <2> QED  BY <2>1, <2>2, FS_EmptySet DEF StatsAre, NoUnits
<1>3. ASSUME NEW n \in T  PROVE n + 1 \in T
  <2>0. n \in Nat /\ n + 1 \in Nat /\ (n <= current_time => StatsAre(n))
    BY <1>3
  <2> SUFFICES ASSUME n + 1 <= current_time  PROVE StatsAre(n + 1)
    BY <2>0
  <2> HIDE DEF T
  <2> DEFINE old == runtime_stats[n]
             new == runtime_stats[n + 1]
  <2>1. StatsAre(n) /\ n \in 0..current_time-1 /\ n + 1 \in 1..MAX_TIME /\ (n + 1) - 1 = n
    BY <1>1, <2>0
  <2>2. new = CountUnit(old, timeline[n])
    <3>1. \A t \in 1..MAX_TIME : runtime_stats[t] = CountUnit(runtime_stats[t - 1], timeline[t - 1])
      BY <1>1, StatsSteps
    <3> QED  BY <2>1, <3>1
  <2> DEFINE p == old.last_pid
             c == Cardinality(BusyUnits(n))
             d == Cardinality(IdleUnits(n))
             h == Cardinality(HandOvers(n))
  <2>3. old = [last_pid |-> p, cpu_time |-> c, idle_time |-> d, context_switch_count |-> h]
    BY <2>1 DEF StatsAre
  <2>4. \/ BusyUnits(n) = {} /\ p = None
        \/ \E u \in 0..n-1 : IsLastBusy(u, n) /\ p = timeline[u]
    BY <2>1 DEF StatsAre
  <2>5. CASE BusyAt(n)
    <3>1. BusyUnits(n + 1) = BusyUnits(n) \union {n} /\ IdleUnits(n + 1) = IdleUnits(n)
      BY <2>0, <2>5, UnitsFacts
    <3>2. Cardinality(BusyUnits(n + 1)) = c + 1 /\ Cardinality(IdleUnits(n + 1)) = d
      BY <2>0, <3>1, UnitsFacts, FS_AddElement
    <3>3. p # None /\ p # timeline[n] <=> \E s \in 0..n-1 : IsLastBusy(s, n) /\ timeline[s] # timeline[n]
      <4>1. CASE BusyUnits(n) = {} /\ p = None
        BY <4>1 DEF IsLastBusy
      <4>2. CASE \E u \in 0..n-1 : IsLastBusy(u, n) /\ p = timeline[u]
        <5>1. PICK u \in 0..n-1 : IsLastBusy(u, n) /\ p = timeline[u]
          BY <4>2
        <5>2. \A s \in 0..n-1 : IsLastBusy(s, n) => s = u
          BY <2>0, <5>1 DEF IsLastBusy, BusyUnits
        <5>3. p # None
          BY <1>1, <2>1, <5>1 DEF IsLastBusy, BusyUnits
        <5> QED  BY <5>1, <5>2, <5>3
      <4> QED  BY <2>4, <4>1, <4>2
    <3>4. Cardinality(HandOvers(n + 1)) = IF p # None /\ p # timeline[n] THEN h + 1 ELSE h
      BY <2>0, <2>5, <3>3, UnitsFacts, FS_AddElement
    <3>5. new = [last_pid |-> timeline[n], cpu_time |-> c + 1, idle_time |-> d,
                 context_switch_count |-> IF p # None /\ p # timeline[n] THEN h + 1 ELSE h]
      <4>1. timeline[n] # Idle
        BY <2>5 DEF BusyAt
      <4> HIDE DEF p, c, d, h, old, new
      <4>2. /\ old.last_pid = p /\ old.cpu_time = c /\ old.idle_time = d /\ old.context_switch_count = h
            /\ DOMAIN old = {"last_pid", "cpu_time", "idle_time", "context_switch_count"}
        BY <2>3
      <4>3. new = [old EXCEPT !.cpu_time = c + 1, !.last_pid = timeline[n],
                              !.context_switch_count = IF p # None /\ p # timeline[n] THEN h + 1 ELSE h]
        BY <2>2, <4>1, <4>2 DEF CountUnit
      <4> QED  BY <2>3, <4>3
    <3>6. n \in 0..(n + 1)-1 /\ IsLastBusy(n, n + 1)
      BY <2>0, <2>5 DEF IsLastBusy, BusyUnits
    <3> HIDE DEF p, c, d, h, old
    <3> QED  BY <3>2, <3>4, <3>5, <3>6 DEF StatsAre
  <2>6. CASE ~BusyAt(n)
    <3>1. BusyUnits(n + 1) = BusyUnits(n) /\ IdleUnits(n + 1) = IdleUnits(n) \union {n} /\ HandOvers(n + 1) = HandOvers(n)
      BY <2>0, <2>6, UnitsFacts
    <3>2. Cardinality(IdleUnits(n + 1)) = d + 1
      BY <2>0, <3>1, UnitsFacts, FS_AddElement
    <3>3. new = [last_pid |-> p, cpu_time |-> c, idle_time |-> d + 1, context_switch_count |-> h]
      <4> HIDE DEF p, c, d, h
      <4> QED  BY <2>2, <2>3, <2>6 DEF CountUnit, BusyAt
    <3>4. ASSUME NEW u \in 0..n-1, IsLastBusy(u, n)  PROVE u \in 0..(n + 1)-1 /\ IsLastBusy(u, n + 1)
      BY <2>0, <2>6, <3>1, <3>4 DEF IsLastBusy
    <3>5. \/ BusyUnits(n + 1) = {} /\ p = None
          \/ \E u \in 0..(n + 1)-1 : IsLastBusy(u, n + 1) /\ p = timeline[u]
      <4> HIDE DEF p
      <4> QED  BY <2>4, <3>1, <3>4
    <3> HIDE DEF p, old
    <3> QED  BY <3>1, <3>2, <3>3, <3>5 DEF StatsAre
  <2> QED  BY <2>5, <2>6
<1>4. T = Nat
  <2> HIDE DEF T
  <2> QED  BY <1>2, <1>3, Induction DEF T
<1> QED  BY <1>1, <1>4

\* the CPU time the PCBs say was used, process by process
CpuTimes == [i \in Procs |-> consumed_cpu_time(i)]

LEMMA ConsumedIs == MapThenSumSet(consumed_cpu_time, Procs) = Total(CpuTimes)
<1> DEFINE f == CpuTimes
           P(h) == h = [s \in SUBSET Procs |-> IF s = {} THEN 0 ELSE consumed_cpu_time(CHOOSE x \in s : TRUE)
                                                                      + h[s \ {CHOOSE x \in s : TRUE}]]
           Q(h) == Sums(h, Procs, f)
<1>1. MapThenSumSet(consumed_cpu_time, Procs) = (CHOOSE h : P(h))[Procs]
  BY DEF MapThenSumSet, MapThenFoldSet
<1>2. Total(f) = (CHOOSE h : Q(h))[Procs]
  BY DEF Total, SumsOf, CpuTimes
<1>3. ASSUME NEW h  PROVE P(h) <=> Q(h)
  <2>1. \A s \in SUBSET Procs : s # {} => f[NextOf(s)] = consumed_cpu_time(CHOOSE x \in s : TRUE)
    BY DEF NextOf, CpuTimes
  <2>2. [s \in SUBSET Procs |-> IF s = {} THEN 0 ELSE consumed_cpu_time(CHOOSE x \in s : TRUE)
                                                       + h[s \ {CHOOSE x \in s : TRUE}]]
        = [s \in SUBSET Procs |-> IF s = {} THEN 0 ELSE f[NextOf(s)] + h[s \ {NextOf(s)}]]
    BY <2>1 DEF NextOf
  <2> QED  BY <2>2 DEF Sums
<1>4. (CHOOSE h : P(h)) = (CHOOSE h : Q(h))
  <2> HIDE DEF P, Q
  <2> QED  BY <1>3, Zenon
<1> HIDE DEF P, Q, f
<1> QED  BY <1>1, <1>2, <1>4 DEF f

\* The busy units are those of the processes, added up.
LEMMA CpuTimeIs ==
  ASSUME CpuInv
  PROVE  cpu_time = MapThenSumSet(consumed_cpu_time, Procs) /\ cpu_time = Cardinality(BusyUnits(current_time))
<1> DEFINE f == [i \in Procs |-> consumed_cpu_time(i)]
           Of(n) == {t \in 0..current_time-1 : timeline[t] \in 1..n}
           T == {n \in Nat : n <= N => Cardinality(Of(n)) = Upto(f, n)}
<1>1. N \in Nat /\ CpuTyped /\ current_time \in Nat /\ Procs = 1..N
  BY CpuAssumption DEF CpuInv, CpuTyped, Procs
<1>2. \A i \in Procs : consumed_cpu_time(i) = Ran(i, current_time) /\ Ran(i, current_time) \in Nat
  <2> TAKE i \in Procs
  <2>1. /\ Ran(i, current_time) \in Nat /\ Ran(i, current_time) + remaining_time[i] = work[i].burst
        /\ remaining_time[i] \in Nat
    BY <1>1, RanType DEF CpuInv, CpuTyped, CpuTimeUsed
  <2> QED  BY <2>1 DEF consumed_cpu_time
<1>3. /\ f \in [1..N -> Int] /\ \A i \in 1..N : f[i] = Ran(i, current_time)
      /\ \A n \in 0..N-1 : n + 1 \in 1..N
  BY <1>1, <1>2
<1>4. MapThenSumSet(consumed_cpu_time, Procs) = Total(f)
  BY ConsumedIs DEF CpuTimes
<1> HIDE DEF f
<1>5. /\ Upto(f, 0) = 0 /\ Total(f) = Upto(f, N)
      /\ \A n \in 0..N-1 : Upto(f, n + 1) = f[n + 1] + Upto(f, n)
  BY <1>1, <1>3, UptoFacts
<1>6. \A n : IsFiniteSet(Of(n))
  <2>1. IsFiniteSet(0..current_time-1)
    BY <1>1, FS_Interval
  <2> QED  BY <2>1, FS_Subset
<1>7. 0 \in T
  <2>1. Of(0) = {}
    OBVIOUS
  <2>2. Cardinality({}) = 0
    BY FS_EmptySet
  <2> QED  BY <1>5, <2>1, <2>2
<1>8. ASSUME NEW n \in T  PROVE n + 1 \in T
  <2>0. n \in Nat /\ n + 1 \in Nat /\ (n <= N => Cardinality(Of(n)) = Upto(f, n))
    BY <1>8
  <2> SUFFICES ASSUME n + 1 <= N  PROVE Cardinality(Of(n + 1)) = Upto(f, n + 1)
    BY <2>0
  <2> HIDE DEF T
  <2> DEFINE S == {t \in 0..current_time-1 : timeline[t] = n + 1}
  <2>1. n \in Nat /\ n \in 0..N-1 /\ n + 1 \in 1..N /\ Cardinality(Of(n)) = Upto(f, n)
    BY <1>1, <2>0
  <2>2. Of(n + 1) = Of(n) \union S /\ Of(n) \cap S = {}
    <3>1. \A j : j \in 1..(n + 1) <=> j \in 1..n \/ j = n + 1
      BY <2>1
    <3>2. n + 1 \notin 1..n
      BY <2>1
    <3> QED  BY <3>1, <3>2
  <2>3. IsFiniteSet(Of(n)) /\ IsFiniteSet(S)
    <3>1. IsFiniteSet(0..current_time-1)
      BY <1>1, FS_Interval
    <3> QED  BY <1>6, <3>1, FS_Subset
  <2>4. Cardinality(Of(n) \union S) = Cardinality(Of(n)) + Cardinality(S)
    <3>1. Cardinality(Of(n) \union S) = Cardinality(Of(n)) + Cardinality(S) - Cardinality(Of(n) \cap S)
      BY <2>3, FS_Union
    <3>2. Cardinality(Of(n) \cap S) = 0
      BY <2>2, FS_EmptySet
    <3>3. Cardinality(Of(n)) \in Nat /\ Cardinality(S) \in Nat
      BY <2>3, FS_CardinalityType
    <3> QED  BY <3>1, <3>2, <3>3
  <2>5. Cardinality(S) = f[n + 1]
    BY <1>3, <2>1 DEF Ran
  <2>6. Upto(f, n + 1) = f[n + 1] + Upto(f, n)
    BY <1>5, <2>1
  <2>7. Cardinality(Of(n)) \in Nat /\ Cardinality(S) \in Nat
    BY <2>3, FS_CardinalityType
  <2>8. PICK c, d \in Nat : c = Cardinality(Of(n)) /\ d = Cardinality(S)
    BY <2>7
  <2>9. Cardinality(Of(n + 1)) = c + d
    BY <2>2, <2>4, <2>8
  <2>10. Upto(f, n + 1) = d + c
    BY <2>1, <2>5, <2>6, <2>8
  <2> QED  BY <2>9, <2>10
<1>9. T = Nat
  <2> HIDE DEF T
  <2> QED  BY <1>7, <1>8, Induction DEF T
<1>10. Cardinality(Of(N)) = Total(f)
  BY <1>1, <1>5, <1>9
<1>12. cpu_time = Cardinality(BusyUnits(current_time))
  BY <1>1, StatsCount DEF StatsAre, cpu_time, end_time
<1>11. cpu_time = Cardinality(Of(N))
  <2>1. \A t \in 0..current_time-1 : BusyAt(t) <=> timeline[t] \in 1..N
    <3> TAKE t \in 0..current_time-1
    <3>1. t \in 0..MAX_TIME-1
      BY <1>1, CpuAssumption DEF CpuTyped
    <3>2. timeline[t] \in Procs \union {Idle} /\ Idle \notin 1..N
      BY <1>1, <3>1 DEF CpuTyped, Idle
    <3> QED  BY <1>1, <3>2 DEF BusyAt
  <2>2. BusyUnits(current_time) = Of(N)
    BY <2>1 DEF BusyUnits
  <2> QED  BY <1>12, <2>2
<1> QED  BY <1>4, <1>10, <1>11, <1>12

\* The idle units are those the promise allows.
LEMMA StatsMatch == CpuInv /\ Legal => StatsMatchTimeline
<1> SUFFICES ASSUME CpuInv, Legal  PROVE StatsMatchTimeline
  OBVIOUS
<1>1. StatsAre(current_time)
  BY StatsCount DEF CpuInv
<1>2. idle_time = Cardinality(IdleUnits(current_time)) /\ context_switch_count = Cardinality(HandOvers(end_time))
  BY <1>1 DEF StatsAre, idle_time, context_switch_count, end_time
<1>3. IdleUnits(current_time) = NothingToRun
  <2>1. \A t \in 0..current_time-1 : ~BusyAt(t) <=> \A i \in Procs : ~Runnable(i, t)
    <3> TAKE t \in 0..current_time-1
    <3>1. timeline[t] \in Procs \union {Idle}
      BY CpuAssumption DEF CpuInv, CpuTyped
    <3> QED  BY <3>1 DEF Legal, BusyAt
  <2> QED  BY <2>1 DEF IdleUnits, NothingToRun, end_time
<1> QED  BY <1>2, <1>3, CpuTimeIs DEF StatsMatchTimeline

\* What calculate_runtime_stats counts in its one pass over the timeline, for every
\* algorithm that implements CpuSpec: CPU time is what the PCBs say was used, idle time
\* the units in which no process could run, and context switches the units in which
\* another process than the last one has the CPU, whatever idle time lies between.
THEOREM CountsAreTrue == CpuSpec => []StatsMatchTimeline
<1>1. CpuInit => Legal
  BY DEF CpuInit, Legal
<1> QED  BY <1>1, NextKeepsLegal, StatsMatch, CpuInvariance, PTL DEF CpuSpec

-----------------------------------------------------------------------------
(* The times of a process                                                   *)

\* The first and the last unit of p[i] are the ones its PCB remembers.
Stamped(i) ==
  /\ first_run_time[i] = None => \A u \in 0..current_time-1 : timeline[u] # i
  /\ first_run_time[i] # None => /\ first_run_time[i] \in 0..current_time-1
                                 /\ timeline[first_run_time[i]] = i
                                 /\ \A u \in 0..first_run_time[i]-1 : timeline[u] # i
  /\ finish_time[i] # None => /\ completed[i] /\ finish_time[i] \in 1..current_time
                              /\ timeline[finish_time[i]-1] = i
                              /\ \A u \in finish_time[i]..current_time-1 : timeline[u] # i

Stamps == \A i \in Procs : Stamped(i)

LEMMA InitStamps == CpuInit => Stamps
  BY DEF CpuInit, Stamps, Stamped, None

\* Another process has the unit, or none.
LEMMA OthersStamped ==
  ASSUME CpuInv, Accounts, current_time < MAX_TIME, NEW x, timeline' = [timeline EXCEPT ![current_time] = x],
         current_time' = current_time + 1, NEW i \in Procs, i # x, Stamped(i),
         completed'[i] = completed[i], finish_time'[i] = finish_time[i], first_run_time'[i] = first_run_time[i]
  PROVE  Stamped(i)'
<1>1. /\ current_time \in Nat /\ current_time \in 0..MAX_TIME-1
      /\ finish_time[i] \in Nat \union {None} /\ first_run_time[i] \in Nat \union {None}
      /\ timeline \in [0..MAX_TIME-1 -> Procs \union {Idle}]
  BY CpuAssumption DEF CpuInv, CpuTyped, Accounts, TimesTyped
<1>2. timeline'[current_time] = x /\ \A u \in 0..current_time-1 : timeline'[u] = timeline[u]
  BY <1>1
<1>3. \A u : u \in 0..current_time'-1 <=> u \in 0..current_time-1 \/ u = current_time
  BY <1>1
<1> DEFINE F == first_run_time[i]
           E == finish_time[i]
<1>4. F = None => \A u \in 0..current_time'-1 : timeline'[u] # i
  BY <1>2, <1>3 DEF Stamped
<1>5. F # None => /\ F \in 0..current_time'-1 /\ timeline'[F] = i /\ \A u \in 0..F-1 : timeline'[u] # i
  <2> SUFFICES ASSUME F # None
               PROVE  F \in 0..current_time'-1 /\ timeline'[F] = i /\ \A u \in 0..F-1 : timeline'[u] # i
    OBVIOUS
  <2>1. F \in 0..current_time-1 /\ timeline[F] = i /\ \A u \in 0..F-1 : timeline[u] # i
    BY DEF Stamped
  <2>2. \A u \in 0..F-1 : u \in 0..current_time-1
    BY <1>1, <2>1
  <2> QED  BY <1>2, <1>3, <2>1, <2>2
<1>6. E # None => /\ completed[i] /\ E \in 1..current_time' /\ timeline'[E-1] = i
                  /\ \A u \in E..current_time'-1 : timeline'[u] # i
  <2> SUFFICES ASSUME E # None
               PROVE  /\ completed[i] /\ E \in 1..current_time' /\ timeline'[E-1] = i
                      /\ \A u \in E..current_time'-1 : timeline'[u] # i
    OBVIOUS
  <2>1. completed[i] /\ E \in 1..current_time /\ timeline[E-1] = i /\ \A u \in E..current_time-1 : timeline[u] # i
    BY DEF Stamped
  <2>2. E \in 1..current_time' /\ E - 1 \in 0..current_time-1
    BY <1>1, <2>1
  <2>3. \A u \in E..current_time'-1 : u = current_time \/ (u \in E..current_time-1 /\ u \in 0..current_time-1)
    BY <1>1, <2>1
  <2> QED  BY <1>2, <2>1, <2>2, <2>3
<1>7. F' = F /\ E' = E /\ completed'[i] = completed[i]
  OBVIOUS
<1> HIDE DEF F, E
<1> QED  BY <1>4, <1>5, <1>6, <1>7 DEF Stamped, F, E

LEMMA RunnerStamped ==
  ASSUME CpuInv, Accounts, current_time < MAX_TIME, NEW i \in Procs, is_available(i), Execute(i), Stamped(i)
  PROVE  Stamped(i)'
<1>1. /\ current_time \in Nat /\ current_time \in 0..MAX_TIME-1
      /\ finish_time[i] \in Nat \union {None} /\ first_run_time[i] \in Nat \union {None}
      /\ timeline \in [0..MAX_TIME-1 -> Procs \union {Idle}]
  BY CpuAssumption DEF CpuInv, CpuTyped, Accounts, TimesTyped
<1>2. /\ timeline' = [timeline EXCEPT ![current_time] = i] /\ current_time' = current_time + 1
      /\ first_run_time'[i] = IF first_run_time[i] = None THEN current_time ELSE first_run_time[i]
      /\ finish_time'[i] = IF Outcome(i) = "finished" THEN current_time + 1 ELSE finish_time[i]
      /\ completed'[i] = (Outcome(i) = "finished")
  BY DEF Execute, CpuInv, CpuTyped, Accounts, TimesTyped
<1>3. finish_time[i] = None
  BY DEF is_available, Stamped
<1>4. timeline'[current_time] = i /\ \A u \in 0..current_time-1 : timeline'[u] = timeline[u]
  BY <1>1, <1>2
<1> DEFINE F == first_run_time[i]
           G == first_run_time'[i]
           E == finish_time'[i]
<1>5. G # None /\ G \in 0..current_time'-1 /\ timeline'[G] = i /\ \A u \in 0..G-1 : timeline'[u] # i
  <2>1. CASE F = None
    <3>1. G = current_time
      BY <1>2, <2>1
    <3>2. \A u \in 0..current_time-1 : timeline[u] # i
      BY <2>1 DEF Stamped
    <3> HIDE DEF G
    <3> QED  BY <1>1, <1>2, <1>4, <3>1, <3>2 DEF None
  <2>2. CASE F # None
    <3>1. G = F
      BY <1>2, <2>2
    <3>2. F \in 0..current_time-1 /\ timeline[F] = i /\ \A u \in 0..F-1 : timeline[u] # i
      BY <2>2 DEF Stamped
    <3>3. \A u \in 0..F-1 : u \in 0..current_time-1
      BY <1>1, <3>2
    <3>4. F \in 0..current_time'-1
      BY <1>1, <1>2, <3>2
    <3> HIDE DEF G
    <3> QED  BY <1>4, <2>2, <3>1, <3>2, <3>3, <3>4
  <2> QED  BY <2>1, <2>2
<1>6. E # None => /\ completed'[i] /\ E \in 1..current_time' /\ timeline'[E-1] = i
                  /\ \A u \in E..current_time'-1 : timeline'[u] # i
  <2> SUFFICES ASSUME E # None
               PROVE  /\ completed'[i] /\ E \in 1..current_time' /\ timeline'[E-1] = i
                      /\ \A u \in E..current_time'-1 : timeline'[u] # i
    OBVIOUS
  <2>1. completed'[i] /\ E = current_time + 1
    BY <1>2, <1>3
  <2>2. E = current_time' /\ E - 1 = current_time /\ E \in 1..current_time' /\ E..current_time'-1 = {}
    <3> HIDE DEF E
    <3> QED  BY <1>1, <1>2, <2>1
  <2> HIDE DEF E
  <2> QED  BY <1>4, <2>1, <2>2
<1> HIDE DEF G, E
<1> QED  BY <1>5, <1>6 DEF Stamped, G, E

LEMMA NextKeepsStamps == CpuInv /\ Accounts /\ Stamps /\ [CpuNext]_cpuVars => Stamps'
<1> SUFFICES ASSUME CpuInv, Accounts, Stamps, [CpuNext]_cpuVars, NEW i \in Procs  PROVE Stamped(i)'
  <2>1. Procs' = Procs
    BY DEF Procs
  <2> QED  BY <2>1 DEF Stamps
<1>1. Stamped(i)
  BY DEF Stamps
<1>2. CASE IdleStep
  <2>1. /\ timeline' = [timeline EXCEPT ![current_time] = Idle] /\ current_time' = current_time + 1
        /\ UNCHANGED <<first_run_time, finish_time, completed>> /\ current_time < MAX_TIME
    BY <1>2 DEF IdleStep, PassTime, Simulating, pcbVars
  <2>2. i # Idle
    BY CpuAssumption DEF Procs, Idle
  <2> QED  BY <1>1, <2>1, <2>2, OthersStamped
<1>3. ASSUME NEW j \in Procs, RunStep(j)  PROVE Stamped(i)'
  <2>1. is_available(j) /\ Execute(j) /\ current_time < MAX_TIME
    BY <1>3 DEF RunStep, Simulating
  <2>2. CASE i = j
    BY <1>1, <2>1, <2>2, RunnerStamped
  <2>3. CASE i # j
    <3>1. timeline' = [timeline EXCEPT ![current_time] = j] /\ current_time' = current_time + 1
      BY <2>1 DEF Execute
    <3>2. /\ completed'[i] = completed[i] /\ finish_time'[i] = finish_time[i]
          /\ first_run_time'[i] = first_run_time[i]
      BY <2>1, <2>3 DEF Execute, CpuInv, CpuTyped, Accounts, TimesTyped
    <3> QED  BY <1>1, <2>1, <2>3, <3>1, <3>2, OthersStamped
  <2> QED  BY <2>2, <2>3
<1>4. CASE UNCHANGED cpuVars
  BY <1>1, <1>4 DEF cpuVars, Stamped
<1> QED  BY <1>2, <1>3, <1>4 DEF CpuNext, Stopped

LEMMA ExtremesAre ==
  ASSUME NEW S, S \subseteq Int, NEW x \in S
  PROVE  /\ (\A y \in S : y <= x) => Max(S) = x
         /\ (\A y \in S : x <= y) => Min(S) = x
<1>1. ASSUME \A y \in S : y <= x  PROVE Max(S) = x
  <2>1. \E m \in S : \A y \in S : m >= y
    BY <1>1
  <2>2. Max(S) \in S /\ \A y \in S : Max(S) >= y
    BY <2>1, Zenon DEF Max
  <2>3. PICK m \in S : m = Max(S)
    BY <2>2
  <2>4. m \in Int /\ x \in Int /\ m >= x /\ m <= x
    BY <1>1, <2>2, <2>3
  <2>5. m = x
    BY <2>4
  <2> QED  BY <2>3, <2>5
<1>2. ASSUME \A y \in S : x <= y  PROVE Min(S) = x
  <2>1. Min(S) \in S /\ \A y \in S : Min(S) <= y
    BY <1>2, Zenon DEF Min
  <2>2. PICK m \in S : m = Min(S)
    BY <2>1
  <2>3. m \in Int /\ x \in Int /\ m <= x /\ x <= m
    BY <1>2, <2>1, <2>2
  <2>4. m = x
    BY <2>3
  <2> QED  BY <2>2, <2>4
<1> QED  BY <1>1, <1>2

\* the response time lasts to the first unit, the turnaround time to the end of the last
LEMMA TimesAreShown ==
  ASSUME CpuInv, Accounts, Stamps, NEW i \in Procs, Valid(i)
  PROVE  /\ response_time(i)   = Min(Shows(i)) - work[i].arrival
         /\ turnaround_time(i) = (Max(Shows(i)) + 1) - work[i].arrival
<1> DEFINE F == first_run_time[i]
           E == finish_time[i]
           S == Shows(i)
<1>1. current_time \in Nat /\ F \in Nat \union {None} /\ E \in Nat /\ E # None /\ work[i].arrival \in Nat
  BY WorkFacts DEF CpuInv, CpuTyped, Accounts, TimesTyped, Valid, None
<1>2. S = {t \in 0..current_time-1 : timeline[t] = i}
  BY DEF Shows, end_time
<1>3. E \in 1..current_time /\ timeline[E-1] = i /\ \A u \in E..current_time-1 : timeline[u] # i
  BY <1>1 DEF Stamps, Stamped
<1>4. E - 1 \in S /\ \A u \in S : u <= E - 1
  <2> HIDE DEF E, S
  <2>1. E - 1 \in 0..current_time-1
    BY <1>1, <1>3
  <2>2. \A u \in 0..current_time-1 : u \in E..current_time-1 \/ u <= E - 1
    BY <1>1
  <2> QED  BY <1>2, <1>3, <2>1, <2>2
<1>5. F # None
  <2>1. E - 1 \in 0..current_time-1
    BY <1>2, <1>4
  <2> QED  BY <1>3, <2>1 DEF Stamps, Stamped
<1>6. F \in S /\ \A u \in S : F <= u
  <2>1. F \in 0..current_time-1 /\ timeline[F] = i /\ \A u \in 0..F-1 : timeline[u] # i
    BY <1>5 DEF Stamps, Stamped
  <2> HIDE DEF F, S
  <2>2. \A u \in 0..current_time-1 : u \in 0..F-1 \/ F <= u
    BY <1>1, <2>1
  <2> QED  BY <1>2, <2>1, <2>2
<1>7. S \subseteq Int
  BY <1>2
<1> HIDE DEF E, F, S
<1>8. Max(S) + 1 = E
  <2>1. PICK e \in Int : e = E - 1
    BY <1>1
  <2>2. Max(S) = e
    BY <1>4, <1>7, <2>1, ExtremesAre
  <2> QED  BY <1>1, <2>1, <2>2
<1>9. Min(S) = F
  BY <1>6, <1>7, ExtremesAre
<1>10. response_time(i) = F - work[i].arrival /\ turnaround_time(i) = E - work[i].arrival
  BY DEF response_time, turnaround_time, F, E
<1>11. response_time(i) = Min(S) - work[i].arrival
  BY <1>9, <1>10, Zenon
<1>12. turnaround_time(i) = (Max(S) + 1) - work[i].arrival
  BY <1>8, <1>10, Zenon
<1> QED  BY <1>11, <1>12, Zenon DEF S

\* a process that finished and could reach its I/O events has performed them all
LEMMA AllIoDone ==
  ASSUME CpuInv, NEW i \in Procs, completed[i], Reachable(work[i])
  PROVE  IoTime(i) = total_io_time(i)
<1>1. /\ Len(work[i].io) \in Nat /\ next_io[i] \in Nat /\ DOMAIN work[i].io = 1..Len(work[i].io)
      /\ next_io[i] <= Len(work[i].io) /\ work \in Workloads
      /\ \A k \in 1..Len(work[i].io) :
            /\ k <= next_io[i] <=> work[i].io[k].start \in 1..Ran(i, current_time)
            /\ work[i].io[k].start \in Nat /\ work[i].io[k].start < work[i].burst
  BY WorkFacts DEF CpuInv, CpuTyped, IoReached
<1>2. Ran(i, current_time) = work[i].burst
  <2>1. /\ Ran(i, current_time) \in Nat /\ remaining_time[i] = 0
        /\ Ran(i, current_time) + remaining_time[i] = work[i].burst
    BY RanType DEF CpuInv, CpuTyped, CpuTimeUsed
  <2> QED  BY <2>1
<1>3. next_io[i] = Len(work[i].io)
  <2> SUFFICES ASSUME Len(work[i].io) \in 1..Len(work[i].io), ~(Len(work[i].io) <= next_io[i])  PROVE FALSE
    BY <1>1
  <2>1. PICK k \in 1..Len(work[i].io) : k = Len(work[i].io)
    OBVIOUS
  <2>2. work[i].io[k].start >= 1
    BY <1>1, <2>1 DEF Reachable
  <2>3. work[i].io[k].start \in 1..work[i].burst
    BY <1>1, <2>1, <2>2, WorkFacts
  <2>4. k <= next_io[i]
    BY <1>1, <1>2, <2>3
  <2> QED  BY <2>1, <2>4
<1> QED  BY <1>1, <1>3, IoTimeIs, BurstFacts DEF IoTime

LEMMA AccountsMatch == CpuInv /\ Accounts /\ Stamps => MetricsMatchTimeline
<1> SUFFICES ASSUME CpuInv, Accounts, Stamps  PROVE MetricsMatchTimeline
  OBVIOUS
<1>1. ASSUME NEW i \in Procs, Valid(i), Reachable(work[i])
      PROVE  waiting_time(i) = ReadyTicks(i) /\ response_time(i) <= waiting_time(i)
  <2>1. /\ Accounted(i) /\ finish_time[i] \in Nat \union {-1} /\ first_run_time[i] \in Nat \union {-1}
        /\ work[i].arrival \in Nat /\ work[i].burst \in Nat \ {0}
    <3>1. work[i].arrival \in Nat /\ work[i].burst \in Nat \ {0}
      BY WorkFacts DEF CpuInv, CpuTyped
    <3> QED  BY <3>1 DEF Accounts, TimesTyped, None
  <2>2. finish_time[i] \in Nat /\ finish_time[i] # None
    BY <1>1, <2>1 DEF Valid, None
  <2>3. completed[i] /\ finish_time[i] - work[i].arrival = ReadyTicks(i) + work[i].burst + IoTime(i)
    BY <2>1, <2>2 DEF Accounted
  <2>4. IoTime(i) = total_io_time(i)
    BY <1>1, <2>3, AllIoDone
  <2>5. IoTime(i) \in Nat
    BY WorkFacts, BurstFacts DEF IoTime, CpuInv, CpuTyped, IoReached
  <2>6. ReadyTicks(i) \in Nat
    <3>1. IsFiniteSet(0..current_time-1)
      BY FS_Interval DEF CpuInv, CpuTyped
    <3>2. IsFiniteSet({t \in 0..current_time-1 : Runnable(i, t) /\ timeline[t] # i})
      BY <3>1, FS_Subset
    <3> QED  BY <3>2, FS_CardinalityType DEF ReadyTicks, end_time
  <2>7. waiting_time(i) = finish_time[i] - work[i].arrival - work[i].burst - total_io_time(i)
    BY DEF waiting_time, turnaround_time
  <2>8. waiting_time(i) = ReadyTicks(i)
    BY <2>1, <2>2, <2>3, <2>4, <2>5, <2>6, <2>7
  <2>9. Ran(i, current_time) # 0
    <3>1. Ran(i, current_time) + 0 = work[i].burst /\ Ran(i, current_time) \in Nat
      BY <2>3, RanType DEF CpuInv, CpuTyped, CpuTimeUsed
    <3> QED  BY <2>1, <3>1
  <2>10. response_time(i) \in 0..ReadyTicks(i)
    BY <2>1, <2>9 DEF Accounted, response_time
  <2> QED  BY <2>8, <2>10
<1> QED  BY <1>1, TimesAreShown DEF MetricsMatchTimeline

\* What calculate_metrics computes from a PCB is what the timeline shows, for every
\* algorithm that implements CpuSpec: the response time lasts to the start of the
\* process's first unit, the turnaround time to the end of its last, and the waiting time is
\* the number of units it was ready and did not run.
THEOREM MetricsAreTrue == CpuSpec => []MetricsMatchTimeline
  BY InitAccounts, NextKeepsAccounts, InitStamps, NextKeepsStamps, AccountsMatch, CpuInvariance, PTL
     DEF CpuSpec

-----------------------------------------------------------------------------
(* Enough time                                                              *)

\* the CPU and I/O time of each process
Needs == [i \in 1..N |-> work[i].burst + Total(Bursts(i))]

LEMMA NeedsFacts ==
  ASSUME work \in Workloads
  PROVE  /\ N \in Nat /\ Procs = 1..N /\ Needs \in [1..N -> Nat]
         /\ \A i \in Procs : /\ total_io_time(i) \in Nat /\ work[i].burst \in Nat \ {0}
                             /\ Needs[i] = work[i].burst + total_io_time(i)
         /\ MapThenSumSet(LAMBDA i : work[i].burst + total_io_time(i), Procs) = Total(Needs)
<1> DEFINE P(h) == h = [s \in SUBSET Procs |->
                          IF s = {} THEN 0 ELSE (work[CHOOSE x \in s : TRUE].burst + total_io_time(CHOOSE x \in s : TRUE))
                                                  + h[s \ {CHOOSE x \in s : TRUE}]]
           Q(h) == Sums(h, Procs, Needs)
<1>1. N \in Nat /\ Procs = 1..N
  BY CpuAssumption DEF Procs
<1>2. \A i \in Procs : /\ total_io_time(i) = Total(Bursts(i)) /\ Total(Bursts(i)) \in Nat
                       /\ work[i].burst \in Nat \ {0}
  <2> TAKE i \in Procs
  <2>1. total_io_time(i) = Total(Bursts(i)) /\ work[i].burst \in Nat \ {0}
    BY IoTimeIs, WorkFacts
  <2>2. Total(Bursts(i)) \in Nat
    BY BurstFacts
  <2> QED  BY <2>1, <2>2
<1>3. /\ DOMAIN Needs = Procs
      /\ \A i \in Procs : Needs[i] = work[i].burst + total_io_time(i) /\ Needs[i] \in Nat
  BY <1>1, <1>2 DEF Needs
<1>4. Needs \in [1..N -> Nat]
  BY <1>1, <1>3 DEF Needs
<1>5. MapThenSumSet(LAMBDA i : work[i].burst + total_io_time(i), Procs) = (CHOOSE h : P(h))[Procs]
  BY DEF MapThenSumSet, MapThenFoldSet
<1>6. Total(Needs) = (CHOOSE h : Q(h))[Procs]
  BY <1>3 DEF Total, SumsOf
<1>7. ASSUME NEW h  PROVE P(h) <=> Q(h)
  <2>1. \A s \in SUBSET Procs : s # {} =>
           Needs[NextOf(s)] = work[CHOOSE x \in s : TRUE].burst + total_io_time(CHOOSE x \in s : TRUE)
    BY <1>3 DEF NextOf
  <2>2. [s \in SUBSET Procs |->
           IF s = {} THEN 0 ELSE (work[CHOOSE x \in s : TRUE].burst + total_io_time(CHOOSE x \in s : TRUE))
                                   + h[s \ {CHOOSE x \in s : TRUE}]]
        = [s \in SUBSET Procs |-> IF s = {} THEN 0 ELSE Needs[NextOf(s)] + h[s \ {NextOf(s)}]]
    BY <2>1 DEF NextOf
  <2> QED  BY <2>2 DEF Sums
<1>8. (CHOOSE h : P(h)) = (CHOOSE h : Q(h))
  <2> HIDE DEF P, Q
  <2> QED  BY <1>7, Zenon
<1> HIDE DEF P, Q
<1> QED  BY <1>1, <1>2, <1>3, <1>4, <1>5, <1>6, <1>8

\* no process arrives after the last arrival
LEMMA LastArrival ==
  ASSUME work \in Workloads
  PROVE  LET last == Max({work[i].arrival : i \in Procs} \union {0})
         IN  last \in Nat /\ \A i \in Procs : work[i].arrival <= last
<1> DEFINE a(i) == IF i = 0 THEN 0 ELSE work[i].arrival
           S == {work[i].arrival : i \in Procs} \union {0}
           T == {n \in Nat : n <= N => \E i \in 0..n : \A j \in 0..n : a(j) <= a(i)}
<1>1. N \in Nat /\ Procs = 1..N /\ \A i \in 0..N : a(i) \in Nat
  <2>1. N \in Nat /\ Procs = 1..N
    BY CpuAssumption DEF Procs
  <2>2. \A i \in Procs : work[i].arrival \in Nat
    BY WorkFacts
  <2> QED  BY <2>1, <2>2
<1>2. S = {a(i) : i \in 0..N}
  <2>1. \A i \in Procs : i \in 0..N /\ a(i) = work[i].arrival
    BY <1>1
  <2>2. \A i \in 0..N : i \in Procs \/ i = 0
    BY <1>1
  <2>3. 0 \in 0..N /\ a(0) = 0
    BY <1>1
  <2> HIDE DEF a
  <2>4. S \subseteq {a(i) : i \in 0..N}
    BY <2>1, <2>3
  <2>5. {a(i) : i \in 0..N} \subseteq S
    BY <2>1, <2>2, <2>3
  <2> HIDE DEF S
  <2> QED  BY <2>4, <2>5
<1> HIDE DEF a, S
<1>3. 0 \in T
  BY <1>1
<1>4. ASSUME NEW n \in T  PROVE n + 1 \in T
  <2>0. n \in Nat /\ n + 1 \in Nat /\ (n <= N => \E i \in 0..n : \A j \in 0..n : a(j) <= a(i))
    BY <1>4
  <2> SUFFICES ASSUME n + 1 <= N  PROVE \E i \in 0..n+1 : \A j \in 0..n+1 : a(j) <= a(i)
    BY <2>0
  <2>1. PICK i \in 0..n : \A j \in 0..n : a(j) <= a(i)
    BY <1>1, <2>0
  <2>2. i \in 0..n+1 /\ n + 1 \in 0..n+1 /\ \A j \in 0..n+1 : (j \in 0..n \/ j = n + 1) /\ a(j) \in Nat
    BY <1>1, <2>0
  <2>3. CASE a(n + 1) <= a(i)
    BY <2>1, <2>2, <2>3
  <2>4. CASE ~(a(n + 1) <= a(i))
    <3>1. \A j \in 0..n+1 : a(j) <= a(n + 1)
      BY <2>1, <2>2, <2>4
    <3> QED  BY <2>2, <3>1
  <2> QED  BY <2>3, <2>4
<1>5. T = Nat
  <2> HIDE DEF T
  <2> QED  BY <1>3, <1>4, Induction DEF T
<1>6. \E x \in S : \A y \in S : x >= y
  <2>1. PICK i \in 0..N : \A j \in 0..N : a(j) <= a(i)
    <3> HIDE DEF T
    <3>1. N \in T
      BY <1>1, <1>5
    <3>2. N \in Nat /\ \E i \in 0..N : \A j \in 0..N : a(j) <= a(i)
      BY <3>1 DEF T
    <3> QED  BY <3>2
  <2>2. a(i) \in S /\ \A y \in S : a(i) >= y
    BY <1>1, <1>2, <2>1
  <2> QED  BY <2>2
<1> DEFINE last == Max(S)
<1>7. last \in S /\ \A y \in S : last >= y
  BY <1>6, Zenon DEF Max
<1>8. S \subseteq Nat /\ \A i \in Procs : work[i].arrival \in S
  BY <1>1, <1>2 DEF S
<1> HIDE DEF last
<1>9. last \in Nat /\ \A i \in Procs : work[i].arrival <= last
  BY <1>7, <1>8
<1> QED  BY <1>9 DEF last, S

\* EnoughTime, with the sum over a list
Enough == Max({work[i].arrival : i \in Procs} \union {0}) + Total(Needs) <= MAX_TIME

LEMMA EnoughIs == work \in Workloads => (EnoughTime <=> Enough)
  BY NeedsFacts DEF EnoughTime, Enough

\* A process that is not finished was waiting for the CPU time of others, running, or in
\* its own I/O all the time since it arrived.
LEMMA EnoughFinishes ==
  ASSUME CpuInv, Legal, Accounts, Enough, ~Simulating
  PROVE  all_completed
<1> SUFFICES ASSUME NEW i \in Procs, ~completed[i]  PROVE FALSE
  BY DEF all_completed, CpuInv, CpuTyped
<1> DEFINE last == Max({work[j].arrival : j \in Procs} \union {0})
           f == [j \in Procs |-> consumed_cpu_time(j)]
           Waits == {t \in 0..current_time-1 : Runnable(i, t) /\ timeline[t] # i}
           Runs  == {t \in 0..current_time-1 : timeline[t] = i}
           Busy  == {t \in 0..current_time-1 : BusyAt(t)}
<1>1. /\ CpuTyped /\ work \in Workloads /\ current_time = MAX_TIME /\ current_time \in Nat /\ MAX_TIME \in Nat
      /\ N \in Nat /\ Procs = 1..N
  <2>1. ~all_completed
    BY DEF all_completed
  <2> QED  BY <2>1, CpuAssumption DEF CpuInv, CpuTyped, Simulating, Procs
<1>2. last \in Nat /\ work[i].arrival <= last /\ work[i].arrival \in Nat
  BY <1>1, LastArrival, WorkFacts
<1>3. \A j \in Procs : /\ f[j] = Ran(j, current_time) /\ f[j] \in Nat /\ f[j] <= work[j].burst
                       /\ work[j].burst \in Nat
  <2> TAKE j \in Procs
  <2>1. /\ Ran(j, current_time) \in Nat /\ Ran(j, current_time) + remaining_time[j] = work[j].burst
        /\ remaining_time[j] \in Nat /\ work[j].burst \in Nat
    BY <1>1, RanType, WorkFacts DEF CpuInv, CpuTyped, CpuTimeUsed
  <2> QED  BY <2>1 DEF consumed_cpu_time
<1>4. f[i] < work[i].burst
  <2>1. /\ Ran(i, current_time) \in Nat /\ Ran(i, current_time) + remaining_time[i] = work[i].burst
        /\ remaining_time[i] \in Nat /\ remaining_time[i] # 0
    BY <1>1, RanType DEF CpuInv, CpuTyped, CpuTimeUsed
  <2> QED  BY <1>3, <2>1
<1>5. /\ Needs \in [1..N -> Nat] /\ \A j \in Procs : Needs[j] = work[j].burst + total_io_time(j) /\ total_io_time(j) \in Nat
  BY <1>1, NeedsFacts
<1>6. f \in [1..N -> Int] /\ Needs \in [1..N -> Int]
  BY <1>1, <1>3, <1>5
<1>7. \A j \in 1..N : f[j] <= Needs[j]
  <2> TAKE j \in 1..N
  <2>1. /\ f[j] \in Nat /\ f[j] <= work[j].burst /\ work[j].burst \in Nat
        /\ Needs[j] = work[j].burst + total_io_time(j) /\ total_io_time(j) \in Nat
    BY <1>1, <1>3, <1>5
  <2> HIDE DEF f
  <2> QED  BY <2>1
<1>8. Total(f) + (Needs[i] - f[i]) <= Total(Needs)
  <2> HIDE DEF f
  <2> QED  BY <1>1, <1>6, <1>7, TotalExceeds
<1>9. Total(f) \in Int /\ Total(Needs) \in Nat
  <2> HIDE DEF f
  <2>1. \A g \in [1..N -> Int] : Upto(g, 0) = 0 /\ Total(g) = Upto(g, N) /\ Upto(g, N) \in Int
    <3> TAKE g \in [1..N -> Int]
    <3>1. Upto(g, 0) = 0 /\ Total(g) = Upto(g, N) /\ \A k \in 0..N : Upto(g, k) \in Int
      BY <1>1, UptoFacts
    <3> QED  BY <1>1, <3>1
  <2>2. Upto(Needs, 0) <= Upto(Needs, N)
    BY <1>1, <1>5, UptoGrows
  <2> QED  BY <1>6, <2>1, <2>2
<1>10. last + Total(Needs) <= current_time
  BY <1>1 DEF Enough
<1>11. work[i].arrival <= current_time
  BY <1>1, <1>2, <1>9, <1>10
<1>12. IoTime(i) <= total_io_time(i) /\ IoTime(i) \in Nat /\ total_io_time(i) \in Nat
  <2>1. /\ next_io[i] \in 0..Len(work[i].io) /\ Len(work[i].io) \in Nat
        /\ Bursts(i) \in [1..Len(work[i].io) -> Nat] /\ Total(Bursts(i)) = Upto(Bursts(i), Len(work[i].io))
        /\ IoTime(i) \in Nat
    BY <1>1, BurstFacts DEF CpuInv, IoReached, CpuTyped, IoTime
  <2>2. Upto(Bursts(i), next_io[i]) <= Upto(Bursts(i), Len(work[i].io))
    BY <2>1, UptoGrows
  <2> QED  BY <1>1, <1>5, <2>1, <2>2, IoTimeIs DEF IoTime
<1>13. current_time - work[i].arrival = ReadyTicks(i) + Ran(i, current_time) + IoTime(i) - Rest(i)
  BY <1>11 DEF Accounts, Accounted
<1>14. Rest(i) \in Nat
  <2>1. blocked_until[i] \in Nat \union {-1}
    BY <1>1 DEF CpuTyped, None
  <2> QED  BY <1>1, <2>1 DEF Rest
<1>15. IsFiniteSet(Waits) /\ IsFiniteSet(Runs) /\ IsFiniteSet(Busy)
  <2>1. IsFiniteSet(0..current_time-1)
    BY <1>1, FS_Interval
  <2> QED  BY <2>1, FS_Subset
<1>16. ReadyTicks(i) = Cardinality(Waits) /\ Ran(i, current_time) = Cardinality(Runs) /\ cpu_time = Cardinality(Busy)
  BY CpuTimeIs DEF ReadyTicks, Ran, BusyUnits, end_time
<1>17. Waits \union Runs \subseteq Busy /\ Waits \cap Runs = {}
  <2>1. \A t \in 0..current_time-1 : timeline[t] = Idle => ~Runnable(i, t)
    BY DEF Legal
  <2>2. i # Idle
    BY <1>1 DEF Idle
  <2> QED  BY <2>1, <2>2 DEF BusyAt
<1>18. ReadyTicks(i) + Ran(i, current_time) <= cpu_time /\ ReadyTicks(i) \in Nat /\ cpu_time \in Nat
  <2>1. Cardinality(Waits \union Runs) = Cardinality(Waits) + Cardinality(Runs) - Cardinality(Waits \cap Runs)
    BY <1>15, FS_Union
  <2>2. Cardinality(Waits \cap Runs) = 0
    BY <1>17, FS_EmptySet
  <2>3. Cardinality(Waits \union Runs) <= Cardinality(Busy)
    BY <1>15, <1>17, FS_Subset
  <2>4. Cardinality(Waits) \in Nat /\ Cardinality(Runs) \in Nat /\ Cardinality(Busy) \in Nat
    BY <1>15, FS_CardinalityType
  <2> HIDE DEF Waits, Runs, Busy
  <2> QED  BY <1>16, <2>1, <2>2, <2>3, <2>4
<1>19. cpu_time = Total(f)
  BY CpuTimeIs, ConsumedIs DEF CpuTimes
<1>20. /\ Needs[i] = work[i].burst + total_io_time(i) /\ work[i].burst \in Nat
       /\ f[i] = Ran(i, current_time) /\ f[i] \in Nat /\ f[i] < work[i].burst
  BY <1>3, <1>4, <1>5
<1> DEFINE K == ReadyTicks(i)
           R == Ran(i, current_time)
           D == IoTime(i)
           r == Rest(i)
           a == work[i].arrival
           b == work[i].burst
           o == total_io_time(i)
           c == cpu_time
           s == Total(Needs)
<1>21. /\ current_time \in Nat /\ last \in Nat /\ a \in Nat /\ a <= last /\ last + s <= current_time
       /\ K \in Nat /\ R \in Nat /\ D \in Nat /\ o \in Nat /\ D <= o /\ r \in Nat /\ b \in Nat /\ c \in Nat /\ s \in Nat
       /\ K + R <= c /\ current_time - a = K + R + D - r /\ R < b
       /\ c + ((b + o) - R) <= s
  <2> HIDE DEF f, last
  <2> QED  BY <1>1, <1>2, <1>8, <1>9, <1>10, <1>12, <1>13, <1>14, <1>18, <1>19, <1>20
<1> HIDE DEF K, R, D, r, a, b, o, c, s, last
<1> QED  BY <1>21

-----------------------------------------------------------------------------
(* The comparison of the algorithms                                         *)

LEMMA WaitingSum ==
  ASSUME NEW S, IsFiniteSet(S), \A i \in S : waiting_time(i) \in Int
  PROVE  MapThenSumSet(waiting_time, S) \in Int /\ MapThenSumSet(waiting_time, S) = Total([i \in S |-> waiting_time(i)])
<1> DEFINE f == [i \in S |-> waiting_time(i)]
           P(h) == h = [s \in SUBSET S |-> IF s = {} THEN 0 ELSE waiting_time(CHOOSE x \in s : TRUE)
                                                                + h[s \ {CHOOSE x \in s : TRUE}]]
           Q(h) == Sums(h, S, f)
<1>1. MapThenSumSet(waiting_time, S) = (CHOOSE h : P(h))[S]
  BY DEF MapThenSumSet, MapThenFoldSet
<1>2. Total(f) = (CHOOSE h : Q(h))[S]
  BY DEF Total, SumsOf
<1>3. ASSUME NEW h  PROVE P(h) <=> Q(h)
  <2>1. \A s \in SUBSET S : s # {} => f[NextOf(s)] = waiting_time(CHOOSE x \in s : TRUE)
    BY DEF NextOf
  <2>2. [s \in SUBSET S |-> IF s = {} THEN 0 ELSE waiting_time(CHOOSE x \in s : TRUE)
                                                 + h[s \ {CHOOSE x \in s : TRUE}]]
        = [s \in SUBSET S |-> IF s = {} THEN 0 ELSE f[NextOf(s)] + h[s \ {NextOf(s)}]]
    BY <2>1 DEF NextOf
  <2> QED  BY <2>2 DEF Sums
<1>4. (CHOOSE h : P(h)) = (CHOOSE h : Q(h))
  <2> HIDE DEF P, Q
  <2> QED  BY <1>3, Zenon
<1>5. f \in [S -> Int] /\ DOMAIN f = S
  OBVIOUS
<1> HIDE DEF P, Q, f
<1>6. \A s \in SUBSET S : SumsOf(f, S)[s] \in Int
  BY <1>5, SumsFacts
<1>7. Total(f) \in Int
  BY <1>5, <1>6 DEF Total
<1> QED  BY <1>1, <1>2, <1>4, <1>7 DEF f

LEMMA TurnaroundSum ==
  ASSUME NEW S, IsFiniteSet(S), \A i \in S : turnaround_time(i) \in Int
  PROVE  MapThenSumSet(turnaround_time, S) \in Int /\ MapThenSumSet(turnaround_time, S) = Total([i \in S |-> turnaround_time(i)])
<1> DEFINE f == [i \in S |-> turnaround_time(i)]
           P(h) == h = [s \in SUBSET S |-> IF s = {} THEN 0 ELSE turnaround_time(CHOOSE x \in s : TRUE)
                                                                + h[s \ {CHOOSE x \in s : TRUE}]]
           Q(h) == Sums(h, S, f)
<1>1. MapThenSumSet(turnaround_time, S) = (CHOOSE h : P(h))[S]
  BY DEF MapThenSumSet, MapThenFoldSet
<1>2. Total(f) = (CHOOSE h : Q(h))[S]
  BY DEF Total, SumsOf
<1>3. ASSUME NEW h  PROVE P(h) <=> Q(h)
  <2>1. \A s \in SUBSET S : s # {} => f[NextOf(s)] = turnaround_time(CHOOSE x \in s : TRUE)
    BY DEF NextOf
  <2>2. [s \in SUBSET S |-> IF s = {} THEN 0 ELSE turnaround_time(CHOOSE x \in s : TRUE)
                                                 + h[s \ {CHOOSE x \in s : TRUE}]]
        = [s \in SUBSET S |-> IF s = {} THEN 0 ELSE f[NextOf(s)] + h[s \ {NextOf(s)}]]
    BY <2>1 DEF NextOf
  <2> QED  BY <2>2 DEF Sums
<1>4. (CHOOSE h : P(h)) = (CHOOSE h : Q(h))
  <2> HIDE DEF P, Q
  <2> QED  BY <1>3, Zenon
<1>5. f \in [S -> Int] /\ DOMAIN f = S
  OBVIOUS
<1> HIDE DEF P, Q, f
<1>6. \A s \in SUBSET S : SumsOf(f, S)[s] \in Int
  BY <1>5, SumsFacts
<1>7. Total(f) \in Int
  BY <1>5, <1>6 DEF Total
<1> QED  BY <1>1, <1>2, <1>4, <1>7 DEF f

LEMMA ResponseSum ==
  ASSUME NEW S, IsFiniteSet(S), \A i \in S : response_time(i) \in Int
  PROVE  MapThenSumSet(response_time, S) \in Int /\ MapThenSumSet(response_time, S) = Total([i \in S |-> response_time(i)])
<1> DEFINE f == [i \in S |-> response_time(i)]
           P(h) == h = [s \in SUBSET S |-> IF s = {} THEN 0 ELSE response_time(CHOOSE x \in s : TRUE)
                                                                + h[s \ {CHOOSE x \in s : TRUE}]]
           Q(h) == Sums(h, S, f)
<1>1. MapThenSumSet(response_time, S) = (CHOOSE h : P(h))[S]
  BY DEF MapThenSumSet, MapThenFoldSet
<1>2. Total(f) = (CHOOSE h : Q(h))[S]
  BY DEF Total, SumsOf
<1>3. ASSUME NEW h  PROVE P(h) <=> Q(h)
  <2>1. \A s \in SUBSET S : s # {} => f[NextOf(s)] = response_time(CHOOSE x \in s : TRUE)
    BY DEF NextOf
  <2>2. [s \in SUBSET S |-> IF s = {} THEN 0 ELSE response_time(CHOOSE x \in s : TRUE)
                                                 + h[s \ {CHOOSE x \in s : TRUE}]]
        = [s \in SUBSET S |-> IF s = {} THEN 0 ELSE f[NextOf(s)] + h[s \ {NextOf(s)}]]
    BY <2>1 DEF NextOf
  <2> QED  BY <2>2 DEF Sums
<1>4. (CHOOSE h : P(h)) = (CHOOSE h : Q(h))
  <2> HIDE DEF P, Q
  <2> QED  BY <1>3, Zenon
<1>5. f \in [S -> Int] /\ DOMAIN f = S
  OBVIOUS
<1> HIDE DEF P, Q, f
<1>6. \A s \in SUBSET S : SumsOf(f, S)[s] \in Int
  BY <1>5, SumsFacts
<1>7. Total(f) \in Int
  BY <1>5, <1>6 DEF Total
<1> QED  BY <1>1, <1>2, <1>4, <1>7 DEF f

\* a row of results[]
Result == [valid_count : Nat, waiting : Int, turnaround : Int, response : Int]

\* what a process waited and what it needed make up its turnaround time, and so do the sums
LEMMA MetricsFacts ==
  ASSUME CpuInv, Accounts
  PROVE  /\ calculate_metrics \in Result
         /\ calculate_metrics.valid_count = N =>
               calculate_metrics.turnaround = calculate_metrics.waiting + Total(Needs)
         /\ all_completed => calculate_metrics.valid_count = N
         /\ N = 0 => calculate_metrics.waiting = 0
<1> DEFINE S == {i \in Procs : Valid(i)}
           M == calculate_metrics
<1>1. work \in Workloads /\ N \in Nat /\ Procs = 1..N
  BY CpuAssumption DEF CpuInv, CpuTyped, Procs
<1>2. ASSUME NEW i \in Procs
      PROVE  /\ waiting_time(i) \in Int /\ turnaround_time(i) \in Int /\ response_time(i) \in Int
             /\ Needs[i] \in Int /\ turnaround_time(i) = waiting_time(i) + Needs[i]
  <2>1. /\ finish_time[i] \in Int /\ first_run_time[i] \in Int
    BY DEF Accounts, TimesTyped, None
  <2>2. work[i].arrival \in Nat
    BY <1>1, WorkFacts
  <2>3. /\ total_io_time(i) \in Nat /\ work[i].burst \in Nat /\ Needs[i] = work[i].burst + total_io_time(i)
    BY <1>1, NeedsFacts
  <2> QED  BY <2>1, <2>2, <2>3 DEF waiting_time, turnaround_time, response_time
<1>3. IsFiniteSet(Procs) /\ Cardinality(Procs) = N
  BY <1>1, FS_Interval
<1>4. IsFiniteSet(S) /\ Cardinality(S) \in Nat /\ (Cardinality(S) = N => S = Procs)
  BY <1>3, FS_Subset, FS_CardinalityType
<1>5. M = [valid_count |-> Cardinality(S), waiting |-> MapThenSumSet(waiting_time, S),
           turnaround |-> MapThenSumSet(turnaround_time, S), response |-> MapThenSumSet(response_time, S)]
  BY DEF calculate_metrics
<1>6. \A i \in S : waiting_time(i) \in Int /\ turnaround_time(i) \in Int /\ response_time(i) \in Int
  BY <1>2
<1>7. /\ MapThenSumSet(waiting_time, S) \in Int
      /\ MapThenSumSet(waiting_time, S) = Total([i \in S |-> waiting_time(i)])
  <2> HIDE DEF S
  <2> QED  BY <1>4, <1>6, WaitingSum
<1>8. /\ MapThenSumSet(turnaround_time, S) \in Int
      /\ MapThenSumSet(turnaround_time, S) = Total([i \in S |-> turnaround_time(i)])
  <2> HIDE DEF S
  <2> QED  BY <1>4, <1>6, TurnaroundSum
<1>9. MapThenSumSet(response_time, S) \in Int
  <2> HIDE DEF S
  <2> QED  BY <1>4, <1>6, ResponseSum
<1>10. M \in Result /\ M.valid_count = Cardinality(S) /\ M.waiting = MapThenSumSet(waiting_time, S)
       /\ M.turnaround = MapThenSumSet(turnaround_time, S)
  BY <1>4, <1>5, <1>7, <1>8, <1>9 DEF Result
<1>11. all_completed => S = Procs
  BY DEF all_completed, Accounts, Accounted, TimesTyped, Valid, None
<1>12. ASSUME S = Procs
       PROVE  M.turnaround = M.waiting + Total(Needs)
  <2> DEFINE w == [i \in Procs |-> waiting_time(i)]
             t == [i \in Procs |-> turnaround_time(i)]
  <2>1. w \in [1..N -> Int] /\ t \in [1..N -> Int] /\ \A i \in 1..N : t[i] = w[i] + Needs[i]
    BY <1>1, <1>2
  <2>2. Needs \in [1..N -> Int]
    <3>1. Needs \in [1..N -> Nat]
      BY <1>1, NeedsFacts
    <3> QED  BY <3>1
  <2>3. M.waiting = Total(w) /\ M.turnaround = Total(t)
    <3> HIDE DEF S, M
    <3> QED  BY <1>7, <1>8, <1>10, <1>12
  <2> HIDE DEF w, t, M
  <2>4. Total(t) = Total(w) + Total(Needs)
    BY <1>1, <2>1, <2>2, TotalAdds
  <2> QED  BY <2>3, <2>4
<1>13. ASSUME N = 0  PROVE M.waiting = 0
  <2> DEFINE w == [i \in S |-> waiting_time(i)]
  <2>1. S = {} /\ 1..N = {}
    BY <1>1, <1>13
  <2>2. w \in [1..N -> Int]
    BY <2>1
  <2>3. M.waiting = Total(w)
    <3> HIDE DEF S, M
    <3> QED  BY <1>7, <1>10
  <2> HIDE DEF w, M
  <2>4. Upto(w, 0) = 0 /\ Total(w) = Upto(w, N)
    BY <1>1, <2>2, UptoFacts
  <2> QED  BY <1>13, <2>3, <2>4
<1> HIDE DEF M, S
<1> QED  BY <1>3, <1>4, <1>10, <1>11, <1>12, <1>13 DEF M

CpuPart == CpuInv /\ Legal /\ Accounts /\ Stamps

MainTyped ==
  /\ use_aging \in BOOLEAN /\ stage \in {"simulate", "exit", "compare", "done"}
  /\ algorithm \in 1..algorithm_count
  /\ results \in Seq(Result)
  /\ Len(results) = IF stage \in {"simulate", "exit"} THEN algorithm - 1 ELSE algorithm_count
  /\ row \in 1..(algorithm_count + 1) /\ best \in [Metrics -> 1..algorithm_count]
  /\ stage \in {"simulate", "exit"} => row = 1
  /\ stage = "done" => row = algorithm_count + 1
  /\ row = 1 => \A m \in Metrics : best[m] = 1

RowsInv ==
  \A a \in 1..Len(results) :
     /\ results[a].valid_count = N => results[a].turnaround = results[a].waiting + Total(Needs)
     /\ N = 0 => results[a].waiting = 0
     /\ Enough => results[a].valid_count = N

\* the best of the rows compared so far
BestInv ==
  stage \in {"compare", "done"} /\ (\A a \in 1..Len(results) : results[a].valid_count = N) =>
    LET b == best["waiting"]
    IN  /\ best["turnaround"] = b
        /\ row > 1 => b < row
        /\ \A a \in 1..row-1 : /\ results[b].waiting <= results[a].waiting
                               /\ a < b => results[b].waiting < results[a].waiting

MainInv == CpuPart /\ MainTyped /\ RowsInv /\ BestInv

LEMMA CountPositive == MainTyped => algorithm_count \in Nat \ {0}
  BY MainAssumption DEF MainTyped, algorithm_count

LEMMA StartsWell == CpuInit => CpuPart
  BY InitCpu, InitAccounts, InitStamps DEF CpuPart, Legal, CpuInit

LEMMA InitMain == MainInit => MainInv
<1> SUFFICES ASSUME MainInit  PROVE MainInv
  OBVIOUS
<1>1. CpuPart
  BY StartsWell DEF MainInit
<1>2. algorithm_count \in Nat \ {0} /\ 1 \in 1..algorithm_count
  BY MainAssumption DEF MainInit, algorithm_count
<1>3. results = <<>> /\ Len(results) = 0
  BY DEF MainInit
<1>4. MainTyped
  BY <1>2, <1>3 DEF MainInit, MainTyped
<1>5. RowsInv /\ BestInv
  BY <1>3 DEF RowsInv, BestInv, MainInit
<1> QED  BY <1>1, <1>4, <1>5 DEF MainInv

\* the parts of the comparison do not look at the simulation, but for its workload
LEMMA MainPartKept ==
  ASSUME MainTyped, RowsInv, BestInv, work' = work, UNCHANGED mainVars
  PROVE  (MainTyped /\ RowsInv /\ BestInv)'
<1>1. UNCHANGED <<use_aging, algorithm, results, stage, row, best>>
  BY DEF mainVars
<1>2. algorithm_count' = algorithm_count
  BY <1>1 DEF algorithm_count
<1>3. Needs' = Needs /\ Enough' = Enough
  BY DEF Needs, Enough, Bursts
<1>4. MainTyped'
  BY <1>1, <1>2 DEF MainTyped
<1>5. RowsInv'
  BY <1>1, <1>3 DEF RowsInv
<1>6. BestInv'
  BY <1>1 DEF BestInv
<1> QED  BY <1>4, <1>5, <1>6

LEMMA CpuPartKept == CpuPart /\ [CpuNext]_cpuVars => CpuPart'
  BY NextKeepsCpu, NextKeepsLegal, NextKeepsAccounts, NextKeepsStamps DEF CpuPart

LEMMA StartsAgain == CpuInit' => CpuPart'
  BY StartsWell, PTL

LEMMA CopyStarts ==
  ASSUME CpuPart, copy_workload
  PROVE  CpuPart' /\ work' = work
<1>1. CpuInit' /\ work' = work
  BY DEF copy_workload, CpuInit, CpuPart, CpuInv, CpuTyped
<1> QED  BY <1>1, StartsAgain

LEMMA SimulateKeeps == ASSUME MainInv, Simulate  PROVE MainInv'
<1>1. [CpuNext]_cpuVars /\ UNCHANGED mainVars
  BY DEF Simulate, CpuNext
<1>2. CpuPart'
  BY <1>1, CpuPartKept DEF MainInv
<1>3. work' = work
  BY <1>1 DEF CpuNext, IdleStep, PassTime, RunStep, Execute, Stopped, cpuVars
<1> QED  BY <1>1, <1>2, <1>3, MainPartKept DEF MainInv

LEMMA OverflowKeeps == ASSUME MainInv, Overflow  PROVE MainInv'
<1>1. /\ UNCHANGED cpuVars /\ work' = work /\ stage = "simulate" /\ stage' = "exit"
      /\ UNCHANGED <<use_aging, algorithm, results, row, best>>
  BY DEF Overflow, cpuVars
<1>2. CpuPart'
  BY <1>1, CpuPartKept DEF MainInv
<1>3. algorithm_count' = algorithm_count /\ Needs' = Needs /\ Enough' = Enough
  BY <1>1 DEF algorithm_count, Needs, Enough, Bursts
<1>4. MainTyped'
  BY <1>1, <1>3 DEF MainInv, MainTyped
<1>5. RowsInv'
  BY <1>1, <1>3 DEF MainInv, RowsInv
<1>6. BestInv'
  BY <1>1 DEF BestInv
<1> QED  BY <1>2, <1>4, <1>5, <1>6 DEF MainInv

LEMMA NextAlgorithmKeeps == ASSUME MainInv, NextAlgorithm  PROVE MainInv'
<1>1. /\ stage = "simulate" /\ ~Simulating /\ results' = Append(results, calculate_metrics)
      /\ UNCHANGED <<use_aging, row, best>> /\ MainTyped /\ RowsInv /\ CpuPart
  BY DEF NextAlgorithm, MainInv
<1>2. /\ algorithm_count' = algorithm_count /\ algorithm_count \in Nat \ {0}
      /\ algorithm \in 1..algorithm_count /\ Len(results) = algorithm - 1 /\ results \in Seq(Result)
      /\ row = 1 /\ \A m \in Metrics : best[m] = 1
  BY <1>1, CountPositive DEF algorithm_count, MainTyped
<1>3. /\ calculate_metrics \in Result
      /\ calculate_metrics.valid_count = N =>
            calculate_metrics.turnaround = calculate_metrics.waiting + Total(Needs)
      /\ all_completed => calculate_metrics.valid_count = N
      /\ N = 0 => calculate_metrics.waiting = 0
  BY <1>1, MetricsFacts DEF CpuPart
<1>4. Enough => all_completed
  BY <1>1, EnoughFinishes DEF CpuPart
<1>5. CpuPart' /\ work' = work
  <2>1. CASE algorithm < algorithm_count
    BY <1>1, <2>1, CopyStarts DEF NextAlgorithm
  <2>2. CASE ~(algorithm < algorithm_count)
    <3>1. UNCHANGED cpuVars
      BY <2>2 DEF NextAlgorithm
    <3> QED  BY <1>1, <3>1, CpuPartKept DEF cpuVars
  <2> QED  BY <2>1, <2>2
<1>6. Needs' = Needs /\ Enough' = Enough
  BY <1>5 DEF Needs, Enough, Bursts
<1>7. results' \in Seq(Result) /\ Len(results') = algorithm
      /\ \A a \in 1..algorithm : results'[a] = IF a = algorithm THEN calculate_metrics ELSE results[a]
  <2> DEFINE M == calculate_metrics
  <2>1. M \in Result /\ results' = Append(results, M)
    BY <1>1, <1>3
  <2> HIDE DEF M
  <2>2. results' \in Seq(Result) /\ Len(results') = Len(results) + 1
        /\ \A a \in 1..(Len(results) + 1) : results'[a] = IF a = Len(results) + 1 THEN M ELSE results[a]
    BY <1>2, <2>1
  <2> QED  BY <1>2, <2>2 DEF M
<1>8. RowsInv'
  <2> SUFFICES ASSUME NEW a \in 1..algorithm
               PROVE  /\ results'[a].valid_count = N => results'[a].turnaround = results'[a].waiting + Total(Needs)
                      /\ N = 0 => results'[a].waiting = 0
                      /\ Enough => results'[a].valid_count = N
    BY <1>6, <1>7 DEF RowsInv
  <2>1. CASE a = algorithm
    <3>1. results'[a] = calculate_metrics
      BY <1>7, <2>1
    <3> QED  BY <1>3, <1>4, <3>1
  <2>2. CASE a # algorithm
    <3>1. a \in 1..Len(results) /\ results'[a] = results[a]
      BY <1>2, <1>7, <2>2
    <3> QED  BY <1>1, <3>1 DEF RowsInv
  <2> QED  BY <2>1, <2>2
<1>9. MainTyped'
  <2>1. CASE algorithm < algorithm_count
    <3>1. algorithm' = algorithm + 1 /\ stage' = stage
      BY <2>1 DEF NextAlgorithm
    <3> QED  BY <1>1, <1>2, <1>7, <2>1, <3>1 DEF MainTyped
  <2>2. CASE ~(algorithm < algorithm_count)
    <3>1. stage' = "compare" /\ algorithm' = algorithm /\ algorithm = algorithm_count
      BY <1>2, <2>2 DEF NextAlgorithm
    <3> QED  BY <1>1, <1>2, <1>7, <3>1 DEF MainTyped
  <2> QED  BY <2>1, <2>2
<1>10. BestInv'
  <2>1. row' = 1 /\ best' = best /\ "waiting" \in Metrics /\ "turnaround" \in Metrics
    BY <1>1, <1>2 DEF Metrics
  <2>2. best'["waiting"] = 1 /\ best'["turnaround"] = 1
    BY <1>2, <2>1
  <2> QED  BY <2>1, <2>2 DEF BestInv
<1> QED  BY <1>5, <1>8, <1>9, <1>10 DEF MainInv

\* A factor that is not 0 does not change an order.
LEMMA ScaledLess ==
  ASSUME NEW x \in Int, NEW y \in Int, NEW n \in Nat \ {0}
  PROVE  x * n < y * n <=> x < y
<1>1. \A z \in Nat \ {0} : z * n > 0
  OBVIOUS
<1>2. y * n - x * n = (y - x) * n /\ x * n - y * n = (x - y) * n /\ x * n \in Int /\ y * n \in Int
  OBVIOUS
<1>3. CASE x < y
  <2>1. y - x \in Nat \ {0}
    BY <1>3
  <2>2. (y - x) * n > 0
    BY <1>1, <2>1
  <2> QED  BY <1>2, <1>3, <2>2
<1>4. CASE x = y
  BY <1>4
<1>5. CASE x > y
  <2>1. x - y \in Nat \ {0}
    BY <1>5
  <2>2. (x - y) * n > 0
    BY <1>1, <2>1
  <2> QED  BY <1>2, <1>5, <2>2
<1> QED  BY <1>3, <1>4, <1>5

LEMMA LessIs ==
  ASSUME NEW r \in Result, NEW s \in Result, N \in Nat, r.valid_count = N, s.valid_count = N,
         N = 0 => r.waiting = 0 /\ s.waiting = 0, NEW c \in Nat,
         r.turnaround = r.waiting + c, s.turnaround = s.waiting + c
  PROVE  /\ Less(r, s, "waiting") <=> r.waiting < s.waiting
         /\ Less(r, s, "turnaround") <=> r.waiting < s.waiting
<1>1. r.waiting \in Int /\ s.waiting \in Int
  BY DEF Result
<1>2. CASE N = 0
  BY <1>1, <1>2 DEF Less
<1>3. CASE N # 0
  <2>1. \A m : Less(r, s, m) <=> r[m] * N < s[m] * N
    BY <1>3 DEF Less
  <2>2. r.waiting * N < s.waiting * N <=> r.waiting < s.waiting
    BY <1>1, <1>3, ScaledLess
  <2>3. r.turnaround * N < s.turnaround * N <=> r.turnaround < s.turnaround
    <3>1. r.turnaround \in Int /\ s.turnaround \in Int
      BY DEF Result
    <3> QED  BY <1>3, <3>1, ScaledLess
  <2>4. r.turnaround < s.turnaround <=> r.waiting < s.waiting
    BY <1>1
  <2> QED  BY <2>1, <2>2, <2>3, <2>4
<1> QED  BY <1>2, <1>3

LEMMA CompareRowKeeps == ASSUME MainInv, CompareRow  PROVE MainInv'
<1>1. /\ stage = "compare" /\ row <= algorithm_count /\ row' = row + 1
      /\ best' = [m \in Metrics |-> IF Less(results[row], results[best[m]], m) THEN row ELSE best[m]]
      /\ UNCHANGED <<use_aging, algorithm, results, stage>> /\ UNCHANGED cpuVars /\ work' = work
      /\ MainTyped /\ RowsInv /\ BestInv
  BY DEF CompareRow, MainInv, cpuVars
<1>2. CpuPart'
  BY <1>1, CpuPartKept DEF MainInv
<1>3. /\ algorithm_count' = algorithm_count /\ algorithm_count \in Nat \ {0}
      /\ Needs' = Needs /\ Enough' = Enough
      /\ row \in 1..algorithm_count /\ Len(results) = algorithm_count /\ results \in Seq(Result)
      /\ best \in [Metrics -> 1..algorithm_count]
  BY <1>1, CountPositive DEF algorithm_count, MainTyped, Needs, Enough, Bursts
<1>4. RowsInv'
  BY <1>1, <1>3 DEF RowsInv
<1>5. MainTyped'
  <2>1. row + 1 \in 1..(algorithm_count + 1) /\ row + 1 # 1
    BY <1>3
  <2>2. best' \in [Metrics -> 1..algorithm_count]
    BY <1>1, <1>3
  <2> QED  BY <1>1, <1>3, <2>1, <2>2 DEF MainTyped
<1>6. ASSUME \A a \in 1..Len(results) : results[a].valid_count = N
      PROVE  LET b == best'["waiting"]
             IN  /\ best'["turnaround"] = b
                 /\ row + 1 > 1 => b < row + 1
                 /\ \A a \in 1..row : /\ results[b].waiting <= results[a].waiting
                                      /\ a < b => results[b].waiting < results[a].waiting
  <2> DEFINE b == best["waiting"]
             w(a) == results[a].waiting
  <2>1. "waiting" \in Metrics /\ "turnaround" \in Metrics
    BY DEF Metrics
  <2>2. /\ best["turnaround"] = b /\ b \in 1..algorithm_count
        /\ row > 1 => b < row
        /\ row = 1 => b = 1
        /\ \A a \in 1..row-1 : w(b) <= w(a) /\ (a < b => w(b) < w(a))
    <3>1. b \in 1..algorithm_count /\ (row = 1 => best["waiting"] = 1)
      BY <1>1, <1>3, <2>1 DEF MainTyped
    <3>2. stage \in {"compare", "done"}
      BY <1>1
    <3>3. /\ best["turnaround"] = b /\ (row > 1 => b < row)
          /\ \A a \in 1..row-1 : w(b) <= w(a) /\ (a < b => w(b) < w(a))
      BY <1>1, <1>6, <3>2 DEF BestInv
    <3> QED  BY <3>1, <3>3
  <2>3. \A a \in 1..algorithm_count :
           /\ results[a] \in Result /\ w(a) \in Int /\ results[a].valid_count = N
           /\ results[a].turnaround = w(a) + Total(Needs)
           /\ N = 0 => w(a) = 0
    <3> TAKE a \in 1..algorithm_count
    <3>1. a \in 1..Len(results) /\ results[a] \in Result
      BY <1>3
    <3>2. results[a].valid_count = N /\ results[a].waiting \in Int
      BY <1>6, <3>1 DEF Result
    <3> QED  BY <1>1, <3>1, <3>2 DEF RowsInv
  <2>4. N \in Nat /\ Total(Needs) \in Nat
    <3>1. N \in Nat /\ Needs \in [1..N -> Nat]
      BY NeedsFacts, CpuAssumption DEF MainInv, CpuPart, CpuInv, CpuTyped
    <3>2. Needs \in [1..N -> Int]
      BY <3>1
    <3>3. Total(Needs) \in Int /\ Upto(Needs, 0) = 0 /\ Total(Needs) = Upto(Needs, N)
      <4>1. Upto(Needs, 0) = 0 /\ Total(Needs) = Upto(Needs, N) /\ \A k \in 0..N : Upto(Needs, k) \in Int
        BY <3>1, <3>2, UptoFacts
      <4> QED  BY <3>1, <4>1
    <3>4. Upto(Needs, 0) <= Upto(Needs, N)
      BY <3>1, UptoGrows
    <3> QED  BY <3>1, <3>3, <3>4
  <2>5. /\ Less(results[row], results[b], "waiting") <=> w(row) < w(b)
        /\ Less(results[row], results[b], "turnaround") <=> w(row) < w(b)
    BY <1>3, <2>2, <2>3, <2>4, LessIs
  <2>6. /\ best'["waiting"] = IF w(row) < w(b) THEN row ELSE b
        /\ best'["turnaround"] = IF w(row) < w(b) THEN row ELSE b
    BY <1>1, <2>1, <2>2, <2>5
  <2> DEFINE n == best'["waiting"]
  <2>7. n \in 1..row /\ best'["turnaround"] = n
    BY <1>3, <2>2, <2>6
  <2>8. n = IF w(row) < w(b) THEN row ELSE b
    BY <2>6
  <2>9. \A a \in 1..row : w(a) \in Int /\ (a \in 1..row-1 \/ a = row)
    BY <1>3, <2>3
  <2>10. w(b) \in Int
    BY <2>2, <2>3
  <2> HIDE DEF n, w, b
  <2>11. \A a \in 1..row : w(n) <= w(a) /\ (a < n => w(n) < w(a))
    <3> SUFFICES ASSUME NEW a \in 1..row  PROVE w(n) <= w(a) /\ (a < n => w(n) < w(a))
      OBVIOUS
    <3>0. w(a) \in Int /\ w(row) \in Int /\ row \in Nat
      BY <1>3, <2>9
    <3>1. CASE w(row) < w(b)
      <4>1. n = row
        BY <2>8, <3>1
      <4>2. CASE a = row
        BY <3>0, <4>1, <4>2
      <4>3. CASE a \in 1..row-1
        <5>1. w(b) <= w(a)
          BY <2>2, <4>3
        <5> QED  BY <2>10, <3>0, <3>1, <4>1, <5>1
      <4> QED  BY <2>9, <4>2, <4>3
    <3>2. CASE ~(w(row) < w(b))
      <4>1. n = b
        BY <2>8, <3>2
      <4>2. CASE a = row
        <5>1. ~(row < n)
          BY <1>3, <2>7
        <5> QED  BY <2>10, <3>0, <3>2, <4>1, <4>2, <5>1
      <4>3. CASE a \in 1..row-1
        BY <2>2, <4>1, <4>3
      <4> QED  BY <2>9, <4>2, <4>3
    <3> QED  BY <3>1, <3>2
  <2>12. n < row + 1
    BY <1>3, <2>7
  <2> QED  BY <2>7, <2>11, <2>12 DEF n, w
<1>7. BestInv'
  <2>1. row' - 1 = row
    BY <1>1, <1>3
  <2> QED  BY <1>1, <1>6, <2>1 DEF BestInv
<1> QED  BY <1>2, <1>4, <1>5, <1>7 DEF MainInv

LEMMA ReportKeeps == ASSUME MainInv, Report  PROVE MainInv'
<1>1. /\ stage = "compare" /\ row > algorithm_count /\ stage' = "done" /\ UNCHANGED cpuVars /\ work' = work
      /\ UNCHANGED <<use_aging, algorithm, results, row, best>>
      /\ MainTyped /\ RowsInv /\ BestInv
  BY DEF Report, MainInv, cpuVars
<1>2. CpuPart'
  BY <1>1, CpuPartKept DEF MainInv
<1>3. /\ algorithm_count' = algorithm_count /\ Needs' = Needs /\ Enough' = Enough
      /\ algorithm_count \in Nat \ {0}
  BY <1>1, CountPositive DEF algorithm_count, Needs, Enough, Bursts
<1>4. MainTyped'
  <2>1. row = algorithm_count + 1
    BY <1>1, <1>3 DEF MainTyped
  <2> QED  BY <1>1, <1>3, <2>1 DEF MainTyped
<1>5. RowsInv' /\ BestInv'
  BY <1>1, <1>3 DEF RowsInv, BestInv
<1> QED  BY <1>2, <1>4, <1>5 DEF MainInv

LEMMA MainKeeps == MainInv /\ [MainNext]_allVars => MainInv'
<1> SUFFICES ASSUME MainInv, [MainNext]_allVars  PROVE MainInv'
  OBVIOUS
<1>1. CASE UNCHANGED allVars
  <2>1. UNCHANGED cpuVars /\ work' = work /\ UNCHANGED mainVars
    BY <1>1 DEF allVars, cpuVars
  <2> QED  BY <2>1, CpuPartKept, MainPartKept DEF MainInv
<1> QED  BY <1>1, SimulateKeeps, OverflowKeeps, NextAlgorithmKeeps, CompareRowKeeps, ReportKeeps
         DEF MainNext, MainEnded

LEMMA MainInvariance == MainSpec => []MainInv
  BY InitMain, MainKeeps, PTL DEF MainSpec

\* Whatever algorithm main.c is at, and however the last one left the PCBs, the timeline
\* is legal and the metrics are those of this run: copy_workload starts every
\* algorithm from the same beginning.
THEOREM EveryRunIsLegal == MainSpec => [](TimelineIsLegal /\ MetricsMatchTimeline /\ StatsMatchTimeline)
<1>1. MainInv => TimelineIsLegal /\ MetricsMatchTimeline /\ StatsMatchTimeline
  BY LegalIsLegal, AccountsMatch, StatsMatch DEF MainInv, CpuPart
<1> QED  BY <1>1, MainInvariance, PTL

\* With as much time as the last arrival and all CPU and I/O times together, every
\* algorithm finishes every process, so that the metrics of compare_results leave none out.
THEOREM NothingIsLeftOut == MainSpec => []EnoughTimeFinishesAll
<1>1. MainInv => EnoughTimeFinishesAll
  <2> SUFFICES ASSUME MainInv, EnoughTime
               PROVE  /\ ~Simulating => all_completed
                      /\ \A a \in DOMAIN results : results[a].valid_count = throughput_count
    BY DEF EnoughTimeFinishesAll
  <2>1. Enough
    BY EnoughIs DEF MainInv, CpuPart, CpuInv, CpuTyped
  <2>2. DOMAIN results = 1..Len(results)
    BY DEF MainInv, MainTyped
  <2> QED  BY <2>1, <2>2, EnoughFinishes DEF MainInv, CpuPart, RowsInv, throughput_count
<1> QED  BY <1>1, MainInvariance, PTL

\* When every algorithm finished every process, compare_results names the same
\* algorithm for the waiting and the turnaround time, the first with the least total.
THEOREM WaitingAndTurnaroundAgree == MainSpec => []BestAgree
<1>1. MainInv => BestAgree
  <2> SUFFICES ASSUME MainInv, stage = "done", \A a \in DOMAIN results : results[a].valid_count = N
               PROVE  /\ best["waiting"] = best["turnaround"]
                      /\ \A a \in DOMAIN results :
                           /\ results[best["waiting"]].waiting <= results[a].waiting
                           /\ a < best["waiting"] => results[best["waiting"]].waiting < results[a].waiting
    BY DEF BestAgree
  <2>1. /\ DOMAIN results = 1..Len(results) /\ Len(results) = algorithm_count
        /\ row = algorithm_count + 1 /\ algorithm_count \in Nat
    BY CountPositive DEF MainInv, MainTyped
  <2>2. row - 1 = algorithm_count
    BY <2>1
  <2> QED  BY <2>1, <2>2 DEF MainInv, BestInv
<1> QED  BY <1>1, MainInvariance, PTL

=============================================================================
