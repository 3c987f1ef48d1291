---------------------------- MODULE SelectProofs ----------------------------
(***************************************************************************)
(* The five schedulers that compare processes, for every set of workloads, *)
(* number of processes and MAX_TIME.  SelInv adds to CpuInv, which relates *)
(* the timeline to the PCBs, what is true of current_process between two   *)
(* turns of a select_* loop; Ages and AgesAndStates say the same of        *)
(* waiting_age[] and of p[i].state, and AgingInv says who can have run     *)
(* since a waiting process reached the best priority.  SrtfInv follows     *)
(* preemptive SJF along the least sum of completion times.                 *)
(***************************************************************************)
EXTENDS SelectLoop, CpuProofs

-----------------------------------------------------------------------------
(* The select_* loops                                                       *)

SelTyped ==
  /\ alg \in {"sjf", "srtf", "priority", "preemptive_priority", "aging"}
  /\ aging_interval \in Nat \ {0}
  /\ waiting_age \in [Procs -> Nat]
  /\ current_process \in Procs \union {NoProc}

LEMMA MaxOfTwo == ASSUME NEW a \in Int, NEW b \in Int
                  PROVE  Max({a, b}) \in {a, b} /\ Max({a, b}) >= a /\ Max({a, b}) >= b
<1>1. \E x \in {a, b} : \A y \in {a, b} : x >= y
  OBVIOUS
<1> DEFINE m == Max({a, b})
<1>2. m \in {a, b} /\ \A y \in {a, b} : m >= y
  BY <1>1, Zenon DEF Max
<1> QED  BY <1>2

LEMMA KeyType ==
  ASSUME CpuTyped, SelTyped, NEW i \in Procs
  PROVE  /\ Key(i) \in Int
         /\ alg \notin {"sjf", "srtf", "aging"} => Key(i) = work[i].priority
<1>1. /\ remaining_time[i] \in Nat /\ next_io[i] \in Nat /\ waiting_age[i] \in Nat
      /\ work \in Workloads /\ aging_interval \in Nat \ {0}
  BY DEF CpuTyped, SelTyped
<1>2. /\ work[i].burst \in Nat /\ work[i].priority \in Nat /\ Len(work[i].io) \in Nat
      /\ \A k \in 1..Len(work[i].io) : work[i].io[k].start \in Nat
  BY <1>1, WorkFacts
<1>3. next_cpu_segment_remaining(i) \in Int
  <2>1. next_io[i] < Len(work[i].io) => next_io[i] + 1 \in 1..Len(work[i].io)
    BY <1>1, <1>2
  <2>2. next_io[i] < Len(work[i].io) => work[i].io[next_io[i] + 1].start \in Nat
    BY <1>2, <2>1
  <2>3. consumed_cpu_time(i) \in Int
    BY <1>1, <1>2 DEF consumed_cpu_time
  <2>4. CASE next_io[i] < Len(work[i].io)
    <3>1. PICK until_io \in Int : until_io = work[i].io[next_io[i] + 1].start - consumed_cpu_time(i)
      BY <2>2, <2>3, <2>4
    <3> QED  BY <1>1, <3>1 DEF next_cpu_segment_remaining
  <2>5. CASE ~(next_io[i] < Len(work[i].io))
    BY <1>1, <2>5 DEF next_cpu_segment_remaining
  <2> QED  BY <2>4, <2>5
<1>4. aged_priority(i) \in Int
  <2>1. waiting_age[i] \div aging_interval \in Int
    BY <1>1
  <2> DEFINE b == work[i].priority - waiting_age[i] \div aging_interval
  <2>2. b \in Int
    BY <1>2, <2>1
  <2>3. Max({1, b}) \in {1, b}
    <3> HIDE DEF b
    <3>1. 1 \in Int
      OBVIOUS
    <3> QED  BY <2>2, <3>1, MaxOfTwo, Zenon
  <2> QED  BY <2>2, <2>3 DEF aged_priority
<1> QED  BY <1>2, <1>3, <1>4 DEF Key

\* Before is a strict total order
LEMMA BeforeIsOrder ==
  ASSUME CpuTyped, SelTyped, NEW i \in Procs, NEW j \in Procs
  PROVE  /\ i # j => Before(i, j) \/ Before(j, i)
         /\ ~(Before(i, j) /\ Before(j, i))
         /\ ~Before(i, i)
         /\ \A k \in Procs : Before(i, j) /\ Before(j, k) => Before(i, k)
<1>1. \A k \in Procs : Key(k) \in Int /\ waiting_age[k] \in Int /\ work[k].arrival \in Int /\ k \in Int
  <2> SUFFICES ASSUME NEW k \in Procs
               PROVE  Key(k) \in Int /\ waiting_age[k] \in Int /\ work[k].arrival \in Int /\ k \in Int
    OBVIOUS
  <2>1. Key(k) \in Int
    BY KeyType
  <2>2. work \in Workloads /\ waiting_age[k] \in Int
    BY DEF CpuTyped, SelTyped
  <2>3. work[k].arrival \in Int
    BY <2>2, WorkFacts
  <2> QED  BY <2>1, <2>2, <2>3 DEF Procs
<1> QED  BY <1>1 DEF Before, TieBreak

\* a record of selected and key, before the first index
Nothing == [selected |-> NoProc, key |-> INF]

LEMMA ScanSteps == Scan[0] = Nothing /\ \A i \in 1..N : Scan[i] = Better(i, Scan[i - 1])
<1> DEFINE IsScan(f, n) == f = [i \in 0..n |-> IF i = 0 THEN Nothing ELSE Better(i, f[i - 1])]
           T == {n \in Nat : ~\E f : IsScan(f, n)}
<1>1. T = {}
  <2> SUFFICES ASSUME T # {}  PROVE FALSE
    OBVIOUS
  <2>1. PICK m \in T : \A n \in T : m <= n
    BY LeastNat
  <2>2. m # 0
    <3>1. IsScan([i \in 0..0 |-> Nothing], 0)
      OBVIOUS
    <3> QED  BY <3>1
  <2>3. m - 1 \in Nat /\ m - 1 \notin T
    <3>1. m \in Nat
      BY <2>1
    <3> HIDE DEF T
    <3> QED  BY <2>1, <2>2, <3>1
  <2>4. PICK f : IsScan(f, m - 1)
    BY <2>3
  <2> DEFINE g == [i \in 0..m |-> IF i = m THEN Better(m, f[m - 1]) ELSE f[i]]
  <2>5. IsScan(g, m)
    <3>1. \A i \in 0..m : i # 0 => g[i - 1] = f[i - 1]
      BY <2>3
    <3>2. \A i \in 0..m : g[i] = IF i = 0 THEN Nothing ELSE Better(i, g[i - 1])
      BY <2>2, <2>3, <2>4, <3>1
    <3> QED  BY <3>2
  <2> QED  BY <2>5
<1>2. \E f : IsScan(f, N)
  BY <1>1, CpuAssumption
<1>3. IsScan(Scan, N)
  BY <1>2 DEF Scan, Nothing
<1>4. 0 \in 0..N /\ \A i \in 1..N : i \in 0..N /\ i # 0
  BY CpuAssumption
<1> QED  BY <1>3, <1>4

\* What the loops have found among the candidates with the first n indices: none of
\* the others comes before it.
Found(n) ==
  LET seen == {i \in Candidates : i <= n}
  IN  IF seen = {} THEN Scan[n] = Nothing
      ELSE /\ Scan[n].selected \in seen
           /\ Scan[n] = [selected |-> Scan[n].selected, key |-> Key(Scan[n].selected)]
           /\ \A j \in seen \ {Scan[n].selected} : Before(Scan[n].selected, j)

LEMMA ScanFinds ==
  ASSUME CpuTyped, SelTyped
  PROVE  \A n \in 0..N : Found(n)
<1>1. N \in Nat /\ NoProc \notin Procs /\ INF \in Int /\ Candidates \subseteq Procs /\ Procs = 1..N
  BY CpuAssumption, SelectAssumption DEF Candidates, Procs, NoProc
<1>2. \A i \in Candidates : i \in Int /\ 1 <= i /\ i <= N
  BY <1>1
<1>3. Found(0)
  <2>1. {i \in Candidates : i <= 0} = {}
    BY <1>2
  <2> QED  BY <2>1, ScanSteps DEF Found
<1>4. ASSUME NEW n \in 1..N, Found(n - 1)  PROVE Found(n)
  <2> DEFINE old  == {i \in Candidates : i <= n - 1}
             seen == {i \in Candidates : i <= n}
             before == Scan[n - 1]
             b    == before.selected
  <2>1. n \in Procs /\ n \notin old /\ Scan[n] = Better(n, before)
    BY <1>1, ScanSteps
  <2>2. seen = IF n \in Candidates THEN old \union {n} ELSE old
    <3>1. \A i \in Candidates : i <= n <=> i <= n - 1 \/ i = n
      BY <1>2
    <3>2. n <= n
      OBVIOUS
    <3> QED  BY <3>1, <3>2
  <2>3. n \in Candidates <=> is_available(n) /\ Key(n) <= INF
    BY <2>1 DEF Candidates
  <2>4. Key(n) \in Int
    BY <2>1, KeyType
  <2>5. CASE n \notin Candidates
    <3>1. Better(n, before) = before
      <4>1. CASE ~is_available(n)
        BY <4>1 DEF Better
      <4>2. CASE is_available(n) /\ Key(n) > INF
        <5>1. before.key <= INF /\ before.key \in Int
          <6>1. CASE old = {}
            BY <1>1, <1>4, <6>1 DEF Found, Nothing
          <6>2. CASE old # {}
            <7>1. b \in Candidates /\ before.key = Key(b)
              BY <1>4, <6>2 DEF Found
            <7>2. Key(b) \in Int
              BY <1>1, <7>1, KeyType
            <7> QED  BY <7>1, <7>2 DEF Candidates
          <6> QED  BY <6>1, <6>2
        <5>2. ~(Key(n) < before.key) /\ Key(n) # before.key
          BY <1>1, <2>4, <4>2, <5>1
        <5> QED  BY <4>2, <5>2 DEF Better
      <4> QED  BY <1>1, <2>3, <2>4, <2>5, <4>1, <4>2
    <3>2. seen = old /\ Scan[n] = Scan[n - 1]
      BY <2>1, <2>2, <2>5, <3>1
    <3> QED  BY <1>4, <3>2 DEF Found
  <2>6. CASE n \in Candidates /\ old = {}
    <3>1. before = Nothing /\ seen = {n}
      BY <1>4, <2>2, <2>6 DEF Found
    <3>2. Better(n, before) = [selected |-> n, key |-> Key(n)]
      BY <1>1, <2>3, <2>4, <2>6, <3>1 DEF Better, Nothing
    <3> QED  BY <2>1, <3>1, <3>2 DEF Found
  <2>7. CASE n \in Candidates /\ old # {}
    <3>1. /\ b \in old /\ before = [selected |-> b, key |-> Key(b)]
          /\ \A j \in old \ {b} : Before(b, j)
      BY <1>4, <2>7 DEF Found
    <3>2. b \in Procs /\ b # n /\ b # NoProc /\ Key(b) \in Int /\ seen = old \union {n}
      BY <1>1, <2>1, <2>2, <2>7, <3>1, KeyType
    <3>3. Better(n, before) = IF Before(n, b) THEN [selected |-> n, key |-> Key(n)] ELSE before
      <4>1. before.key = Key(b) /\ before.selected = b
        BY <3>1
      <4>2. CASE Key(n) < Key(b)
        BY <2>3, <2>7, <4>1, <4>2 DEF Better, Before
      <4>3. CASE Key(n) = Key(b)
        <5>1. [before EXCEPT !.selected = n] = [selected |-> n, key |-> Key(n)]
          BY <3>1, <4>3
        <5>2. ~(Key(n) < Key(b))
          BY <2>4, <4>3
        <5> QED  BY <2>3, <2>7, <3>2, <4>1, <4>3, <5>1, <5>2 DEF Better, Before
      <4>4. CASE ~(Key(n) < Key(b)) /\ Key(n) # Key(b)
        BY <2>3, <2>7, <4>1, <4>4 DEF Better, Before
      <4> QED  BY <4>2, <4>3, <4>4
    <3>4. CASE Before(n, b)
      <4>1. Scan[n] = [selected |-> n, key |-> Key(n)]
        BY <2>1, <3>3, <3>4
      <4>2. \A j \in old : Before(n, j)
        BY <1>1, <2>1, <3>1, <3>2, <3>4, BeforeIsOrder
      <4> QED  BY <3>2, <4>1, <4>2 DEF Found
    <3>5. CASE ~Before(n, b)
      <4>1. Scan[n] = before /\ Before(b, n)
        BY <2>1, <3>2, <3>3, <3>5, BeforeIsOrder
      <4> QED  BY <3>1, <3>2, <4>1 DEF Found
    <3> QED  BY <3>4, <3>5
  <2> QED  BY <2>5, <2>6, <2>7
<1> DEFINE T == {n \in Nat : n <= N /\ ~Found(n)}
<1>5. ASSUME T # {}  PROVE FALSE
  <2>1. PICK m \in T : \A n \in T : m <= n
    BY <1>5, LeastNat
  <2>2. m \in 1..N /\ ~Found(m)
    BY <1>1, <1>3, <2>1
  <2>3. m - 1 \in Nat /\ m - 1 <= N /\ m - 1 \notin T
    BY <1>1, <2>1, <2>2
  <2> QED  BY <1>4, <2>2, <2>3
<1> QED  BY <1>1, <1>5

\* Best is well defined, and what the loops select.
LEMMA BestIsFirst ==
  ASSUME CpuTyped, SelTyped, Candidates # {}
  PROVE  /\ Best \in Candidates /\ \A j \in Candidates \ {Best} : Before(Best, j)
         /\ Scan[N].selected = Best
<1>1. Candidates \subseteq Procs /\ {i \in Candidates : i <= N} = Candidates /\ N \in 0..N
  BY CpuAssumption DEF Candidates, Procs
<1> DEFINE s == Scan[N].selected
<1>2. s \in Candidates /\ \A j \in Candidates \ {s} : Before(s, j)
  BY <1>1, ScanFinds DEF Found
<1>3. \A i \in Candidates : (\A j \in Candidates \ {i} : Before(i, j)) => i = s
  BY <1>1, <1>2, BeforeIsOrder
<1> HIDE DEF s
<1>4. Best \in Candidates /\ \A j \in Candidates \ {Best} : Before(Best, j)
  BY <1>2, Zenon DEF Best
<1> QED  BY <1>3, <1>4 DEF s

-----------------------------------------------------------------------------
(* The schedulers: what they run, and when they change                      *)

\* The process that keeps the CPU can use it.
Incumbent ==
  current_process # NoProc =>
    /\ is_available(current_process) /\ alg # "srtf"
    /\ alg = "preemptive_priority" => work[current_process].priority <= INF

\* A process that has just run and can go on still has the CPU.
Continues ==
  \A i \in Procs :
     alg # "srtf" /\ current_time > 0 /\ timeline[current_time-1] = i /\ GoesOn(i, current_time) =>
       current_process = i

\* SwitchesAreJustified, one process at a time
Switches ==
  \A t \in 0..current_time-2 : \A i \in Procs :
     timeline[t] = i /\ GoesOn(i, t + 1) /\ timeline[t+1] # i =>
       \/ alg \in {"srtf", "aging"}
       \/ /\ alg = "preemptive_priority" /\ timeline[t+1] \in Procs
          /\ work[timeline[t+1]].priority < work[i].priority

SelInv == CpuInv /\ SelTyped /\ Incumbent /\ Continues /\ Switches

LEMMA ChosenFacts ==
  ASSUME CpuInv, SelTyped, Incumbent
  PROVE  /\ Chosen \in Procs \union {NoProc} /\ NoProc \notin Procs
         /\ Chosen = NoProc => Selects /\ Candidates = {}
         /\ Chosen # NoProc => is_available(Chosen)
         /\ Chosen # NoProc /\ Selects => Chosen = Selection /\ Chosen \in Candidates
<1>1. NoProc \notin Procs /\ Candidates \subseteq Procs /\ \A i \in Candidates : is_available(i)
  BY DEF Procs, NoProc, Candidates
<1>2. CASE ~Selects
  BY <1>1, <1>2 DEF Chosen, Selects, SelTyped, Incumbent
<1>3. CASE Selects
  <2>1. Chosen = Selection
    BY <1>3 DEF Chosen
  <2>2. CASE Candidates = {}
    BY <1>1, <1>3, <2>1, <2>2 DEF Selection
  <2>3. CASE Candidates # {}
    <3>1. Best \in Candidates
      BY <2>3, BestIsFirst DEF CpuInv
    <3>2. Selection \in Candidates
      BY <2>3, <3>1 DEF Selection
    <3> QED  BY <1>1, <1>3, <2>1, <2>3, <3>2
  <2> QED  BY <2>2, <2>3
<1> QED  BY <1>2, <1>3

LEMMA SelTypedKept == SelTyped /\ [Next]_selVars => SelTyped'
<1> SUFFICES ASSUME SelTyped, [Next]_selVars  PROVE SelTyped'
  OBVIOUS
<1>1. \A x : Aged(x) \in [Procs -> Nat]
  BY DEF SelTyped, Aged
<1>2. CASE IdleUnit
  BY <1>1, <1>2 DEF IdleUnit, SelTyped
<1>3. ASSUME NEW i \in Procs, RunUnit(i)  PROVE SelTyped'
  BY <1>1, <1>3 DEF RunUnit, SelTyped
<1>4. CASE Return \/ Ended \/ UNCHANGED selVars
  BY <1>4 DEF Return, Ended, selVars, SelTyped
<1> QED  BY <1>2, <1>3, <1>4 DEF Next

\* A process that is to go on after its unit is available after it; one that has
\* finished or reached an I/O event does not go on.
LEMMA AfterUnit ==
  ASSUME CpuInv, current_time < MAX_TIME, NEW i \in Procs, is_available(i), Execute(i)
  PROVE  IF Outcome(i) = "more" THEN is_available(i)' ELSE ~GoesOn(i, current_time)'
<1>1. CpuTyped /\ CpuTyped'
  BY ExecuteKeepsCpu DEF CpuInv
<1>2. /\ work' = work /\ current_time' = current_time + 1
      /\ remaining_time'[i] = remaining_time[i] - 1 /\ (completed'[i] <=> Outcome(i) = "finished")
      /\ Outcome(i) # "io" => blocked_until'[i] = blocked_until[i]
      /\ current_time \in Nat /\ remaining_time[i] \in Nat \ {0} /\ blocked_until[i] \in Int
      /\ work[i].arrival \in Nat /\ work[i].burst \in Nat
      /\ DOMAIN work[i].io = 1..Len(work[i].io)
  <2>1. /\ remaining_time' = [remaining_time EXCEPT ![i] = @ - 1]
        /\ completed' = [completed EXCEPT ![i] = (Outcome(i) = "finished")]
        /\ Outcome(i) # "io" => blocked_until' = [blocked_until EXCEPT ![i] = @]
        /\ work' = work /\ current_time' = current_time + 1
    BY DEF Execute
  <2>2. /\ current_time \in Nat /\ remaining_time[i] \in Nat \ {0} /\ blocked_until[i] \in Int
        /\ work \in Workloads
    BY <1>1 DEF CpuTyped, None, is_available
  <2>3. /\ remaining_time'[i] = remaining_time[i] - 1
        /\ Outcome(i) # "io" => blocked_until'[i] = blocked_until[i]
    BY <1>1, <2>1 DEF CpuTyped
  <2>4. completed'[i] <=> Outcome(i) = "finished"
    BY <1>1, <2>1 DEF CpuTyped
  <2>5. /\ work[i].arrival \in Nat /\ work[i].burst \in Nat
        /\ DOMAIN work[i].io = 1..Len(work[i].io)
    BY <2>2, WorkFacts
  <2> QED  BY <2>1, <2>2, <2>3, <2>4, <2>5
<1>3. CASE Outcome(i) = "more"
  <2>1. remaining_time[i] # 1
    BY <1>3 DEF Outcome
  <2> QED  BY <1>2, <1>3, <2>1 DEF is_available
<1>4. Ran(i, current_time)' = Ran(i, current_time) + 1 /\ Ran(i, current_time) \in Nat
  BY <1>1, <1>2, UnitIsCounted, RanType DEF Execute
<1>5. CASE Outcome(i) = "finished"
  <2>1. remaining_time[i] = 1
    BY <1>5 DEF Outcome
  <2>2. Ran(i, current_time) + remaining_time[i] = work[i].burst
    BY DEF CpuInv, CpuTimeUsed
  <2>3. ~Runnable(i, current_time)'
    BY <1>2, <1>4, <2>1, <2>2 DEF Runnable
  <2> QED  BY <1>5, <2>3 DEF GoesOn
<1>6. CASE Outcome(i) = "io"
  <2>1. /\ next_io[i] + 1 \in DOMAIN work[i].io
        /\ work[i].io[next_io[i] + 1].start = Ran(i, current_time) + 1
    BY <1>2, <1>6, DueIsNext
  <2>2. ~GoesOn(i, current_time)'
    BY <1>2, <1>4, <2>1 DEF GoesOn
  <2> QED  BY <1>6, <2>2
<1>7. Outcome(i) \in {"finished", "io", "more"}
  BY DEF Outcome
<1> QED  BY <1>3, <1>5, <1>6, <1>7

\* GoesOn, like Runnable, is not changed for the past.
LEMMA GoesOnKept ==
  ASSUME CpuTyped, current_time < MAX_TIME, NEW x, timeline' = [timeline EXCEPT ![current_time] = x],
         work' = work, NEW i \in Procs, NEW t \in 0..current_time
  PROVE  GoesOn(i, t)' <=> GoesOn(i, t)
<1>1. Ran(i, t)' = Ran(i, t) /\ (Runnable(i, t)' <=> Runnable(i, t))
  BY PastIsKept
<1> QED  BY <1>1 DEF GoesOn

LEMMA InitSel == Init => SelInv
<1> SUFFICES ASSUME Init  PROVE SelInv
  OBVIOUS
<1>1. CpuInv
  BY InitCpu DEF Init
<1>2. SelTyped
  <2>1. aging_interval \in Nat \ {0}
    <3>1. DEFAULT_AGING_INTERVAL \in Nat \ {0}
      BY DEF DEFAULT_AGING_INTERVAL
    <3>2. \A n \in Intervals : n \in Int
      BY SelectAssumption
    <3> QED  BY <3>1, <3>2 DEF Init
  <2> QED  BY <2>1, SelectAssumption DEF Init, SelTyped
<1>3. Incumbent /\ Continues /\ Switches
  BY DEF Init, CpuInit, Incumbent, Continues, Switches
<1> QED  BY <1>1, <1>2, <1>3 DEF SelInv

\* One unit, of a process or idle.
LEMMA UnitKeepsSel ==
  ASSUME SelInv, SelTyped', CpuInv', current_time < MAX_TIME, Chosen # NoProc => is_available(Chosen),
         NEW x, x = (IF Chosen = NoProc THEN Idle ELSE Chosen),
         timeline' = [timeline EXCEPT ![current_time] = x], current_time' = current_time + 1,
         work' = work, alg' = alg, Incumbent',
         \A i \in Procs : i = Chosen /\ alg # "srtf" /\ GoesOn(i, current_time)' => current_process' = i
  PROVE  SelInv'
<1>1. /\ CpuInv /\ CpuTyped /\ current_time \in 0..MAX_TIME-1 /\ current_time \in Nat
      /\ Idle \notin Procs /\ NoProc \notin Procs
      /\ timeline'[current_time] = x /\ \A t \in 0..current_time-1 : timeline'[t] = timeline[t]
  <2>1. CpuTyped /\ current_time \in 0..MAX_TIME-1 /\ current_time \in Nat
    BY CpuAssumption DEF SelInv, CpuInv, CpuTyped
  <2> QED  BY <2>1 DEF SelInv, CpuTyped, Procs, Idle, NoProc
<1>2. Continues'
  BY <1>1 DEF Continues
<1>3. ASSUME NEW t \in 0..current_time-2, NEW i \in Procs,
             timeline'[t] = i, GoesOn(i, t + 1)', timeline'[t+1] # i
      PROVE  \/ alg \in {"srtf", "aging"}
             \/ /\ alg = "preemptive_priority" /\ timeline'[t+1] \in Procs
                /\ work[timeline'[t+1]].priority < work[i].priority
  <2>1. t + 1 \in 0..current_time /\ timeline'[t] = timeline[t] /\ timeline'[t+1] = timeline[t+1]
    BY <1>1
  <2>2. GoesOn(i, t + 1)
    BY <1>1, <1>3, <2>1, GoesOnKept
  <2> QED  BY <1>3, <2>1, <2>2 DEF SelInv, Switches
<1>4. ASSUME current_time > 0, NEW u, u = current_time, NEW i \in Procs,
             timeline'[u-1] = i, GoesOn(i, u)', timeline'[u] # i, alg \notin {"srtf", "aging"}
      PROVE  /\ alg = "preemptive_priority" /\ timeline'[u] \in Procs
             /\ work[timeline'[u]].priority < work[i].priority
  <2>1. u \in 0..current_time /\ timeline[u-1] = i /\ timeline'[u] = x
    BY <1>1, <1>4
  <2>2. GoesOn(i, u)
    BY <1>1, <1>4, <2>1, GoesOnKept
  <2>3. current_process = i
    BY <1>4, <2>1, <2>2 DEF SelInv, Continues
  <2>4. is_available(i) /\ (alg = "preemptive_priority" => work[i].priority <= INF)
    BY <1>1, <2>3 DEF SelInv, Incumbent
  <2>5. Selects
    <3> SUFFICES ASSUME ~Selects  PROVE FALSE
      OBVIOUS
    <3>1. Chosen = i
      BY <2>3 DEF Chosen
    <3> QED  BY <1>1, <1>4, <2>1, <3>1
  <2>6. alg = "preemptive_priority"
    BY <1>1, <1>4, <2>3, <2>5 DEF SelInv, SelTyped, Selects, NonPreemptive
  <2>7. \A j \in Procs : Key(j) = work[j].priority /\ Key(j) \in Int
    BY <1>1, <2>6, KeyType DEF SelInv
  <2>8. i \in Candidates
    BY <2>4, <2>6, <2>7 DEF Candidates
  <2>9. Best \in Candidates /\ Best \in Procs /\ \A j \in Candidates \ {Best} : Before(Best, j)
    BY <1>1, <2>8, BestIsFirst DEF SelInv, Candidates
  <2>10. Chosen = Selection
    BY <2>5 DEF Chosen
  <2>11. Key(i) # Key(Best)
    <3> SUFFICES ASSUME Key(i) = Key(Best)  PROVE FALSE
      OBVIOUS
    <3>1. Selection = i
      BY <2>3, <2>6, <2>8 DEF Selection, PrefersIncumbent
    <3> QED  BY <1>1, <1>4, <2>1, <2>10, <3>1
  <2>12. Selection = Best
    BY <2>3, <2>8, <2>11 DEF Selection
  <2>13. Key(Best) < Key(i)
    BY <2>7, <2>8, <2>9, <2>11 DEF Before
  <2>14. timeline'[u] = Best
    BY <1>1, <2>1, <2>9, <2>10, <2>12
  <2> QED  BY <2>6, <2>7, <2>9, <2>13, <2>14
<1>5. Switches'
  <2> SUFFICES ASSUME NEW t \in 0..current_time'-2, NEW i \in Procs,
                      timeline'[t] = i, GoesOn(i, t + 1)', timeline'[t+1] # i
               PROVE  \/ alg \in {"srtf", "aging"}
                      \/ /\ alg = "preemptive_priority" /\ timeline'[t+1] \in Procs
                         /\ work[timeline'[t+1]].priority < work[i].priority
    BY DEF Switches
  <2>1. CASE t \in 0..current_time-2
    BY <1>3, <2>1
  <2>2. CASE t = current_time - 1
    <3>1. PICK u : u = t + 1
      OBVIOUS
    <3>2. u = current_time /\ current_time > 0 /\ t = u - 1
      BY <1>1, <2>2, <3>1
    <3>3. GoesOn(i, u)'
      BY <3>1
    <3> QED  BY <1>4, <3>1, <3>2, <3>3
  <2> QED  BY <1>1, <2>1, <2>2
<1> QED  BY <1>2, <1>5 DEF SelInv

LEMMA NextKeepsSel == SelInv /\ [Next]_selVars => SelInv'
<1> SUFFICES ASSUME SelInv, [Next]_selVars  PROVE SelInv'
  OBVIOUS
<1>1. /\ SelTyped' /\ NoProc \notin Procs
      /\ Chosen = NoProc => Candidates = {}
      /\ Chosen # NoProc => is_available(Chosen)
      /\ Chosen # NoProc /\ Selects => Chosen \in Candidates
  BY SelTypedKept, ChosenFacts DEF SelInv
<1>2. CASE IdleUnit
  <2>1. /\ Chosen = NoProc /\ PassTime /\ current_time < MAX_TIME /\ current_process' = NoProc /\ alg' = alg
        /\ timeline' = [timeline EXCEPT ![current_time] = Idle] /\ current_time' = current_time + 1
        /\ work' = work
    BY <1>2 DEF IdleUnit, PassTime, Simulating
  <2>2. CpuInv'
    BY <2>1, PassTimeKeepsCpu DEF SelInv
  <2>3. Incumbent'
    BY <2>1 DEF Incumbent
  <2> QED  BY <1>1, <2>1, <2>2, <2>3, UnitKeepsSel
<1>3. ASSUME NEW i \in Procs, RunUnit(i)  PROVE SelInv'
  <2>1. /\ Chosen = i /\ Execute(i) /\ current_time < MAX_TIME /\ alg' = alg
        /\ current_process' = IF Outcome(i) = "more" /\ alg # "srtf" THEN i ELSE NoProc
        /\ timeline' = [timeline EXCEPT ![current_time] = i] /\ current_time' = current_time + 1
        /\ work' = work
    BY <1>3 DEF RunUnit, Execute, Simulating
  <2>2. is_available(i) /\ i # NoProc
    BY <1>1, <2>1
  <2>3. CpuInv'
    BY <2>1, <2>2, ExecuteKeepsCpu DEF SelInv
  <2>4. IF Outcome(i) = "more" THEN is_available(i)' ELSE ~GoesOn(i, current_time)'
    BY <2>1, <2>2, AfterUnit DEF SelInv
  <2>5. alg = "preemptive_priority" => work[i].priority <= INF
    <3> SUFFICES ASSUME alg = "preemptive_priority"  PROVE work[i].priority <= INF
      OBVIOUS
    <3>1. Selects
      BY DEF Selects, NonPreemptive
    <3>2. Key(i) = work[i].priority
      BY KeyType DEF SelInv, CpuInv
    <3> QED  BY <1>1, <2>1, <2>2, <3>1, <3>2 DEF Candidates
  <2>6. Incumbent'
    <3>1. CASE current_process' = NoProc
      BY <3>1 DEF Incumbent
    <3>2. CASE current_process' # NoProc
      <4>1. current_process' = i /\ Outcome(i) = "more" /\ alg # "srtf"
        BY <2>1, <3>2
      <4>2. is_available(i)'
        BY <2>4, <4>1
      <4>3. is_available(current_process)'
        BY <4>1, <4>2 DEF is_available
      <4> QED  BY <2>1, <2>5, <4>1, <4>3 DEF Incumbent
    <3> QED  BY <3>1, <3>2
  <2>7. ASSUME NEW j \in Procs, j = Chosen, alg # "srtf", GoesOn(j, current_time)'  PROVE current_process' = j
    <3>1. j = i
      BY <2>1, <2>7
    <3> QED  BY <2>1, <2>4, <2>7, <3>1
  <2> QED  BY <1>1, <2>1, <2>2, <2>3, <2>6, <2>7, UnitKeepsSel
<1>4. CASE Return \/ Ended \/ UNCHANGED selVars
  <2>1. UNCHANGED <<cpuVars, alg, current_process>>
    BY <1>4 DEF Return, Ended, selVars, cpuVars
  <2>2. UNCHANGED <<work, current_time, timeline, remaining_time, blocked_until, completed>>
    BY <2>1 DEF cpuVars
  <2>3. CpuInv'
    BY <2>1, StutterKeepsCpu DEF SelInv
  <2>4. \A i, t : Ran(i, t)' = Ran(i, t)
    BY <2>2 DEF Ran
  <2>5. \A i, t : InIo(i, t)' <=> InIo(i, t)
    BY <2>2, <2>4 DEF InIo
  <2>6. \A i, t : GoesOn(i, t)' <=> GoesOn(i, t)
    BY <2>2, <2>4, <2>5 DEF GoesOn, Runnable
  <2>7. \A i : GoesOn(i, current_time)' <=> GoesOn(i, current_time)
    BY <2>2, <2>6 DEF GoesOn, Runnable, Ran, InIo
  <2>8. Continues'
    BY <2>1, <2>2, <2>7 DEF SelInv, Continues
  <2>9. Switches'
    BY <2>1, <2>2, <2>6 DEF SelInv, Switches
  <2>10. Incumbent'
    BY <2>1, <2>2 DEF SelInv, Incumbent, is_available
  <2> QED  BY <1>1, <2>3, <2>8, <2>9, <2>10 DEF SelInv
<1> QED  BY <1>2, <1>3, <1>4 DEF Next

LEMMA SelInvariance == Spec => []SelInv
  BY InitSel, NextKeepsSel, PTL DEF Spec

\* The left-to-right loops of select_sjf, select_srtf, select_priority and
\* select_priority_aging find the one process that comes before every other, whatever
\* the number of processes and their order in the array.
THEOREM LoopsFindBest == Spec => []ScanFindsBest
<1>1. SelInv => ScanFindsBest
  <2> SUFFICES ASSUME SelInv  PROVE ScanFindsBest
    OBVIOUS
  <2>1. CASE Candidates = {}
    <3>1. Found(N) /\ {i \in Candidates : i <= N} = {}
      BY <2>1, ScanFinds, CpuAssumption DEF SelInv, CpuInv
    <3> QED  BY <2>1, <3>1 DEF Found, Nothing, ScanFindsBest
  <2>2. CASE Candidates # {}
    BY <2>2, BestIsFirst DEF SelInv, CpuInv, ScanFindsBest
  <2> QED  BY <2>1, <2>2
<1> QED  BY <1>1, SelInvariance, PTL

\* SJF and priority never interrupt a process that can go on, and preemptive priority
\* only for a strictly better one.
THEOREM NoNeedlessSwitch == Spec => []SwitchesAreJustified
<1>1. SelInv => SwitchesAreJustified
  <2> SUFFICES ASSUME SelInv, NEW t \in 0..current_time-2,
                      BusyAt(t), GoesOn(timeline[t], t + 1), timeline[t+1] # timeline[t]
               PROVE  \/ alg \in {"srtf", "aging"}
                      \/ /\ alg = "preemptive_priority"
                         /\ work[timeline[t+1]].priority < work[timeline[t]].priority
    BY DEF SwitchesAreJustified
  <2>1. timeline[t] \in Procs
    BY CpuAssumption DEF SelInv, CpuInv, CpuTyped, BusyAt
  <2> QED  BY <2>1 DEF SelInv, Switches
<1> QED  BY <1>1, SelInvariance, PTL

-----------------------------------------------------------------------------
(* Refinement of the abstract CPU.  A process whose key is above INF is     *)
(* never selected, so the bursts and priorities must not exceed it.         *)

KeysFit == \A w \in Workloads : \A i \in Procs : w[i].burst <= INF /\ w[i].priority <= INF

LEMMA KeyFits ==
  ASSUME KeysFit, CpuInv, SelTyped, NEW i \in Procs
  PROVE  Key(i) <= INF
<1>1. /\ work \in Workloads /\ remaining_time[i] \in Nat /\ next_io[i] \in Nat /\ waiting_age[i] \in Nat
      /\ aging_interval \in Nat \ {0} /\ INF \in Nat
  BY SelectAssumption DEF CpuInv, CpuTyped, SelTyped
<1>2. /\ work[i].burst \in Nat /\ work[i].priority \in Nat \ {0} /\ Len(work[i].io) \in Nat
      /\ \A k \in 1..Len(work[i].io) : work[i].io[k].start \in Nat
  BY <1>1, WorkFacts
<1>3. work[i].burst <= INF /\ work[i].priority <= INF
  BY <1>1 DEF KeysFit
<1>4. next_cpu_segment_remaining(i) <= INF
  <2>1. Ran(i, current_time) \in Nat /\ Ran(i, current_time) + remaining_time[i] = work[i].burst
    BY RanType DEF CpuInv, CpuTyped, CpuTimeUsed
  <2>2. remaining_time[i] <= INF
    BY <1>1, <1>2, <1>3, <2>1
  <2>3. next_io[i] < Len(work[i].io) => work[i].io[next_io[i] + 1].start \in Nat
    BY <1>1, <1>2
  <2>4. consumed_cpu_time(i) \in Int
    BY <1>1, <1>2 DEF consumed_cpu_time
  <2>5. CASE /\ next_io[i] < Len(work[i].io)
             /\ work[i].io[next_io[i] + 1].start - consumed_cpu_time(i) > 0
             /\ work[i].io[next_io[i] + 1].start - consumed_cpu_time(i) < remaining_time[i]
    <3>1. PICK until_io \in Int : until_io = work[i].io[next_io[i] + 1].start - consumed_cpu_time(i)
      BY <2>3, <2>4, <2>5
    <3>2. next_cpu_segment_remaining(i) = until_io /\ until_io < remaining_time[i]
      BY <2>5, <3>1 DEF next_cpu_segment_remaining
    <3> QED  BY <1>1, <2>2, <3>2
  <2>6. CASE ~(/\ next_io[i] < Len(work[i].io)
               /\ work[i].io[next_io[i] + 1].start - consumed_cpu_time(i) > 0
               /\ work[i].io[next_io[i] + 1].start - consumed_cpu_time(i) < remaining_time[i])
    BY <2>2, <2>6 DEF next_cpu_segment_remaining
  <2> QED  BY <2>5, <2>6
<1>5. aged_priority(i) <= INF
  <2> DEFINE q == waiting_age[i] \div aging_interval
             b == work[i].priority - q
  <2>0. q \in Nat
    BY <1>1
  <2>1. b \in Int /\ b <= work[i].priority
    <3> HIDE DEF q
    <3> QED  BY <1>2, <2>0
  <2>2. Max({1, b}) \in {1, b}
    <3>1. 1 \in Int /\ b \in Int
      BY <2>1
    <3> HIDE DEF b
    <3> QED  BY <3>1, MaxOfTwo, Zenon
  <2>3. aged_priority(i) \in {1, b}
    BY <2>2 DEF aged_priority
  <2> HIDE DEF b
  <2> QED  BY <1>1, <1>2, <1>3, <2>1, <2>3
<1> QED  BY <1>3, <1>4, <1>5 DEF Key

\* All five schedulers implement the abstract CPU: none runs a process that has not
\* arrived, is finished or is in an I/O, and none leaves the CPU idle while another
\* process can run, as long as INF is the infinity it is meant to be.
THEOREM ImplementsCpu == KeysFit => (Spec => CpuSpec)
<1> SUFFICES ASSUME KeysFit  PROVE Spec => CpuSpec
  OBVIOUS
<1>1. Init => CpuInit
  BY DEF Init
<1>2. ASSUME SelInv, [Next]_selVars  PROVE [CpuNext]_cpuVars
  <2>1. /\ Chosen \in Procs \union {NoProc}
        /\ Chosen = NoProc => Candidates = {}
        /\ Chosen # NoProc => is_available(Chosen)
        /\ NoProc \notin Procs
    BY <1>2, ChosenFacts DEF SelInv
  <2>2. CASE IdleUnit
    <3>1. Chosen = NoProc /\ Simulating /\ PassTime
      BY <2>2 DEF IdleUnit
    <3>2. \A i \in Procs : ~is_available(i)
      BY <1>2, <2>1, <3>1, KeyFits DEF Candidates, SelInv
    <3> QED  BY <3>1, <3>2 DEF IdleStep, CpuNext
  <2>3. ASSUME NEW i \in Procs, RunUnit(i)  PROVE [CpuNext]_cpuVars
    <3>1. RunStep(i)
      BY <2>1, <2>3 DEF RunUnit, RunStep
    <3> QED  BY <3>1 DEF CpuNext
  <2>4. CASE Return \/ Ended \/ UNCHANGED selVars
    BY <2>4 DEF Return, Ended, selVars, cpuVars
  <2> QED  BY <1>2, <2>2, <2>3, <2>4 DEF Next
<1> QED  BY <1>1, <1>2, SelInvariance, PTL DEF Spec, CpuSpec

-----------------------------------------------------------------------------
(* The waiting ages                                                         *)

LEMMA LastRanType ==
  ASSUME CpuTyped, NEW i \in Procs
  PROVE  LastRan(i) \in -1..current_time-1
<1> DEFINE ran == {t \in 0..current_time-1 : timeline[t] = i}
<1>1. current_time \in Nat
  BY DEF CpuTyped
<1>2. CASE ran = {}
  BY <1>1, <1>2 DEF LastRan
<1>3. CASE ran # {}
  <2> DEFINE back == {n \in Nat : \E t \in ran : n = current_time - t}
  <2>1. back # {} /\ back \in SUBSET Nat
    <3>1. PICK t \in ran : TRUE
      BY <1>3
    <3>2. current_time - t \in Nat
      BY <1>1
    <3> QED  BY <3>1, <3>2
  <2>2. PICK m \in back : \A n \in back : m <= n
    <3> HIDE DEF back
    <3> QED  BY <2>1, LeastNat
  <2>3. PICK t \in ran : m = current_time - t
    BY <2>2
  <2>4. \A u \in ran : t >= u
    <3> TAKE u \in ran
    <3>1. current_time - u \in back
      BY <1>1
    <3>2. m <= current_time - u
      BY <2>2, <3>1
    <3> QED  BY <1>1, <2>3, <3>2
  <2>5. Max(ran) \in ran
    <3> HIDE DEF ran
    <3> QED  BY <2>3, <2>4, Zenon DEF Max
  <2> QED  BY <1>1, <1>3, <2>5 DEF LastRan
<1> QED  BY <1>2, <1>3

\* The process that has the unit is the only one for which the last unit changes.
LEMMA LastRanNext ==
  ASSUME CpuTyped, current_time < MAX_TIME, NEW x, timeline' = [timeline EXCEPT ![current_time] = x],
         current_time' = current_time + 1, NEW i \in Procs
  PROVE  LastRan(i)' = IF i = x THEN current_time ELSE LastRan(i)
<1> DEFINE ran == {t \in 0..current_time-1 : timeline[t] = i}
           new == {t \in 0..current_time : timeline'[t] = i}
<1>1. current_time \in Nat /\ current_time \in 0..MAX_TIME-1
  BY CpuAssumption DEF CpuTyped
<1>2. timeline'[current_time] = x /\ \A t \in 0..current_time-1 : timeline'[t] = timeline[t]
  BY <1>1 DEF CpuTyped
<1>3. LastRan(i)' = IF new = {} THEN -1 ELSE Max(new)
  <2>1. new = {t \in 0..current_time'-1 : timeline'[t] = i}
    BY <1>1
  <2> QED  BY <2>1 DEF LastRan
<1>4. CASE i = x
  <2>1. current_time \in new /\ \A t \in new : current_time >= t /\ t \in Int
    BY <1>1, <1>2, <1>4
  <2>2. Max(new) = current_time
    <3> HIDE DEF new
    <3> DEFINE m == Max(new)
    <3>1. m \in new /\ \A t \in new : m >= t
      BY <2>1, Zenon DEF Max
    <3> HIDE DEF m
    <3>2. m = current_time
      BY <1>1, <2>1, <3>1
    <3> QED  BY <3>2 DEF m
  <2> QED  BY <1>3, <1>4, <2>1, <2>2
<1>5. CASE i # x
  <2>1. new = ran
    BY <1>1, <1>2, <1>5
  <2> QED  BY <1>3, <1>5, <2>1 DEF LastRan
<1> QED  BY <1>4, <1>5

\* update_aging_counters against the timeline
Ages == alg = "aging" => \A i \in Procs :
          waiting_age[i] = Cardinality({t \in LastRan(i)+1..current_time-1 : Runnable(i, t)})

LEMMA UnitKeepsAges ==
  ASSUME CpuInv, SelTyped, Ages, alg = "aging", current_time < MAX_TIME,
         NEW x, NEW r \in Procs \union {NoProc}, x = (IF r = NoProc THEN Idle ELSE r),
         timeline' = [timeline EXCEPT ![current_time] = x], current_time' = current_time + 1,
         work' = work, waiting_age' = Aged(r), NEW i \in Procs
  PROVE  waiting_age'[i] = Cardinality({t \in LastRan(i)'+1..current_time : Runnable(i, t)'})
<1> DEFINE L   == LastRan(i)
           old == {t \in L+1..current_time-1 : Runnable(i, t)}
<1>1. /\ CpuTyped /\ current_time \in Nat /\ Idle \notin Procs /\ NoProc \notin Procs
      /\ LastRan(i)' = IF i = x THEN current_time ELSE L
      /\ L \in -1..current_time-1
  <2>1. CpuTyped /\ current_time \in Nat
    BY DEF CpuInv, CpuTyped
  <2>2. Idle \notin Procs /\ NoProc \notin Procs
    BY CpuAssumption DEF Procs, Idle, NoProc
  <2>3. L \in -1..current_time-1
    BY <2>1, LastRanType
  <2>4. LastRan(i)' = IF i = x THEN current_time ELSE L
    BY <2>1, LastRanNext
  <2> QED  BY <2>1, <2>2, <2>3, <2>4
<1>2. waiting_age'[i] = IF i = r THEN 0 ELSE IF is_available(i) THEN waiting_age[i] + 1 ELSE waiting_age[i]
  BY DEF Aged
<1>3. i = x <=> i = r
  BY <1>1
<1>4. CASE i = r
  <2>1. {t \in current_time+1..current_time : Runnable(i, t)'} = {}
    BY <1>1
  <2> QED  BY <1>1, <1>2, <1>3, <1>4, <2>1, FS_EmptySet
<1>5. CASE i # r
  <2>1. \A t \in L+1..current_time : t \in 0..current_time /\ (Runnable(i, t)' <=> Runnable(i, t))
    <3> TAKE t \in L+1..current_time
    <3>1. t \in 0..current_time
      BY <1>1
    <3> QED  BY <1>1, <3>1, PastIsKept
  <2>2. is_available(i) <=> Runnable(i, current_time)
    BY AvailableIsRunnable
  <2>3. IsFiniteSet(old) /\ current_time \notin old /\ waiting_age[i] = Cardinality(old)
    <3>1. IsFiniteSet(L+1..current_time-1)
      BY <1>1, FS_Interval
    <3> QED  BY <1>1, <3>1, FS_Subset DEF Ages
  <2>4. {t \in L+1..current_time : Runnable(i, t)'}
          = IF is_available(i) THEN old \union {current_time} ELSE old
    <3>1. \A t \in L+1..current_time : t \in L+1..current_time-1 \/ t = current_time
      BY <1>1
    <3>2. current_time \in L+1..current_time /\ L+1..current_time-1 \subseteq L+1..current_time
      BY <1>1
    <3> HIDE DEF L
    <3>3. \A t : t \in {u \in L+1..current_time : Runnable(i, u)'}
                   <=> t \in L+1..current_time /\ Runnable(i, t)
      BY <2>1
    <3> QED  BY <2>2, <3>1, <3>2, <3>3
  <2>5. Cardinality(old \union {current_time}) = Cardinality(old) + 1
    BY <2>3, FS_AddElement
  <2> QED  BY <1>1, <1>2, <1>3, <1>5, <2>3, <2>4, <2>5
<1> QED  BY <1>4, <1>5

LEMMA NextKeepsAges == SelInv /\ Ages /\ [Next]_selVars => Ages'
<1> SUFFICES ASSUME SelInv, Ages, [Next]_selVars, alg = "aging", NEW i \in Procs
             PROVE  waiting_age'[i] = Cardinality({t \in LastRan(i)'+1..current_time'-1 : Runnable(i, t)'})
  <2>1. [Next]_selVars => UNCHANGED alg
    BY DEF Next, IdleUnit, RunUnit, Return, Ended, selVars
  <2> QED  BY <2>1 DEF Ages
<1> DEFINE S(n) == {t \in LastRan(i)'+1..n : Runnable(i, t)'}
<1>1. CASE IdleUnit
  <2>1. /\ timeline' = [timeline EXCEPT ![current_time] = Idle] /\ current_time' = current_time + 1
        /\ work' = work /\ waiting_age' = Aged(NoProc) /\ current_time < MAX_TIME
    BY <1>1 DEF IdleUnit, PassTime, Simulating
  <2>2. current_time'-1 = current_time
    BY <2>1 DEF SelInv, CpuInv, CpuTyped
  <2>3. waiting_age'[i] = Cardinality(S(current_time))
    BY <2>1, UnitKeepsAges DEF SelInv
  <2> QED  BY <2>2, <2>3
<1>2. ASSUME NEW r \in Procs, RunUnit(r)
      PROVE  waiting_age'[i] = Cardinality(S(current_time'-1))
  <2>1. /\ timeline' = [timeline EXCEPT ![current_time] = r] /\ current_time' = current_time + 1
        /\ work' = work /\ waiting_age' = Aged(r) /\ current_time < MAX_TIME /\ r # NoProc
    BY <1>2 DEF RunUnit, Execute, Simulating, Procs, NoProc
  <2>2. current_time'-1 = current_time
    BY <2>1 DEF SelInv, CpuInv, CpuTyped
  <2>3. waiting_age'[i] = Cardinality(S(current_time))
    BY <2>1, UnitKeepsAges DEF SelInv
  <2> QED  BY <2>2, <2>3
<1>3. CASE Return \/ Ended \/ UNCHANGED selVars
  <2>1. UNCHANGED <<work, current_time, timeline, waiting_age>>
    BY <1>3 DEF Return, Ended, selVars, cpuVars
  <2>2. \A t : Ran(i, t)' = Ran(i, t)
    BY <2>1 DEF Ran
  <2>3. \A t : InIo(i, t)' <=> InIo(i, t)
    BY <2>1, <2>2 DEF InIo
  <2>4. \A t : Runnable(i, t)' <=> Runnable(i, t)
    BY <2>1, <2>2, <2>3 DEF Runnable
  <2>5. LastRan(i)' = LastRan(i)
    BY <2>1 DEF LastRan
  <2> QED  BY <2>1, <2>4, <2>5 DEF Ages
<1> QED  BY <1>1, <1>2, <1>3 DEF Next

\* The waiting age of each process, which decides its effective priority, is the number
\* of units it has been ready since it last ran, as the timeline shows them.
THEOREM AgesAreWaits == Spec => []AgesMatchTimeline
<1>1. Init => Ages
  <2> SUFFICES ASSUME Init, NEW i \in Procs
               PROVE  waiting_age[i] = Cardinality({t \in LastRan(i)+1..current_time-1 : Runnable(i, t)})
    BY DEF Ages
  <2>1. current_time = 0 /\ waiting_age[i] = 0
    BY DEF Init, CpuInit
  <2>2. LastRan(i) = -1
    BY <2>1 DEF LastRan
  <2>3. {t \in LastRan(i)+1..current_time-1 : Runnable(i, t)} = {}
    BY <2>1, <2>2
  <2> QED  BY <2>1, <2>3, FS_EmptySet
<1>2. Ages => AgesMatchTimeline
  BY DEF Ages, AgesMatchTimeline
<1> QED  BY <1>1, <1>2, NextKeepsAges, SelInvariance, PTL DEF Spec

-----------------------------------------------------------------------------
(* Types: an age grows by one in a unit of time at most                     *)

AgesAndStates ==
  /\ waiting_age \in [Procs -> 0..current_time]
  /\ state \in [Procs -> {"NEW", "READY", "RUNNING", "WAITING", "TERMINATED"}]
  /\ pc \in {"loop", "done"}

LEMMA UnitKeepsAgesAndStates ==
  ASSUME AgesAndStates, CpuTyped, NEW x, waiting_age' = Aged(x), current_time' = current_time + 1
  PROVE  /\ waiting_age' \in [Procs -> 0..current_time']
         /\ Refreshed \in [Procs -> {"NEW", "READY", "RUNNING", "WAITING", "TERMINATED"}]
<1>1. \A i \in Procs : waiting_age[i] \in 0..current_time /\ current_time \in Nat
  BY DEF AgesAndStates, CpuTyped
<1>2. \A i \in Procs : waiting_age'[i] \in {waiting_age[i], 0, waiting_age[i] + 1}
  BY DEF Aged
<1>3. \A i \in Procs : waiting_age'[i] \in 0..current_time'
  BY <1>1, <1>2
<1>4. waiting_age' \in [Procs -> 0..current_time']
  BY <1>3 DEF Aged
<1> QED  BY <1>4 DEF AgesAndStates, Refreshed

LEMMA NextKeepsAgesAndStates == SelInv /\ AgesAndStates /\ [Next]_selVars => AgesAndStates'
<1> SUFFICES ASSUME SelInv, AgesAndStates, [Next]_selVars  PROVE AgesAndStates'
  OBVIOUS
<1>1. CASE IdleUnit
  BY <1>1, UnitKeepsAgesAndStates DEF IdleUnit, PassTime, AgesAndStates, SelInv, CpuInv
<1>2. ASSUME NEW i \in Procs, RunUnit(i)  PROVE AgesAndStates'
  <2>1. /\ state' = [Refreshed EXCEPT ![i] = StateAfter(i)] /\ waiting_age' = Aged(i) /\ pc' = pc
        /\ current_time' = current_time + 1
    BY <1>2 DEF RunUnit, Execute
  <2>2. StateAfter(i) \in {"READY", "RUNNING", "WAITING", "TERMINATED"}
    BY DEF StateAfter
  <2> QED  BY <2>1, <2>2, UnitKeepsAgesAndStates DEF AgesAndStates, SelInv, CpuInv
<1>3. CASE Return \/ Ended \/ UNCHANGED selVars
  BY <1>3 DEF Return, Ended, selVars, cpuVars, AgesAndStates
<1> QED  BY <1>1, <1>2, <1>3 DEF Next

\* Every variable of the five schedulers stays in its range: next_io never passes the end
\* of io_start[], current_process is -1 or an index, and an age counts units of time.
THEOREM TypeCorrect == Spec => []SelectTypeOK
<1>1. Init => AgesAndStates
  BY DEF Init, CpuInit, AgesAndStates
<1>2. SelInv /\ AgesAndStates => SelectTypeOK
  <2> SUFFICES ASSUME SelInv, AgesAndStates  PROVE SelectTypeOK
    OBVIOUS
  <2>1. CpuTyped /\ SelTyped /\ IoReached
    BY DEF SelInv, CpuInv
  <2>2. \A i \in Procs : next_io[i] \in 0..MAX_IO_EVENTS
    <3> SUFFICES ASSUME NEW i \in Procs  PROVE next_io[i] \in 0..MAX_IO_EVENTS
      OBVIOUS
    <3>1. Len(work[i].io) <= MAX_IO_EVENTS /\ Len(work[i].io) \in Nat
      BY <2>1, WorkFacts, CpuAssumption DEF CpuTyped, WellFormed
    <3> QED  BY <2>1, <3>1, IoAssumption DEF CpuTyped, IoReached
  <2>3. \A i \in Procs : waiting_age[i] \in 0..MAX_TIME
    BY <2>1, CpuAssumption DEF CpuTyped, AgesAndStates
  <2>4. next_io \in [Procs -> 0..MAX_IO_EVENTS] /\ waiting_age \in [Procs -> 0..MAX_TIME]
    BY <2>1, <2>2, <2>3 DEF CpuTyped, SelTyped
  <2> QED  BY <2>1, <2>4 DEF SelectTypeOK, CpuTyped, SelTyped, AgesAndStates
<1> QED  BY <1>1, <1>2, NextKeepsAgesAndStates, SelInvariance, PTL DEF Spec

-----------------------------------------------------------------------------
(* How long a process can wait under aging.  The units since it reached     *)
(* priority 1 are those the others have used since; none has come back from *)
(* an I/O and run again in the meantime.                                    *)

LEMMA LeastIsMin ==
  ASSUME NEW S \in SUBSET Nat, S # {}
  PROVE  Min(S) \in S /\ \A x \in S : Min(S) <= x
<1>1. \E z \in S : \A y \in S : z <= y
  BY LeastNat
<1> QED  BY <1>1, Zenon DEF Min

LEMMA LargestIsMax ==
  ASSUME NEW b \in Nat, NEW S \in SUBSET (0..b), S # {}
  PROVE  Max(S) \in S /\ \A x \in S : Max(S) >= x
<1> DEFINE back == {n \in Nat : b - n \in S}
<1>1. back \in SUBSET Nat /\ back # {}
  <2>1. PICK x \in S : TRUE
    OBVIOUS
  <2>2. b - x \in Nat /\ b - (b - x) = x
    OBVIOUS
  <2> QED  BY <2>1, <2>2
<1>2. PICK m \in back : \A n \in back : m <= n
  <2> HIDE DEF back
  <2> QED  BY <1>1, LeastNat
<1>3. m \in Nat /\ b - m \in S
  BY <1>2
<1>4. \A x \in S : b - m >= x
  <2> TAKE x \in S
  <2>1. b - x \in Nat /\ b - (b - x) = x
    OBVIOUS
  <2>2. m <= b - x
    BY <1>2, <2>1
  <2> QED  BY <1>3, <2>2
<1>5. \E z \in S : \A x \in S : z >= x
  BY <1>3, <1>4
<1> QED  BY <1>5, Zenon DEF Max

\* What a process uses without coming to an I/O event is at most its longest segment.
LEMMA SegmentBounds ==
  ASSUME CpuTyped, NEW j \in Procs, NEW x \in Nat, NEW y \in Nat, x <= y, y <= work[j].burst,
         \A k \in 1..Len(work[j].io) : ~(x < work[j].io[k].start /\ work[j].io[k].start < y)
  PROVE  LongestRun(j) \in Int /\ y - x <= LongestRun(j)
<1> DEFINE b      == work[j].burst
           P      == {work[j].io[k].start : k \in 1..Len(work[j].io)}
           starts == {0} \union P
           ends   == {b} \union P
           After(s) == {e \in ends : e > s}
           Runs   == {Min(After(s)) - s : s \in starts}
<1>1. /\ b \in Nat \ {0} /\ DOMAIN work[j].io = 1..Len(work[j].io)
      /\ \A p \in P : p \in Nat /\ p < b /\ ~(x < p /\ p < y)
  BY WorkFacts DEF CpuTyped
<1>2. LongestRun(j) = Max(Runs)
  BY <1>1 DEF LongestRun
<1> HIDE DEF P, b
<1>3. ASSUME NEW s \in starts  PROVE /\ Min(After(s)) \in ends /\ Min(After(s)) > s
                                     /\ \A e \in After(s) : Min(After(s)) <= e
                                     /\ Min(After(s)) - s \in 0..b
  <2>1. After(s) \in SUBSET Nat /\ b \in After(s) /\ s \in Nat
    BY <1>1
  <2>2. Min(After(s)) \in After(s) /\ \A e \in After(s) : Min(After(s)) <= e
    <3> HIDE DEF After
    <3> QED  BY <2>1, LeastIsMin
  <2> QED  BY <1>1, <2>1, <2>2
<1>4. PICK s \in starts : s <= x /\ \A p \in starts : p <= x => p <= s
  <2> DEFINE S == {p \in starts : p <= x}
  <2>1. S \in SUBSET (0..x) /\ S # {}
    <3>1. 0 \in S /\ \A p \in S : p \in Nat /\ p <= x
      BY <1>1
    <3> HIDE DEF S
    <3> QED  BY <3>1
  <2>2. Max(S) \in S /\ \A p \in S : Max(S) >= p
    <3> HIDE DEF S
    <3> QED  BY <2>1, LargestIsMax
  <2>3. \A p \in starts : p \in Int
    BY <1>1
  <2> QED  BY <2>2, <2>3
<1>5. Min(After(s)) >= y /\ Min(After(s)) \in Int /\ s \in Int
  <2>1. PICK e : e = Min(After(s))
    OBVIOUS
  <2>2. e \in ends /\ e > s
    BY <1>3, <2>1
  <2>3. CASE e = b
    BY <1>1, <1>3, <1>4, <2>1, <2>3 DEF b
  <2>4. CASE e \in P
    <3>1. ~(e <= x)
      BY <1>1, <1>4, <2>2, <2>4
    <3> QED  BY <1>1, <1>4, <2>1, <2>4, <3>1
  <2> QED  BY <2>2, <2>3, <2>4
<1>6. Runs \in SUBSET (0..b) /\ Min(After(s)) - s \in Runs
  BY <1>3
<1> HIDE DEF Runs, After, starts
<1>7. Max(Runs) \in Runs /\ \A r \in Runs : Max(Runs) >= r
  BY <1>1, <1>6, LargestIsMax
<1>8. Max(Runs) \in Int /\ Max(Runs) >= Min(After(s)) - s
  <2>1. PICK d : d = Min(After(s)) - s
    OBVIOUS
  <2>2. d \in Runs /\ Max(Runs) >= d
    BY <1>6, <1>7, <2>1
  <2>3. PICK l : l = Max(Runs)
    OBVIOUS
  <2>4. l \in 0..b
    BY <1>6, <1>7, <2>3
  <2> QED  BY <1>1, <2>1, <2>2, <2>3, <2>4
<1>9. PICK m \in Int : m = Min(After(s)) /\ m >= y
  BY <1>5
<1>10. PICK v \in Int : v = s /\ v <= x
  BY <1>4, <1>5
<1>11. PICK l \in Int : l = Max(Runs) /\ l >= m - v
  BY <1>8, <1>9, <1>10
<1>12. y - x <= l
  BY <1>9, <1>10, <1>11
<1> QED  BY <1>2, <1>11, <1>12

\* the CPU time p[j] has used, and for how long p[i] has had the best priority
Used(j)   == Ran(j, current_time)
Excess(i) == waiting_age[i] - (work[i].priority - 1) * aging_interval

\* Since p[i] reached priority 1 the others have shared the units: p[j] had spent[j] of
\* them, went through no I/O in the meantime, and is younger than p[i] if it had any.
Passed(i, spent) ==
  /\ spent \in [Procs -> Nat] /\ spent[i] = 0 /\ Total(spent) = Excess(i)
  /\ \A j \in Procs \ {i} :
       /\ spent[j] <= Used(j)
       /\ spent[j] > 0 => waiting_age[j] < Excess(i)
       /\ \A k \in 1..Len(work[j].io) :
             ~(Used(j) - spent[j] < work[j].io[k].start /\ work[j].io[k].start < Used(j))

AgingInv ==
  alg = "aging" =>
    /\ \A i \in Procs : waiting_age[i] > 0 => is_available(i)
    /\ current_process \in Procs =>
         \A k \in 1..Len(work[current_process].io) :
            work[current_process].io[k].start # Used(current_process)
    /\ \A i \in Procs : Excess(i) >= 0 => \E spent : Passed(i, spent)

\* an age of (priority - 1) * aging_interval takes priority - 1 off the priority
LEMMA DividedAtLeast ==
  ASSUME NEW a \in Nat, NEW n \in Nat \ {0}, NEW q \in Nat, a >= q * n
  PROVE  a \div n >= q
<1>1. PICK d \in Int, r \in Int : d = a \div n /\ r = a % n /\ a = n * d + r /\ r < n
  OBVIOUS
<1>2. ASSUME d <= q - 1  PROVE FALSE
  <2>1. n * d <= n * (q - 1)
    BY <1>2
  <2>2. n * (q - 1) = q * n - n
    OBVIOUS
  <2>3. n * d \in Int /\ q * n \in Int
    OBVIOUS
  <2> QED  BY <1>1, <2>1, <2>2, <2>3
<1> QED  BY <1>1, <1>2

LEMMA ExcessFacts ==
  ASSUME CpuTyped, SelTyped, NEW i \in Procs
  PROVE  Excess(i) \in Int /\ Excess(i) <= waiting_age[i] /\ waiting_age[i] \in Nat
<1>1. waiting_age[i] \in Nat /\ aging_interval \in Nat /\ work \in Workloads
  BY DEF CpuTyped, SelTyped
<1>2. PICK q \in Nat : q = work[i].priority - 1
  BY <1>1, WorkFacts
<1>3. PICK m \in Nat : m = q * aging_interval
  BY <1>1, <1>2
<1> QED  BY <1>1, <1>2, <1>3 DEF Excess

LEMMA KeysUnderAging ==
  ASSUME CpuTyped, SelTyped, alg = "aging", NEW i \in Procs
  PROVE  Key(i) \in Int /\ Key(i) >= 1 /\ (Excess(i) >= 0 => Key(i) = 1)
<1>1. waiting_age[i] \in Nat /\ aging_interval \in Nat \ {0} /\ work \in Workloads
  BY DEF CpuTyped, SelTyped
<1>2. PICK q \in Nat : q = work[i].priority - 1
  BY <1>1, WorkFacts
<1>3. PICK d \in Int : d = waiting_age[i] \div aging_interval
  BY <1>1
<1>4. PICK b \in Int : b = work[i].priority - d
  BY <1>1, <1>3, WorkFacts
<1>5. Key(i) = Max({1, b})
  BY <1>3, <1>4 DEF Key, aged_priority
<1>6. Max({1, b}) \in {1, b} /\ Max({1, b}) >= 1 /\ Max({1, b}) >= b
  <2>1. PICK one \in Int : one = 1
    OBVIOUS
  <2>2. Max({one, b}) \in {one, b} /\ Max({one, b}) >= one /\ Max({one, b}) >= b
    BY MaxOfTwo
  <2> QED  BY <2>1, <2>2
<1>7. ASSUME Excess(i) >= 0  PROVE b <= 1
  <2>1. PICK m \in Nat : m = q * aging_interval
    BY <1>1
  <2>2. PICK a \in Nat : a = waiting_age[i] /\ a >= m
    BY <1>1, <1>2, <1>7, <2>1 DEF Excess
  <2>3. PICK n \in Nat \ {0} : n = aging_interval
    BY <1>1
  <2>4. a >= q * n
    BY <2>1, <2>2, <2>3
  <2>5. a \div n >= q
    BY <2>4, DividedAtLeast
  <2>6. d >= q
    BY <1>3, <2>2, <2>3, <2>5
  <2>7. work[i].priority \in Int
    BY <1>1, WorkFacts
  <2> QED  BY <1>2, <1>4, <2>6, <2>7
<1> QED  BY <1>5, <1>6, <1>7

\* When p[i] has the best priority somebody runs, and if it is another one that has
\* already run since, it is the process that had the CPU.
LEMMA WhoRuns ==
  ASSUME SelInv, alg = "aging", NEW i \in Procs, is_available(i), Excess(i) >= 0
  PROVE  /\ Chosen \in Procs
         /\ Chosen # i => Chosen = current_process \/ waiting_age[Chosen] >= waiting_age[i]
<1>1. /\ CpuTyped /\ SelTyped /\ Candidates \subseteq Procs /\ INF \in Nat \ {0}
      /\ \A j \in Procs : Key(j) \in Int /\ Key(j) >= 1 /\ waiting_age[j] \in Nat
  <2>1. CpuTyped /\ SelTyped
    BY DEF SelInv, CpuInv
  <2>2. \A j \in Procs : waiting_age[j] \in Nat
    BY <2>1 DEF SelTyped
  <2> QED  BY <2>1, <2>2, KeysUnderAging, SelectAssumption DEF Candidates
<1>2. Key(i) = 1 /\ i \in Candidates
  <2>1. Key(i) = 1
    BY <1>1, KeysUnderAging
  <2> QED  BY <1>1, <2>1 DEF Candidates
<1>3. Best \in Candidates /\ \A j \in Candidates \ {Best} : Before(Best, j)
  BY <1>1, <1>2, BestIsFirst
<1>4. Chosen = Selection
  BY DEF Chosen, Selects, NonPreemptive
<1>5. Selection \in {current_process, Best} /\ Selection \in Candidates
  BY <1>2, <1>3 DEF Selection
<1>6. Best # i => waiting_age[Best] >= waiting_age[i]
  <2> SUFFICES ASSUME Best # i  PROVE waiting_age[Best] >= waiting_age[i]
    OBVIOUS
  <2>1. Before(Best, i) /\ Best \in Procs
    BY <1>1, <1>2, <1>3
  <2>2. PICK a \in Nat : a = waiting_age[Best]
    BY <1>1, <2>1
  <2>3. PICK c \in Nat : c = waiting_age[i]
    BY <1>1
  <2>4. ~(Key(Best) < Key(i))
    BY <1>1, <1>2, <2>1
  <2>5. TieBreak(Best, i)
    BY <2>1, <2>4 DEF Before
  <2> QED  BY <2>2, <2>3, <2>5 DEF TieBreak
<1> QED  BY <1>1, <1>3, <1>4, <1>5, <1>6

\* When a unit has passed.
LEMMA UnitTyped ==
  ASSUME CpuTyped, current_time < MAX_TIME, NEW r \in Procs \union {NoProc},
         timeline' = [timeline EXCEPT ![current_time] = IF r = NoProc THEN Idle ELSE r],
         current_time' = current_time + 1, work' = work, NEW j \in Procs
  PROVE  /\ Used(j)' = IF j = r THEN Used(j) + 1 ELSE Used(j)
         /\ Used(j) \in Nat
<1>1. Idle \notin Procs /\ NoProc \notin Procs /\ current_time \in Nat
  BY DEF Idle, NoProc, Procs, CpuTyped
<1>2. PICK x : x = IF r = NoProc THEN Idle ELSE r
  OBVIOUS
<1>3. Ran(j, current_time)' = IF j = x THEN Ran(j, current_time) + 1 ELSE Ran(j, current_time)
  BY <1>2, UnitIsCounted
<1>4. j = x <=> j = r
  BY <1>1, <1>2
<1> QED  BY <1>1, <1>3, <1>4, RanType DEF Used

\* Total takes no variable.
LEMMA TotalStays ==
  ASSUME NEW f
  PROVE  Total(f)' = Total(f)
BY DEF Total, SumsOf, Sums, NextOf

\* The unit goes to one that has not run since, or that goes on.
LEMMA RunKeepsPassed ==
  ASSUME SelInv, AgingInv, alg = "aging", current_time < MAX_TIME, NEW r \in Procs, Chosen = r,
         timeline' = [timeline EXCEPT ![current_time] = IF r = NoProc THEN Idle ELSE r],
         current_time' = current_time + 1, work' = work, aging_interval' = aging_interval,
         waiting_age' = Aged(r), SelTyped',
         NEW i \in Procs, i # r, is_available(i), Excess(i) >= 0, NEW spent, Passed(i, spent)
  PROVE  Passed(i, [spent EXCEPT ![r] = spent[r] + 1])'
<1> DEFINE more == [spent EXCEPT ![r] = spent[r] + 1]
<1>1. CpuTyped /\ SelTyped /\ N \in Nat /\ Procs = 1..N
  BY CpuAssumption DEF SelInv, CpuInv, Procs
<1>2. \A j \in Procs : Used(j) \in Nat /\ Used(j)' = IF j = r THEN Used(j) + 1 ELSE Used(j)
  BY <1>1, UnitTyped
<1>3. \A j \in Procs : /\ waiting_age[j] \in Nat /\ waiting_age'[j] \in Nat
                       /\ waiting_age'[j] <= waiting_age[j] + 1
                       /\ waiting_age'[r] = 0 /\ waiting_age'[i] = waiting_age[i] + 1
  BY <1>1 DEF SelTyped, Aged
<1>4. Excess(i) \in Int /\ Excess(i) <= waiting_age[i]
  BY <1>1, ExcessFacts
<1>5. Excess(i)' = Excess(i) + 1
  <2>0. work \in Workloads /\ aging_interval \in Int
    BY <1>1 DEF CpuTyped, SelTyped
  <2>1. work[i].priority \in Int
    BY <2>0, WorkFacts
  <2>2. PICK m \in Int : m = (work[i].priority - 1) * aging_interval
    BY <2>0, <2>1
  <2>3. Excess(i) = waiting_age[i] - m /\ Excess(i)' = waiting_age'[i] - m
    BY <2>2 DEF Excess
  <2> QED  BY <1>3, <2>3
<1>6. /\ spent \in [Procs -> Nat] /\ more \in [Procs -> Nat] /\ spent[i] = 0 /\ more[i] = 0
      /\ more[r] = spent[r] + 1 /\ \A j \in Procs : j # r => more[j] = spent[j]
  BY DEF Passed
<1> HIDE DEF more
<1>7. Total(more)' = Excess(i)'
  <2>1. Total(spent) = Excess(i)
    BY DEF Passed
  <2>2. IsFiniteSet(Procs) /\ spent \in [Procs -> Int]
    BY <1>1, <1>6, FS_Interval
  <2>3. \A g \in [Procs -> Int] :
          g[r] = spent[r] + 1 /\ (\A k \in Procs : k # r => g[k] = spent[k]) => Total(g) = Total(spent) + 1
    BY <2>2, TotalAddsOne, Zenon
  <2>4. Total(more) = Total(spent) + 1
    BY <1>6, <2>3
  <2> QED  BY <1>5, <2>1, <2>4, TotalStays
<1>8. ASSUME NEW j \in Procs \ {i}
      PROVE  /\ more[j] <= Used(j)'
             /\ more[j] > 0 => waiting_age'[j] < Excess(i)'
             /\ \A k \in 1..Len(work[j].io) :
                   ~(Used(j)' - more[j] < work[j].io[k].start /\ work[j].io[k].start < Used(j)')
  <2>1. /\ spent[j] <= Used(j)
        /\ spent[j] > 0 => waiting_age[j] < Excess(i)
        /\ \A k \in 1..Len(work[j].io) :
              ~(Used(j) - spent[j] < work[j].io[k].start /\ work[j].io[k].start < Used(j))
    BY DEF Passed
  <2>2. /\ spent[j] \in Nat /\ Used(j) \in Nat /\ waiting_age[j] \in Nat /\ waiting_age'[j] \in Nat
        /\ waiting_age'[j] <= waiting_age[j] + 1
        /\ \A k \in 1..Len(work[j].io) : work[j].io[k].start \in Nat
    BY <1>1, <1>2, <1>3, <1>6, WorkFacts DEF CpuTyped
  <2>3. CASE j # r
    <3>1. Used(j)' = Used(j) /\ more[j] = spent[j]
      BY <1>2, <1>6, <2>3
    <3> QED  BY <1>4, <1>5, <2>1, <2>2, <3>1
  <2>4. CASE j = r
    <3>1. Used(j)' = Used(j) + 1 /\ waiting_age'[j] = 0 /\ more[j] = spent[j] + 1
      BY <1>2, <1>3, <1>6, <2>4
    <3>2. ASSUME NEW k \in 1..Len(work[j].io), Used(j) - spent[j] < work[j].io[k].start
          PROVE  ~(work[j].io[k].start < Used(j) + 1)
      <4>1. CASE spent[j] = 0
        BY <2>2, <3>2, <4>1
      <4>2. CASE spent[j] > 0
        <5>1. Chosen = current_process
          <6>1. waiting_age[j] < waiting_age[i]
            BY <1>3, <1>4, <2>1, <2>2, <4>2
          <6> QED  BY <1>3, <2>4, <6>1, WhoRuns
        <5>2. work[j].io[k].start # Used(j)
          BY <2>4, <5>1 DEF AgingInv
        <5>3. PICK s \in Nat : s = work[j].io[k].start
          BY <2>2
        <5>4. s # Used(j) /\ ~(Used(j) - spent[j] < s /\ s < Used(j)) /\ Used(j) - spent[j] < s
          BY <2>1, <3>2, <5>2, <5>3
        <5>5. PICK u \in Nat : u = Used(j)
          BY <2>2
        <5>6. ~(s < u + 1)
          <6>1. PICK p \in Nat : p = spent[j]
            BY <2>2
          <6>2. s # u /\ ~(u - p < s /\ s < u) /\ u - p < s
            BY <5>4, <5>5, <6>1
          <6> QED  BY <6>2
        <5> QED  BY <5>3, <5>5, <5>6
      <4> QED  BY <2>2, <4>1, <4>2
    <3>3. Used(j)' - more[j] = Used(j) - spent[j]
      BY <2>2, <3>1
    <3>4. more[j] <= Used(j)' /\ waiting_age'[j] < Excess(i)'
      BY <1>4, <1>5, <2>1, <2>2, <3>1
    <3>5. \A k \in 1..Len(work[j].io) :
             ~(Used(j)' - more[j] < work[j].io[k].start /\ work[j].io[k].start < Used(j)')
      BY <3>1, <3>2, <3>3
    <3> QED  BY <3>4, <3>5
  <2> QED  BY <2>3, <2>4
<1>9. Passed(i, more)'
  BY <1>6, <1>7, <1>8 DEF Passed
<1> QED  BY <1>9 DEF more

\* Right when p[i] reaches priority 1 nobody has spent anything since.
AtReached == \A i \in Procs : Excess(i) = 0 => \E spent : Passed(i, spent)

LEMMA NewlyPassed == CpuTyped /\ SelTyped => AtReached
<1> SUFFICES ASSUME CpuTyped, SelTyped, NEW i \in Procs, Excess(i) = 0  PROVE \E spent : Passed(i, spent)
  BY DEF AtReached
<1>1. PICK spent \in [Procs -> Nat] : \A j \in Procs : spent[j] = 0
  <2>1. [j \in Procs |-> 0] \in [Procs -> Nat]
    OBVIOUS
  <2> QED  BY <2>1
<1>2. Total(spent) = 0
  <2>1. N \in Nat /\ Procs = 1..N
    BY CpuAssumption DEF Procs
  <2>2. spent \in [1..N -> Int] /\ \A k \in 1..N : spent[k] = 0
    BY <1>1, <2>1
  <2> QED  BY <2>1, <2>2, TotalOfNothing
<1>3. \A j \in Procs : Used(j) \in Nat /\ Used(j) - spent[j] = Used(j)
  <2> TAKE j \in Procs
  <2>1. Used(j) \in Nat
    BY RanType DEF Used, CpuTyped
  <2> QED  BY <1>1, <2>1
<1>4. \A j \in Procs : \A k \in 1..Len(work[j].io) : work[j].io[k].start \in Nat
  BY WorkFacts DEF CpuTyped
<1>5. \A j \in Procs : /\ spent[j] <= Used(j) /\ ~(spent[j] > 0)
                       /\ \A k \in 1..Len(work[j].io) :
                             ~(Used(j) - spent[j] < work[j].io[k].start /\ work[j].io[k].start < Used(j))
  BY <1>1, <1>3, <1>4
<1> QED  BY <1>1, <1>2, <1>5 DEF Passed

LEMMA NewlyPassedNext == CpuTyped' /\ SelTyped' => AtReached'
BY NewlyPassed, PTL

\* A unit of another process, or an idle one, takes nothing from p[i].
LEMMA StaysAvailable ==
  ASSUME CpuTyped, current_time' = current_time + 1, work' = work, NEW i \in Procs, is_available(i),
         remaining_time'[i] = remaining_time[i], completed'[i] = completed[i], blocked_until'[i] = blocked_until[i]
  PROVE  is_available(i)'
<1>1. work[i].arrival \in Nat /\ current_time \in Nat /\ blocked_until[i] \in Int
  BY WorkFacts DEF CpuTyped, None
<1> QED  BY <1>1 DEF is_available

LEMMA UnitKeepsAging ==
  ASSUME SelInv, SelInv', AgingInv, alg = "aging", current_time < MAX_TIME,
         NEW r \in Procs \union {NoProc}, Chosen = r,
         timeline' = [timeline EXCEPT ![current_time] = IF r = NoProc THEN Idle ELSE r],
         current_time' = current_time + 1, work' = work, aging_interval' = aging_interval,
         waiting_age' = Aged(r), current_process' \in Procs => current_process' = r /\ Outcome(r) = "more",
         \A i \in Procs : i # r => /\ remaining_time'[i] = remaining_time[i] /\ completed'[i] = completed[i]
                                   /\ blocked_until'[i] = blocked_until[i]
  PROVE  AgingInv'
<1>1. /\ CpuTyped /\ SelTyped /\ CpuTyped' /\ SelTyped' /\ CpuInv /\ work \in Workloads
      /\ \A i \in Procs : waiting_age[i] \in Nat
  <2>1. CpuTyped /\ SelTyped /\ CpuTyped' /\ SelTyped' /\ CpuInv
    BY DEF SelInv, CpuInv
  <2> QED  BY <2>1 DEF CpuTyped, SelTyped
<1>2. \A i \in Procs : waiting_age'[i] = IF i = r THEN 0 ELSE IF is_available(i) THEN waiting_age[i] + 1
                                                              ELSE waiting_age[i]
  BY DEF Aged
<1>3. \A i \in Procs : waiting_age[i] > 0 => is_available(i)
  BY DEF AgingInv
<1>4. \A i \in Procs : waiting_age'[i] > 0 => is_available(i)'
  <2> SUFFICES ASSUME NEW i \in Procs, waiting_age'[i] > 0  PROVE is_available(i)'
    OBVIOUS
  <2>1. i # r /\ is_available(i)
    BY <1>2, <1>3
  <2> QED  BY <1>1, <2>1, StaysAvailable
<1>5. ASSUME current_process' \in Procs
      PROVE  \A k \in 1..Len(work[current_process'].io) :
                work[current_process'].io[k].start # Used(current_process)'
  <2>1. r \in Procs /\ current_process' = r /\ Outcome(r) = "more"
    BY <1>5
  <2>2. r # NoProc
    BY <2>1 DEF Procs, NoProc
  <2>3. is_available(r)
    BY <1>1, <2>2, ChosenFacts DEF SelInv
  <2>4. \A k \in 1..Len(work[r].io) : work[r].io[k].start # Used(r) + 1
    BY <1>1, <2>1, <2>3, DueIsNext DEF Used
  <2>5. Used(r)' = Used(r) + 1
    BY <1>1, <2>1, UnitTyped
  <2>6. Used(current_process)' = Used(r)'
    BY <2>1 DEF Used, Ran
  <2> QED  BY <2>1, <2>4, <2>5, <2>6
<1>6. ASSUME NEW i \in Procs, Excess(i)' >= 0  PROVE \E spent : Passed(i, spent)'
  <2>1. PICK m \in Nat : m = (work[i].priority - 1) * aging_interval
    <3>1. aging_interval \in Nat
      BY <1>1 DEF SelTyped
    <3>2. PICK q \in Nat : q = work[i].priority - 1
      BY <1>1, WorkFacts
    <3>3. q * aging_interval \in Nat
      BY <3>1
    <3> QED  BY <3>2, <3>3
  <2>2. Excess(i) = waiting_age[i] - m /\ Excess(i)' = waiting_age'[i] - m
    BY <2>1 DEF Excess
  <2>3. CASE Excess(i)' <= 0
    <3>1. Excess(i)' = 0
      BY <1>1, <1>2, <1>6, <2>2, <2>3
    <3>2. AtReached'
      BY <1>1, NewlyPassedNext
    <3> QED  BY <3>1, <3>2 DEF AtReached
  <2>4. CASE Excess(i)' > 0
    <3>1. waiting_age'[i] > 0 /\ i # r
      BY <1>1, <1>2, <2>1, <2>2, <2>4
    <3>2. is_available(i) /\ waiting_age'[i] = waiting_age[i] + 1
      BY <1>2, <1>3, <3>1
    <3>3. Excess(i) >= 0
      BY <1>1, <2>1, <2>2, <2>4, <3>2
    <3>4. PICK spent : Passed(i, spent)
      BY <3>3 DEF AgingInv
    <3>5. r \in Procs
      BY <3>2, <3>3, WhoRuns
    <3>6. Passed(i, [spent EXCEPT ![r] = spent[r] + 1])'
      BY <1>1, <3>1, <3>2, <3>3, <3>4, <3>5, RunKeepsPassed
    <3> QED  BY <3>6
  <2> QED  BY <1>1, <1>2, <2>1, <2>2, <2>3, <2>4
<1> QED  BY <1>4, <1>5, <1>6 DEF AgingInv

LEMMA NextKeepsAging == SelInv /\ SelInv' /\ AgingInv /\ [Next]_selVars => AgingInv'
<1> SUFFICES ASSUME SelInv, SelInv', AgingInv, [Next]_selVars  PROVE AgingInv'
  OBVIOUS
<1>1. CASE Return \/ Ended \/ UNCHANGED selVars
  <2>1. UNCHANGED <<work, current_time, timeline, remaining_time, blocked_until, completed,
                    alg, aging_interval, current_process, waiting_age>>
    BY <1>1 DEF Return, Ended, selVars, cpuVars
  <2>2. \A i : Used(i)' = Used(i) /\ Excess(i)' = Excess(i) /\ (is_available(i)' <=> is_available(i))
    BY <2>1 DEF Used, Ran, Excess, is_available
  <2>3. Used(current_process)' = Used(current_process)
    BY <2>1 DEF Used, Ran
  <2>4. \A i, spent : Passed(i, spent) => Passed(i, spent)'
    BY <2>1, <2>2, TotalStays DEF Passed
  <2> QED  BY <2>1, <2>2, <2>3, <2>4 DEF AgingInv
<1>2. CASE alg # "aging" /\ ~(Return \/ Ended \/ UNCHANGED selVars)
  <2>1. alg' = alg
    BY <1>2 DEF Next, IdleUnit, RunUnit
  <2> QED  BY <1>2, <2>1 DEF AgingInv
<1>3. CASE alg = "aging" /\ IdleUnit
  <2>1. /\ Chosen = NoProc /\ current_time < MAX_TIME /\ current_process' = NoProc
        /\ timeline' = [timeline EXCEPT ![current_time] = Idle] /\ current_time' = current_time + 1
        /\ work' = work /\ aging_interval' = aging_interval /\ waiting_age' = Aged(NoProc)
        /\ UNCHANGED <<remaining_time, completed, blocked_until>>
    BY <1>3 DEF IdleUnit, PassTime, Simulating, pcbVars
  <2>2. current_process' \notin Procs
    BY <2>1 DEF Procs, NoProc
  <2> QED  BY <1>3, <2>1, <2>2, UnitKeepsAging
<1>4. ASSUME alg = "aging", NEW r \in Procs, RunUnit(r)  PROVE AgingInv'
  <2>1. /\ Chosen = r /\ current_time < MAX_TIME
        /\ current_process' = IF Outcome(r) = "more" /\ alg # "srtf" THEN r ELSE NoProc
        /\ timeline' = [timeline EXCEPT ![current_time] = r] /\ current_time' = current_time + 1
        /\ work' = work /\ aging_interval' = aging_interval /\ waiting_age' = Aged(r)
    BY <1>4 DEF RunUnit, Execute, Simulating
  <2>2. r # NoProc /\ NoProc \notin Procs
    BY DEF Procs, NoProc
  <2>3. \A i \in Procs : i # r => /\ remaining_time'[i] = remaining_time[i] /\ completed'[i] = completed[i]
                                  /\ blocked_until'[i] = blocked_until[i]
    BY <1>4 DEF RunUnit, Execute, SelInv, CpuInv, CpuTyped
  <2>4. timeline' = [timeline EXCEPT ![current_time] = IF r = NoProc THEN Idle ELSE r]
    BY <2>1, <2>2
  <2>5. current_process' \in Procs => current_process' = r /\ Outcome(r) = "more"
    BY <2>1, <2>2
  <2> QED  BY <1>4, <2>1, <2>3, <2>4, <2>5, UnitKeepsAging
<1> QED  BY <1>1, <1>2, <1>3, <1>4 DEF Next

LEMMA InitAging == Init => AgingInv
<1> SUFFICES ASSUME Init  PROVE AgingInv
  OBVIOUS
<1>1. CpuTyped /\ SelTyped
  BY InitSel DEF SelInv, CpuInv
<1>2. /\ \A i \in Procs : waiting_age[i] = 0 /\ Excess(i) \in Int /\ Excess(i) <= 0
      /\ current_process \notin Procs
  <2>1. \A i \in Procs : waiting_age[i] = 0 /\ current_process \notin Procs
    BY DEF Init, NoProc, Procs
  <2>2. current_process \notin Procs
    BY DEF Init, NoProc, Procs
  <2> QED  BY <1>1, <2>1, <2>2, ExcessFacts
<1>3. AtReached
  BY <1>1, NewlyPassed
<1>4. \A i \in Procs : Excess(i) >= 0 => \E spent : Passed(i, spent)
  <2> SUFFICES ASSUME NEW i \in Procs, Excess(i) >= 0  PROVE \E spent : Passed(i, spent)
    OBVIOUS
  <2>1. Excess(i) = 0
    BY <1>2
  <2> QED  BY <1>3, <2>1 DEF AtReached
<1> QED  BY <1>2, <1>4 DEF AgingInv

\* the longest segments of the others, added up
Others(i) == [j \in Procs \ {i} |-> LongestRun(j)]

LEMMA LongestRunsAre ==
  ASSUME NEW i \in Procs
  PROVE  MapThenSumSet(LongestRun, Procs \ {i}) = Total(Others(i))
<1> DEFINE S == Procs \ {i}
           f == Others(i)
           P(h) == h = [s \in SUBSET S |-> IF s = {} THEN 0 ELSE LongestRun(CHOOSE x \in s : TRUE)
                                                                  + h[s \ {CHOOSE x \in s : TRUE}]]
           Q(h) == Sums(h, S, f)
<1>1. MapThenSumSet(LongestRun, S) = (CHOOSE h : P(h))[S]
  BY DEF MapThenSumSet, MapThenFoldSet
<1>2. Total(f) = (CHOOSE h : Q(h))[S]
  BY DEF Total, SumsOf, Others
<1>3. ASSUME NEW h  PROVE P(h) <=> Q(h)
  <2>1. \A s \in SUBSET S : s # {} => f[NextOf(s)] = LongestRun(CHOOSE x \in s : TRUE)
    BY DEF NextOf, Others
  <2>2. [s \in SUBSET S |-> IF s = {} THEN 0 ELSE LongestRun(CHOOSE x \in s : TRUE)
                                                   + h[s \ {CHOOSE x \in s : TRUE}]]
        = [s \in SUBSET S |-> IF s = {} THEN 0 ELSE f[NextOf(s)] + h[s \ {NextOf(s)}]]
    BY <2>1 DEF NextOf
  <2> QED  BY <2>2 DEF Sums
<1>4. (CHOOSE h : P(h)) = (CHOOSE h : Q(h))
  <2> HIDE DEF P, Q
  <2> QED  BY <1>3, Zenon
<1> HIDE DEF P, Q, f
<1> QED  BY <1>1, <1>2, <1>4 DEF f

\* What the others can have spent without an I/O is at most their longest segments.
LEMMA SpentAtMost ==
  ASSUME CpuInv, NEW i \in Procs
  PROVE  /\ Total(Others(i)) \in Nat
         /\ \A spent : Passed(i, spent) => Total(spent) \in Int /\ Total(spent) <= Total(Others(i))
<1>1. CpuTyped /\ N \in Nat /\ Procs = 1..N /\ IsFiniteSet(Procs)
  BY CpuAssumption, FS_Interval DEF CpuInv, Procs
<1>2. \A j \in Procs : /\ Used(j) \in Nat /\ Used(j) <= work[j].burst
                       /\ work[j].burst \in Nat
                       /\ \A k \in 1..Len(work[j].io) : work[j].io[k].start \in Nat
  <2> TAKE j \in Procs
  <2>1. Used(j) \in Nat /\ Used(j) + remaining_time[j] = work[j].burst /\ remaining_time[j] \in Nat
    BY RanType DEF CpuInv, CpuTyped, CpuTimeUsed, Used
  <2>2. work \in Workloads
    BY <1>1 DEF CpuTyped
  <2>3. work[j].burst \in Nat /\ \A k \in 1..Len(work[j].io) : work[j].io[k].start \in Nat
    BY <2>2, WorkFacts
  <2> QED  BY <2>1, <2>3
<1>3. \A j \in Procs : LongestRun(j) \in Nat
  <2> TAKE j \in Procs
  <2>1. PICK x \in Nat : x = 0
    OBVIOUS
  <2>2. x <= x /\ x <= work[j].burst /\ \A k \in 1..Len(work[j].io) : ~(x < work[j].io[k].start /\ work[j].io[k].start < x)
    BY <1>2, <2>1
  <2>3. LongestRun(j) \in Int /\ x - x <= LongestRun(j)
    BY <1>1, <2>2, SegmentBounds
  <2> QED  BY <2>1, <2>3
<1>4. PICK e \in [Procs -> Nat] : \A j \in Procs : e[j] = IF j = i THEN 0 ELSE LongestRun(j)
  <2>1. [j \in Procs |-> IF j = i THEN 0 ELSE LongestRun(j)] \in [Procs -> Nat]
    BY <1>3
  <2> QED  BY <2>1
<1>5. Total(e) = Total(Others(i))
  <2>1. PICK R : R = Procs \ {i}
    OBVIOUS
  <2>2. PICK o \in [R -> Int] : o = Others(i) /\ \A k \in R : o[k] = e[k]
    <3>1. Others(i) \in [R -> Int] /\ \A k \in R : Others(i)[k] = e[k]
      BY <1>3, <1>4, <2>1 DEF Others
    <3> QED  BY <3>1
  <2>3. e \in [Procs -> Int]
    OBVIOUS
  <2>4. /\ SumsOf(e, Procs)[Procs] = e[i] + SumsOf(o, R)[R]
        /\ e[i] \in Int /\ SumsOf(o, R)[R] \in Int
    <3>1. IsFiniteSet(Procs)
      BY <1>1
    <3>2. \A k \in R : o[k] = e[k]
      BY <2>2
    <3> QED  BY <2>1, <2>3, <3>1, <3>2, SumAppends
  <2>5. DOMAIN o = R /\ DOMAIN e = Procs /\ e[i] = 0
    BY <1>4, <2>2
  <2>6. Total(o) = SumsOf(o, R)[R] /\ Total(e) = SumsOf(e, Procs)[Procs]
    BY <2>5 DEF Total
  <2> QED  BY <2>2, <2>4, <2>5, <2>6
<1>6. \A f \in [Procs -> Nat] : f[i] = 0 /\ (\A j \in Procs : f[j] <= e[j]) =>
         Total(f) \in Int /\ Total(e) \in Int /\ Total(f) <= Total(e)
  <2> SUFFICES ASSUME NEW f \in [Procs -> Nat], f[i] = 0, \A j \in Procs : f[j] <= e[j]
               PROVE  Total(f) \in Int /\ Total(e) \in Int /\ Total(f) <= Total(e)
    OBVIOUS
  <2>1. f \in [1..N -> Int] /\ e \in [1..N -> Int] /\ i \in 1..N /\ \A k \in 1..N : f[k] <= e[k]
    BY <1>1
  <2>2. Total(f) + (e[i] - f[i]) <= Total(e)
    BY <1>1, <2>1, TotalExceeds
  <2>3. Total(f) \in Int /\ Total(e) \in Int
    <3>1. \A h \in [1..N -> Int] : Total(h) = Upto(h, N) /\ \A k \in 0..N : Upto(h, k) \in Int
      BY <1>1, UptoFacts
    <3>2. N \in 0..N
      BY <1>1
    <3> QED  BY <2>1, <3>1, <3>2
  <2>4. e[i] - f[i] = 0
    BY <1>4
  <2> QED  BY <2>2, <2>3, <2>4
<1>7. Total(e) \in Nat
  <2>1. PICK z \in [Procs -> Nat] : \A j \in Procs : z[j] = 0
    <3>1. [j \in Procs |-> 0] \in [Procs -> Nat]
      OBVIOUS
    <3> QED  BY <3>1
  <2>2. Total(z) = 0
    <3>1. z \in [1..N -> Int] /\ \A k \in 1..N : z[k] = 0
      BY <1>1, <2>1
    <3> QED  BY <1>1, <3>1, TotalOfNothing
  <2>3. z[i] = 0 /\ \A j \in Procs : z[j] <= e[j]
    BY <2>1
  <2> QED  BY <1>6, <2>2, <2>3
<1>8. ASSUME NEW spent, Passed(i, spent)  PROVE Total(spent) \in Int /\ Total(spent) <= Total(e)
  <2>1. spent \in [Procs -> Nat] /\ spent[i] = 0
    BY <1>8 DEF Passed
  <2>2. ASSUME NEW j \in Procs, j # i  PROVE spent[j] <= LongestRun(j)
    <3>1. /\ spent[j] <= Used(j)
          /\ \A k \in 1..Len(work[j].io) :
                ~(Used(j) - spent[j] < work[j].io[k].start /\ work[j].io[k].start < Used(j))
      BY <1>8, <2>2 DEF Passed
    <3>2. PICK y \in Nat : y = Used(j)
      BY <1>2
    <3>3. PICK s \in Nat : s = spent[j]
      BY <2>1
    <3>4. PICK x \in Nat : x = y - s
      BY <3>1, <3>2, <3>3
    <3>5. x <= y /\ y - x = s
      BY <3>4
    <3>6. y <= work[j].burst /\ \A k \in 1..Len(work[j].io) : ~(x < work[j].io[k].start /\ work[j].io[k].start < y)
      BY <1>2, <3>1, <3>2, <3>3, <3>4
    <3>7. LongestRun(j) \in Int /\ y - x <= LongestRun(j)
      BY <1>1, <3>5, <3>6, SegmentBounds
    <3> QED  BY <3>3, <3>5, <3>7
  <2>3. \A j \in Procs : spent[j] <= e[j]
    BY <1>4, <2>1, <2>2
  <2> QED  BY <1>6, <2>1, <2>3
<1> QED  BY <1>5, <1>7, <1>8

\* Aging leaves nobody waiting: whatever the processes, one of priority p waits at most
\* (p - 1) * aging_interval units to reach priority 1, and from then on select_priority_aging
\* lets every other one run at most one uninterrupted CPU segment before it.
THEOREM AgingIsFair == Spec => []AgingBoundsWait
<1>1. SelInv /\ AgingInv => AgingBoundsWait
  <2> SUFFICES ASSUME SelInv, AgingInv, alg = "aging", NEW i \in Procs
               PROVE  waiting_age[i] <= (work[i].priority - 1) * aging_interval
                                          + MapThenSumSet(LongestRun, Procs \ {i})
    BY DEF AgingBoundsWait
  <2>1. CpuInv /\ CpuTyped /\ SelTyped
    BY DEF SelInv, CpuInv
  <2>2. PICK s \in Nat : /\ s = MapThenSumSet(LongestRun, Procs \ {i})
                         /\ \A spent : Passed(i, spent) => Total(spent) \in Int /\ Total(spent) <= s
    BY <2>1, SpentAtMost, LongestRunsAre
  <2>3. waiting_age[i] \in Nat /\ work \in Workloads /\ aging_interval \in Nat
    BY <2>1 DEF CpuTyped, SelTyped
  <2>4. work[i].priority \in Nat
    BY <2>3, WorkFacts
  <2>5. PICK m \in Int : m = (work[i].priority - 1) * aging_interval
    BY <2>3, <2>4
  <2>6. Excess(i) = waiting_age[i] - m
    BY <2>5 DEF Excess
  <2>7. Excess(i) <= s
    <3>1. CASE Excess(i) < 0
      BY <2>2, <2>3, <2>5, <2>6, <3>1
    <3>2. CASE Excess(i) >= 0
      <4>1. PICK spent : Passed(i, spent)
        BY <3>2 DEF AgingInv
      <4> QED  BY <2>2, <4>1 DEF Passed
    <3> QED  BY <2>3, <2>5, <2>6, <3>1, <3>2
  <2>8. waiting_age[i] <= m + s
    BY <2>2, <2>3, <2>5, <2>6, <2>7
  <2> QED  BY <2>2, <2>5, <2>8
<1> QED  BY <1>1, InitAging, NextKeepsAging, SelInvariance, PTL DEF Spec

-----------------------------------------------------------------------------
(* Preemptive SJF and the least sum of completion times.  LeastCompletion   *)
(* is a CHOOSE of a function of the time and of what is left; there is one, *)
(* and it is found by induction from the runs that have nothing left (the   *)
(* Measure of a state becomes less with every unit).                        *)

\* the CPU time each process still needs; and after one more unit of p[i]
Left == [Procs -> Nat]
Served(left, i) == [left EXCEPT ![i] = left[i] - 1]

Ready(w, t, left) == {i \in Procs : left[i] > 0 /\ w[i].arrival <= t}
Cost(t, left, i)  == IF left[i] = 1 THEN t + 1 ELSE 0
Turn(F, t, left, i) == Cost(t, left, i) + F[t + 1][Served(left, i)]
Optimum(w, F, t, left) ==
  IF \A i \in Procs : left[i] = 0 THEN 0
  ELSE IF Ready(w, t, left) = {} THEN F[t + 1][left]
  ELSE Min({Turn(F, t, left, i) : i \in Ready(w, t, left)})

\* F is the function From of LeastCompletion, for the workload w
IsLeast(w, F) == F = [t \in Nat |-> [left \in Left |-> Optimum(w, F, t, left)]]

LEMMA LeastIs ==
  LeastCompletion = (CHOOSE F : IsLeast(work, F))[0][[i \in Procs |-> work[i].burst]]
BY DEF LeastCompletion, IsLeast, Optimum, Turn, Cost, Ready, Served, Left

\* everybody has arrived by d
ArrivedBy(w, d) == \A i \in Procs : w[i].arrival \in Nat /\ w[i].arrival <= d

\* what becomes less with every unit
Measure(d, t, left) == Total(left) + IF t < d THEN d - t ELSE 0

LEMMA ProcsFinite == N \in Nat /\ Procs = 1..N /\ IsFiniteSet(Procs)
BY CpuAssumption, FS_Interval DEF Procs

LEMMA LeftTotal ==
  ASSUME NEW left \in Left
  PROVE  /\ Total(left) \in Nat
         /\ \A i \in Procs : left[i] > 0 => Served(left, i) \in Left /\ Total(Served(left, i)) = Total(left) - 1
<1>1. Total(left) \in Nat
  <2>1. left \in [1..N -> Nat]
    BY ProcsFinite DEF Left
  <2>2. N \in Nat
    BY ProcsFinite
  <2> QED  BY <2>1, <2>2, TotalIsNat
<1>2. ASSUME NEW i \in Procs, left[i] > 0
      PROVE  Served(left, i) \in Left /\ Total(Served(left, i)) = Total(left) - 1
  <2>1. left \in [Procs -> Int] /\ left[i] \in Nat
    BY DEF Left
  <2>2. PICK g \in Left : g = Served(left, i) /\ g[i] = left[i] - 1 /\ \A k \in Procs : k # i => g[k] = left[k]
    <3>1. left[i] - 1 \in Nat
      BY <1>2, <2>1
    <3>2. Served(left, i) \in Left
      BY <3>1 DEF Served, Left
    <3>3. Served(left, i)[i] = left[i] - 1 /\ \A k \in Procs : k # i => Served(left, i)[k] = left[k]
      BY DEF Served, Left
    <3> QED  BY <3>2, <3>3
  <2>3. g \in [Procs -> Int]
    BY DEF Left
  <2>4. Total(left) \in Int /\ Total(g) \in Int /\ Total(g) = Total(left) + (g[i] - left[i])
    <3>1. IsFiniteSet(Procs)
      BY ProcsFinite
    <3>2. \A k \in Procs : k # i => g[k] = left[k]
      BY <2>2
    <3> QED  BY <2>1, <2>3, <3>1, <3>2, TotalDiffers
  <2> QED  BY <2>1, <2>2, <2>4
<1> QED  BY <1>1, <1>2

LEMMA MeasureFalls ==
  ASSUME NEW w, NEW d \in Nat, ArrivedBy(w, d), NEW t \in Nat, NEW left \in Left
  PROVE  /\ Measure(d, t, left) \in Nat
         /\ \A i \in Ready(w, t, left) : /\ Served(left, i) \in Left
                                         /\ Measure(d, t + 1, Served(left, i)) < Measure(d, t, left)
         /\ Ready(w, t, left) = {} /\ (\E i \in Procs : left[i] # 0) =>
              Measure(d, t + 1, left) < Measure(d, t, left)
<1>1. Total(left) \in Nat
  BY LeftTotal
<1>2. ASSUME NEW i \in Ready(w, t, left)
      PROVE  Served(left, i) \in Left /\ Measure(d, t + 1, Served(left, i)) < Measure(d, t, left)
  <2>1. i \in Procs /\ left[i] > 0
    BY DEF Ready
  <2>2. Served(left, i) \in Left /\ Total(Served(left, i)) = Total(left) - 1
    BY <2>1, LeftTotal
  <2> QED  BY <1>1, <2>2 DEF Measure
<1>3. ASSUME Ready(w, t, left) = {}, NEW i \in Procs, left[i] # 0
      PROVE  Measure(d, t + 1, left) < Measure(d, t, left)
  <2>1. left[i] > 0 /\ w[i].arrival \in Nat /\ w[i].arrival <= d
    BY <1>3 DEF Left, ArrivedBy
  <2>2. t < w[i].arrival
    BY <1>3, <2>1 DEF Ready
  <2>3. t < d
    BY <2>1, <2>2
  <2> QED  BY <1>1, <2>3 DEF Measure
<1> QED  BY <1>1, <1>2, <1>3 DEF Measure

\* Induction from the states with nothing left backwards, over the runs.
LEMMA Backwards ==
  ASSUME NEW w, NEW d \in Nat, ArrivedBy(w, d), NEW G,
         \A t \in Nat : \A left \in Left :
            (\A i \in Ready(w, t, left) : Served(left, i) \in G[t + 1]) /\
            (Ready(w, t, left) = {} /\ (\E i \in Procs : left[i] # 0) => left \in G[t + 1])
              => left \in G[t]
  PROVE  \A t \in Nat : \A left \in Left : left \in G[t]
<1> DEFINE T == {n \in Nat : \A t \in Nat : \A left \in Left : Measure(d, t, left) < n => left \in G[t]}
<1>1. \A t \in Nat : \A left \in Left : Measure(d, t, left) \in Nat
  BY MeasureFalls
<1>2. 0 \in T
  BY <1>1
<1>3. ASSUME NEW n \in T  PROVE n + 1 \in T
  <2> SUFFICES ASSUME NEW t \in Nat, NEW left \in Left, Measure(d, t, left) < n + 1  PROVE left \in G[t]
    OBVIOUS
  <2>0. n \in Nat /\ \A u \in Nat : \A l \in Left : Measure(d, u, l) < n => l \in G[u]
    OBVIOUS
  <2> HIDE DEF T
  <2>1. /\ \A i \in Ready(w, t, left) : /\ Served(left, i) \in Left
                                        /\ Measure(d, t + 1, Served(left, i)) < Measure(d, t, left)
        /\ Ready(w, t, left) = {} /\ (\E i \in Procs : left[i] # 0) =>
             Measure(d, t + 1, left) < Measure(d, t, left)
    BY MeasureFalls
  <2>2. \A l \in Left : Measure(d, t + 1, l) < Measure(d, t, left) => l \in G[t + 1]
    <3> SUFFICES ASSUME NEW l \in Left, Measure(d, t + 1, l) < Measure(d, t, left)  PROVE l \in G[t + 1]
      OBVIOUS
    <3>1. t + 1 \in Nat
      OBVIOUS
    <3>2. Measure(d, t + 1, l) \in Nat /\ Measure(d, t, left) \in Nat
      BY <1>1, <3>1
    <3>3. Measure(d, t + 1, l) < n
      BY <2>0, <3>2
    <3> QED  BY <2>0, <3>1, <3>3
  <2>3. /\ \A i \in Ready(w, t, left) : Served(left, i) \in G[t + 1]
        /\ Ready(w, t, left) = {} /\ (\E i \in Procs : left[i] # 0) => left \in G[t + 1]
    BY <2>1, <2>2
  <2> QED  BY <2>3
<1>4. T = Nat
  <2> HIDE DEF T
  <2> QED  BY <1>2, <1>3, Induction DEF T
<1>5. ASSUME NEW t \in Nat, NEW left \in Left  PROVE left \in G[t]
  <2>1. PICK m \in Nat : m = Measure(d, t, left)
    BY <1>1
  <2>2. m + 1 \in T
    <3> HIDE DEF T
    <3> QED  BY <1>4
  <2>3. Measure(d, t, left) < m + 1
    BY <2>1
  <2>4. \A u \in Nat : \A l \in Left : Measure(d, u, l) < m + 1 => l \in G[u]
    BY <2>2
  <2> HIDE DEF T
  <2> QED  BY <2>3, <2>4
<1> QED  BY <1>5

\* Optimum looks at what can be left one unit later.
LEMMA OptimumAgrees ==
  ASSUME NEW w, NEW t, NEW left, NEW F, NEW H,
         \A i \in Ready(w, t, left) : F[t + 1][Served(left, i)] = H[t + 1][Served(left, i)],
         Ready(w, t, left) = {} /\ (\E i \in Procs : left[i] # 0) => F[t + 1][left] = H[t + 1][left]
  PROVE  Optimum(w, F, t, left) = Optimum(w, H, t, left)
<1>1. \A i \in Ready(w, t, left) : Turn(F, t, left, i) = Turn(H, t, left, i)
  BY DEF Turn
<1>2. {Turn(F, t, left, i) : i \in Ready(w, t, left)} = {Turn(H, t, left, i) : i \in Ready(w, t, left)}
  BY <1>1
<1> QED  BY <1>2 DEF Optimum

\* h is the least completion time where the measure is below n
Below(w, d, h, n) == \A t \in Nat : \A left \in Left :
                        Measure(d, t, left) < n => h[t][left] = Optimum(w, h, t, left)

LEMMA BelowExists ==
  ASSUME NEW w, NEW d \in Nat, ArrivedBy(w, d)
  PROVE  \A n \in Nat : \E h : Below(w, d, h, n)
<1> DEFINE T == {n \in Nat : \E h : Below(w, d, h, n)}
<1>1. \A t \in Nat : \A left \in Left : Measure(d, t, left) \in Nat
  BY MeasureFalls
<1>2. 0 \in T
  BY <1>1 DEF Below
<1>3. ASSUME NEW n \in T  PROVE n + 1 \in T
  <2>1. PICK h : Below(w, d, h, n)
    OBVIOUS
  <2>2. n \in Nat
    OBVIOUS
  <2> DEFINE g == [t \in Nat |-> [left \in Left |-> Optimum(w, h, t, left)]]
  <2>3. \A t \in Nat : \A left \in Left : Measure(d, t, left) < n => g[t][left] = h[t][left]
    BY <2>1 DEF Below
  <2>4. ASSUME NEW t \in Nat, NEW left \in Left, Measure(d, t, left) < n + 1
        PROVE  g[t][left] = Optimum(w, g, t, left)
    <3>1. /\ \A i \in Ready(w, t, left) : /\ Served(left, i) \in Left
                                          /\ Measure(d, t + 1, Served(left, i)) < Measure(d, t, left)
          /\ Ready(w, t, left) = {} /\ (\E i \in Procs : left[i] # 0) =>
               Measure(d, t + 1, left) < Measure(d, t, left)
      BY MeasureFalls
    <3>2. \A l \in Left : Measure(d, t + 1, l) < Measure(d, t, left) => g[t + 1][l] = h[t + 1][l]
      <4> SUFFICES ASSUME NEW l \in Left, Measure(d, t + 1, l) < Measure(d, t, left)
                   PROVE  g[t + 1][l] = h[t + 1][l]
        OBVIOUS
      <4>1. t + 1 \in Nat
        OBVIOUS
      <4>2. Measure(d, t + 1, l) \in Nat /\ Measure(d, t, left) \in Nat
        BY <1>1, <4>1
      <4> HIDE DEF g, T
      <4>3. Measure(d, t + 1, l) < n
        BY <2>2, <2>4, <4>2
      <4> QED  BY <2>3, <4>1, <4>3
    <3>3. g[t][left] = Optimum(w, h, t, left)
      OBVIOUS
    <3> HIDE DEF g, T
    <3>4. /\ \A i \in Ready(w, t, left) : g[t + 1][Served(left, i)] = h[t + 1][Served(left, i)]
          /\ Ready(w, t, left) = {} /\ (\E i \in Procs : left[i] # 0) => g[t + 1][left] = h[t + 1][left]
      BY <3>1, <3>2
    <3>5. Optimum(w, g, t, left) = Optimum(w, h, t, left)
      BY <3>4, OptimumAgrees
    <3> QED  BY <3>3, <3>5
  <2>5. Below(w, d, g, n + 1)
    <3> HIDE DEF g, T
    <3> QED  BY <2>4 DEF Below
  <2> HIDE DEF g
  <2> QED  BY <2>2, <2>5
<1>4. T = Nat
  <2> HIDE DEF T
  <2> QED  BY <1>2, <1>3, Induction DEF T
<1> QED  BY <1>4

LEMMA BelowAgree ==
  ASSUME NEW w, NEW d \in Nat, ArrivedBy(w, d), NEW g, NEW h, NEW n \in Nat, Below(w, d, g, n), Below(w, d, h, n)
  PROVE  \A t \in Nat : \A left \in Left : Measure(d, t, left) < n => g[t][left] = h[t][left]
<1> DEFINE G == [t \in Nat |-> {left \in Left : Measure(d, t, left) < n => g[t][left] = h[t][left]}]
<1>1. \A t \in Nat : \A left \in Left : Measure(d, t, left) \in Nat
  BY MeasureFalls
<1>2. ASSUME NEW t \in Nat, NEW left \in Left,
             \A i \in Ready(w, t, left) : Served(left, i) \in G[t + 1],
             Ready(w, t, left) = {} /\ (\E i \in Procs : left[i] # 0) => left \in G[t + 1]
      PROVE  left \in G[t]
  <2> SUFFICES ASSUME Measure(d, t, left) < n  PROVE g[t][left] = h[t][left]
    OBVIOUS
  <2>1. t + 1 \in Nat
    OBVIOUS
  <2>2. \A l \in Left : l \in G[t + 1] /\ Measure(d, t + 1, l) < n => g[t + 1][l] = h[t + 1][l]
    BY <2>1
  <2>3. /\ \A i \in Ready(w, t, left) : /\ Served(left, i) \in Left
                                        /\ Measure(d, t + 1, Served(left, i)) < Measure(d, t, left)
        /\ Ready(w, t, left) = {} /\ (\E i \in Procs : left[i] # 0) =>
             Measure(d, t + 1, left) < Measure(d, t, left)
    BY MeasureFalls
  <2> HIDE DEF G
  <2>4. \A l \in Left : Measure(d, t + 1, l) < Measure(d, t, left) => Measure(d, t + 1, l) < n
    <3> SUFFICES ASSUME NEW l \in Left, Measure(d, t + 1, l) < Measure(d, t, left)
                 PROVE  Measure(d, t + 1, l) < n
      OBVIOUS
    <3>1. Measure(d, t + 1, l) \in Nat /\ Measure(d, t, left) \in Nat
      BY <1>1, <2>1
    <3> QED  BY <3>1
  <2>5. /\ \A i \in Ready(w, t, left) : g[t + 1][Served(left, i)] = h[t + 1][Served(left, i)]
        /\ Ready(w, t, left) = {} /\ (\E i \in Procs : left[i] # 0) => g[t + 1][left] = h[t + 1][left]
    BY <1>2, <2>2, <2>3, <2>4
  <2>6. Optimum(w, g, t, left) = Optimum(w, h, t, left)
    BY <2>5, OptimumAgrees
  <2> QED  BY <2>6 DEF Below
<1>3. \A t \in Nat : \A left \in Left : left \in G[t]
  <2> HIDE DEF G
  <2> QED  BY <1>2, Backwards
<1> QED  BY <1>3

LEMMA LeastExists ==
  ASSUME NEW w, NEW d \in Nat, ArrivedBy(w, d)
  PROVE  \E F : IsLeast(w, F)
<1> DEFINE Pick(t, left) == CHOOSE h : Below(w, d, h, Measure(d, t, left) + 1)
           F == [t \in Nat |-> [left \in Left |-> Pick(t, left)[t][left]]]
<1>1. \A t \in Nat : \A left \in Left : Measure(d, t, left) \in Nat
  BY MeasureFalls
<1>2. ASSUME NEW t \in Nat, NEW left \in Left  PROVE Below(w, d, Pick(t, left), Measure(d, t, left) + 1)
  <2>1. PICK n \in Nat : n = Measure(d, t, left) + 1
    BY <1>1
  <2>2. \E h : Below(w, d, h, n)
    BY BelowExists
  <2> QED  BY <2>1, <2>2
<1>3. \A t \in Nat : \A left \in Left : F[t][left] = Pick(t, left)[t][left]
  OBVIOUS
<1> HIDE DEF Pick
<1>4. ASSUME NEW t \in Nat, NEW left \in Left  PROVE F[t][left] = Optimum(w, F, t, left)
  <2>1. PICK h : h = Pick(t, left) /\ Below(w, d, h, Measure(d, t, left) + 1)
    BY <1>2
  <2>2. t + 1 \in Nat /\ Measure(d, t, left) < Measure(d, t, left) + 1
    BY <1>1
  <2>3. h[t][left] = Optimum(w, h, t, left)
    BY <2>1, <2>2 DEF Below
  <2>4. ASSUME NEW l \in Left, Measure(d, t + 1, l) < Measure(d, t, left)
        PROVE  F[t + 1][l] = h[t + 1][l]
    <3> DEFINE g == Pick(t + 1, l)
    <3>1. PICK n \in Nat : n = Measure(d, t + 1, l) + 1
      BY <1>1, <2>2
    <3>2. Below(w, d, g, n)
      BY <1>2, <2>2, <3>1
    <3>3. Below(w, d, h, n)
      <4>1. PICK m \in Nat : m = Measure(d, t, left)
        BY <1>1
      <4>2. n <= m + 1
        <5>1. Measure(d, t + 1, l) \in Nat
          BY <1>1, <2>2
        <5> QED  BY <2>4, <3>1, <4>1, <5>1
      <4>3. ASSUME NEW u \in Nat, NEW k \in Left, Measure(d, u, k) < n  PROVE h[u][k] = Optimum(w, h, u, k)
        <5>1. Measure(d, u, k) \in Nat
          BY <1>1
        <5>2. Measure(d, u, k) < Measure(d, t, left) + 1
          BY <4>1, <4>2, <4>3, <5>1
        <5> QED  BY <2>1, <5>2 DEF Below
      <4> QED  BY <4>3 DEF Below
    <3>4. Measure(d, t + 1, l) < n
      BY <1>1, <2>2, <3>1
    <3> HIDE DEF g
    <3>5. \A u \in Nat : \A k \in Left : Measure(d, u, k) < n => g[u][k] = h[u][k]
      BY <3>2, <3>3, BelowAgree
    <3>6. g[t + 1][l] = h[t + 1][l]
      BY <2>2, <3>4, <3>5
    <3>7. F[t + 1][l] = g[t + 1][l]
      BY <1>3, <2>2 DEF g
    <3> QED  BY <3>6, <3>7
  <2> HIDE DEF F
  <2>5. /\ \A i \in Ready(w, t, left) : /\ Served(left, i) \in Left
                                        /\ Measure(d, t + 1, Served(left, i)) < Measure(d, t, left)
        /\ Ready(w, t, left) = {} /\ (\E i \in Procs : left[i] # 0) =>
             Measure(d, t + 1, left) < Measure(d, t, left)
    BY MeasureFalls
  <2>6. /\ \A i \in Ready(w, t, left) : F[t + 1][Served(left, i)] = h[t + 1][Served(left, i)]
        /\ Ready(w, t, left) = {} /\ (\E i \in Procs : left[i] # 0) => F[t + 1][left] = h[t + 1][left]
    BY <2>4, <2>5
  <2>7. Optimum(w, F, t, left) = Optimum(w, h, t, left)
    BY <2>6, OptimumAgrees
  <2> QED  BY <1>3, <2>1, <2>3, <2>7
<1>5. IsLeast(w, F)
  <2>1. F = [t \in Nat |-> [left \in Left |-> F[t][left]]]
    OBVIOUS
  <2> HIDE DEF F
  <2> QED  BY <1>4, <2>1 DEF IsLeast
<1> QED  BY <1>5
LEMMA LeastFacts ==
  ASSUME NEW w, NEW d \in Nat, ArrivedBy(w, d), NEW F, IsLeast(w, F)
  PROVE  \A t \in Nat : \A left \in Left :
           /\ F[t][left] \in Nat
           /\ (\A i \in Procs : left[i] = 0) => F[t][left] = 0
           /\ Ready(w, t, left) = {} /\ (\E i \in Procs : left[i] # 0) => F[t][left] = F[t + 1][left]
           /\ \A i \in Ready(w, t, left) : Turn(F, t, left, i) \in Nat /\ F[t][left] <= Turn(F, t, left, i)
           /\ Ready(w, t, left) # {} => \E k \in Ready(w, t, left) : F[t][left] = Turn(F, t, left, k)
<1> DEFINE G == [t \in Nat |-> {left \in Left : F[t][left] \in Nat}]
<1>1. \A t \in Nat : \A left \in Left : F[t][left] = Optimum(w, F, t, left)
  <2>1. PICK H : /\ H = [t \in Nat |-> [left \in Left |-> Optimum(w, F, t, left)]]
                 /\ \A t \in Nat : \A left \in Left : H[t][left] = Optimum(w, F, t, left)
    <3> DEFINE H == [t \in Nat |-> [left \in Left |-> Optimum(w, F, t, left)]]
    <3>1. \A t \in Nat : \A left \in Left : H[t][left] = Optimum(w, F, t, left)
      OBVIOUS
    <3>2. H = [t \in Nat |-> [left \in Left |-> Optimum(w, F, t, left)]]
      OBVIOUS
    <3> HIDE DEF H
    <3> QED  BY <3>1, <3>2
  <2>2. F = H
    BY <2>1 DEF IsLeast
  <2> QED  BY <2>1, <2>2
<1>2. ASSUME NEW t \in Nat, NEW left \in Left, Ready(w, t, left) # {},
             \A i \in Ready(w, t, left) : Turn(F, t, left, i) \in Nat
      PROVE  /\ F[t][left] \in Nat
             /\ \A i \in Ready(w, t, left) : F[t][left] <= Turn(F, t, left, i)
             /\ \E k \in Ready(w, t, left) : F[t][left] = Turn(F, t, left, k)
  <2> DEFINE S == {Turn(F, t, left, i) : i \in Ready(w, t, left)}
  <2>1. S \in SUBSET Nat /\ S # {}
    BY <1>2
  <2>2. Min(S) \in S /\ \A x \in S : Min(S) <= x
    <3> HIDE DEF S
    <3> QED  BY <2>1, LeastIsMin
  <2>3. F[t][left] = Min(S)
    <3>1. ~\A i \in Procs : left[i] = 0
      BY <1>2 DEF Ready
    <3>2. Optimum(w, F, t, left) = Min(S)
      BY <1>2, <3>1 DEF Optimum
    <3> QED  BY <1>1, <3>2
  <2>4. \A i \in Ready(w, t, left) : Turn(F, t, left, i) \in S
    OBVIOUS
  <2>5. \A x \in S : \E k \in Ready(w, t, left) : x = Turn(F, t, left, k)
    OBVIOUS
  <2> HIDE DEF S
  <2> QED  BY <2>1, <2>2, <2>3, <2>4, <2>5
<1>3. ASSUME NEW t \in Nat, NEW left \in Left
      PROVE  /\ (\A i \in Procs : left[i] = 0) => F[t][left] = 0
             /\ Ready(w, t, left) = {} /\ (\E i \in Procs : left[i] # 0) => F[t][left] = F[t + 1][left]
  <2>1. F[t][left] = Optimum(w, F, t, left)
    BY <1>1
  <2>2. /\ (\A i \in Procs : left[i] = 0) => Optimum(w, F, t, left) = 0
        /\ Ready(w, t, left) = {} /\ (\E i \in Procs : left[i] # 0) => Optimum(w, F, t, left) = F[t + 1][left]
    BY Zenon DEF Optimum
  <2> QED  BY <2>1, <2>2
<1>4. ASSUME NEW t \in Nat, NEW left, NEW i \in Ready(w, t, left), F[t + 1][Served(left, i)] \in Nat
      PROVE  Turn(F, t, left, i) \in Nat
  BY <1>4 DEF Turn, Cost
<1>5. ASSUME NEW t \in Nat, NEW left \in Left,
             \A i \in Ready(w, t, left) : Served(left, i) \in G[t + 1],
             Ready(w, t, left) = {} /\ (\E i \in Procs : left[i] # 0) => left \in G[t + 1]
      PROVE  left \in G[t]
  <2>1. t + 1 \in Nat
    OBVIOUS
  <2>2. CASE Ready(w, t, left) = {}
    BY <1>3, <1>5, <2>1, <2>2
  <2>3. CASE Ready(w, t, left) # {}
    <3>1. \A i \in Ready(w, t, left) : F[t + 1][Served(left, i)] \in Nat
      BY <1>5, <2>1
    <3>2. \A i \in Ready(w, t, left) : Turn(F, t, left, i) \in Nat
      BY <1>4, <3>1
    <3>3. F[t][left] \in Nat
      BY <1>2, <2>3, <3>2
    <3> QED  BY <3>3
  <2> QED  BY <2>2, <2>3
<1>6. \A t \in Nat : \A left \in Left : left \in G[t]
  <2> HIDE DEF G
  <2> QED  BY <1>5, Backwards
<1>7. \A t \in Nat : \A left \in Left : F[t][left] \in Nat
  BY <1>6
<1> HIDE DEF G
<1>8. ASSUME NEW t \in Nat, NEW left \in Left, NEW i \in Ready(w, t, left)
      PROVE  Turn(F, t, left, i) \in Nat
  <2>1. i \in Procs /\ left[i] > 0 /\ t + 1 \in Nat
    BY DEF Ready
  <2>2. Served(left, i) \in Left
    BY <2>1, LeftTotal
  <2> QED  BY <1>4, <1>7, <2>1, <2>2
<1>9. ASSUME NEW t \in Nat, NEW left \in Left
      PROVE  /\ \A i \in Ready(w, t, left) : F[t][left] <= Turn(F, t, left, i)
             /\ Ready(w, t, left) # {} => \E k \in Ready(w, t, left) : F[t][left] = Turn(F, t, left, k)
  BY <1>2, <1>8
<1> QED  BY <1>3, <1>7, <1>8, <1>9

-----------------------------------------------------------------------------
(* The exchange.  Take two processes that have arrived: it is better to     *)
(* have one of them nearer its end than to have both half done.             *)

\* p[i] and p[j] need as much together in A as in B, and p[i] no more in A than either
\* of them in B
Spread(i, j, A, B) ==
  /\ \A k \in Procs : k # i /\ k # j => A[k] = B[k]
  /\ A[i] + A[j] = B[i] + B[j] /\ A[i] <= B[i] /\ A[i] <= B[j]

\* what those of p[i] and p[j] that are done have cost at least, were it now
Paid(i, j, t, left)  == (IF left[i] = 0 THEN t ELSE 0) + (IF left[j] = 0 THEN t ELSE 0)
DoneOf(i, j, left) == (IF left[i] = 0 THEN 1 ELSE 0) + (IF left[j] = 0 THEN 1 ELSE 0)

LEMMA ServedIs ==
  ASSUME NEW left \in Left, NEW k \in Procs, left[k] > 0
  PROVE  /\ left \in [Procs -> Nat]
         /\ Served(left, k) \in Left /\ Served(left, k) \in [Procs -> Nat]
         /\ Served(left, k)[k] = left[k] - 1
         /\ \A m \in Procs : m # k => Served(left, k)[m] = left[m]
<1>1. left \in [Procs -> Nat] /\ left[k] - 1 \in Nat
  BY DEF Left
<1> QED  BY <1>1 DEF Served, Left

\* For each unit of B there is one of A that leaves them so.
LEMMA SpreadFollows ==
  ASSUME NEW i \in Procs, NEW j \in Procs, i # j, NEW A \in Left, NEW B \in Left, Spread(i, j, A, B),
         NEW k \in Procs, B[k] > 0
  PROVE  \E r \in Procs : /\ A[r] > 0 /\ Spread(i, j, Served(A, r), Served(B, k))
                          /\ k \in {i, j} => r \in {i, j}
                          /\ k \notin {i, j} => r = k
<1>0. /\ A \in [Procs -> Nat] /\ B \in [Procs -> Nat]
      /\ \A m \in Procs : A[m] \in Nat /\ B[m] \in Nat
  BY DEF Left
<1>1. /\ \A m \in Procs : m # i /\ m # j => A[m] = B[m]
      /\ A[i] + A[j] = B[i] + B[j] /\ A[i] <= B[i] /\ A[i] <= B[j]
  BY DEF Spread
<1>2. PICK b \in Left : /\ b = Served(B, k) /\ b[k] = B[k] - 1 /\ \A m \in Procs : m # k => b[m] = B[m]
                        /\ \A m \in Procs : b[m] \in Nat
  <2>1. Served(B, k) \in Left /\ Served(B, k)[k] = B[k] - 1 /\ \A m \in Procs : m # k => Served(B, k)[m] = B[m]
    BY ServedIs
  <2> QED  BY <2>1 DEF Left
<1>3. ASSUME NEW r \in Procs, A[r] > 0,
             \A a \in Left : a[r] = A[r] - 1 /\ (\A m \in Procs : m # r => a[m] = A[m])
                             /\ (\A m \in Procs : a[m] \in Nat) => Spread(i, j, a, b)
      PROVE  Spread(i, j, Served(A, r), Served(B, k))
  <2>1. /\ Served(A, r) \in Left /\ Served(A, r)[r] = A[r] - 1
        /\ \A m \in Procs : m # r => Served(A, r)[m] = A[m]
    BY <1>3, ServedIs
  <2>2. \A m \in Procs : Served(A, r)[m] \in Nat
    BY <2>1 DEF Left
  <2> QED  BY <1>2, <1>3, <2>1, <2>2
<1>4. CASE k \notin {i, j}
  <2>1. A[k] > 0 /\ A[k] = B[k]
    BY <1>1, <1>4
  <2>2. \A a \in Left : a[k] = A[k] - 1 /\ (\A m \in Procs : m # k => a[m] = A[m])
                        /\ (\A m \in Procs : a[m] \in Nat) => Spread(i, j, a, b)
    BY <1>1, <1>2, <1>4, <2>1 DEF Spread
  <2> QED  BY <1>3, <1>4, <2>1, <2>2
<1>5. CASE k \in {i, j} /\ A[i] <= b[i] /\ A[i] <= b[j]
  <2>1. b[i] + b[j] = B[i] + B[j] - 1 /\ b[i] \in Nat /\ b[j] \in Nat
    BY <1>0, <1>2, <1>5
  <2>2. A[j] > 0
    BY <1>0, <1>1, <1>5, <2>1
  <2>3. ASSUME NEW a \in Left, a[j] = A[j] - 1, \A m \in Procs : m # j => a[m] = A[m],
               \A m \in Procs : a[m] \in Nat
        PROVE  Spread(i, j, a, b)
    <3>1. a[i] = A[i]
      BY <2>3
    <3>2. a[i] + a[j] = b[i] + b[j] /\ a[i] <= b[i] /\ a[i] <= b[j]
      BY <1>0, <1>1, <1>5, <2>1, <2>3, <3>1
    <3>3. \A m \in Procs : m # i /\ m # j => a[m] = b[m]
      BY <1>1, <1>2, <1>5, <2>3
    <3> QED  BY <3>2, <3>3 DEF Spread
  <2> QED  BY <1>3, <1>5, <2>2, <2>3
<1>6. CASE k \in {i, j} /\ ~(A[i] <= b[i] /\ A[i] <= b[j])
  <2>1. b[i] + b[j] = B[i] + B[j] - 1 /\ b[i] \in Nat /\ b[j] \in Nat
    BY <1>0, <1>2, <1>6
  <2>2. A[i] = B[k] /\ A[i] > 0
    <3>1. CASE k = i
      BY <1>0, <1>1, <1>2, <1>6, <3>1
    <3>2. CASE k = j
      BY <1>0, <1>1, <1>2, <1>6, <3>2
    <3> QED  BY <1>6, <3>1, <3>2
  <2>3. ASSUME NEW a \in Left, a[i] = A[i] - 1, \A m \in Procs : m # i => a[m] = A[m],
               \A m \in Procs : a[m] \in Nat
        PROVE  Spread(i, j, a, b)
    <3>1. a[j] = A[j]
      BY <2>3
    <3>2. a[i] + a[j] = b[i] + b[j]
      BY <1>0, <1>1, <2>1, <2>3, <3>1
    <3>3. a[i] <= b[i] /\ a[i] <= b[j]
      <4>1. CASE k = i
        BY <1>0, <1>1, <1>2, <2>2, <2>3, <4>1
      <4>2. CASE k = j
        BY <1>0, <1>1, <1>2, <2>2, <2>3, <4>2
      <4> QED  BY <1>6, <4>1, <4>2
    <3>4. \A m \in Procs : m # i /\ m # j => a[m] = b[m]
      BY <1>1, <1>2, <1>6, <2>3
    <3> QED  BY <3>2, <3>3, <3>4 DEF Spread
  <2> QED  BY <1>3, <1>6, <2>2, <2>3
<1> QED  BY <1>4, <1>5, <1>6

\* One unit later, those that were done would have cost one more each.
LEMMA PaidLater ==
  ASSUME NEW i \in Procs, NEW j \in Procs, i # j, NEW t \in Nat, NEW left \in Left, NEW k \in Procs, left[k] > 0
  PROVE  Cost(t, left, k) + Paid(i, j, t, left) + DoneOf(i, j, left)
           = Paid(i, j, t + 1, Served(left, k)) + IF k \in {i, j} THEN 0 ELSE Cost(t, left, k)
<1>1. \A m \in Procs : left[m] \in Nat
  BY DEF Left
<1>2. Served(left, k)[k] = left[k] - 1 /\ \A m \in Procs : m # k => Served(left, k)[m] = left[m]
  BY ServedIs
<1>3. CASE k = i
  BY <1>1, <1>2, <1>3 DEF Cost, Paid, DoneOf
<1>4. CASE k = j
  BY <1>1, <1>2, <1>4 DEF Cost, Paid, DoneOf
<1>5. CASE k # i /\ k # j
  BY <1>1, <1>2, <1>5 DEF Cost, Paid, DoneOf
<1> QED  BY <1>3, <1>4, <1>5

LEMMA SpreadIsBetter ==
  ASSUME NEW w, NEW d \in Nat, ArrivedBy(w, d), NEW F, IsLeast(w, F), NEW i \in Procs, NEW j \in Procs, i # j
  PROVE  \A t \in Nat : \A A, B \in Left :
           w[i].arrival <= t /\ w[j].arrival <= t /\ Spread(i, j, A, B) =>
             F[t][A] + Paid(i, j, t, A) <= F[t][B] + Paid(i, j, t, B)
<1> DEFINE Gains(t, B) ==
             w[i].arrival <= t /\ w[j].arrival <= t =>
               \A A \in Left : Spread(i, j, A, B) => F[t][A] + Paid(i, j, t, A) <= F[t][B] + Paid(i, j, t, B)
           G == [t \in Nat |-> {B \in Left : Gains(t, B)}]
<1>1. \A t \in Nat : \A left \in Left :
           /\ F[t][left] \in Nat
           /\ (\A m \in Procs : left[m] = 0) => F[t][left] = 0
           /\ Ready(w, t, left) = {} /\ (\E m \in Procs : left[m] # 0) => F[t][left] = F[t + 1][left]
           /\ \A m \in Ready(w, t, left) : Turn(F, t, left, m) \in Nat /\ F[t][left] <= Turn(F, t, left, m)
           /\ Ready(w, t, left) # {} => \E k \in Ready(w, t, left) : F[t][left] = Turn(F, t, left, k)
  BY LeastFacts
<1>2. ASSUME NEW t \in Nat, NEW B \in Left,
             \A k \in Ready(w, t, B) : Served(B, k) \in G[t + 1]
      PROVE  B \in G[t]
  <2> SUFFICES ASSUME w[i].arrival <= t, w[j].arrival <= t, NEW A \in Left, Spread(i, j, A, B)
               PROVE  F[t][A] + Paid(i, j, t, A) <= F[t][B] + Paid(i, j, t, B)
    OBVIOUS
  <2>1. /\ t + 1 \in Nat /\ w[i].arrival \in Nat /\ w[j].arrival \in Nat
        /\ \A m \in Procs : A[m] \in Nat /\ B[m] \in Nat
    BY DEF ArrivedBy, Left
  <2>2. F[t][A] \in Nat /\ F[t][B] \in Nat /\ Paid(i, j, t, A) \in Nat /\ Paid(i, j, t, B) \in Nat
    BY <1>1 DEF Paid
  <2>3. CASE Ready(w, t, B) = {}
    <3>1. B[i] = 0 /\ B[j] = 0
      BY <2>1, <2>3 DEF Ready
    <3>2. A[i] = 0 /\ A[j] = 0
      BY <2>1, <3>1 DEF Spread
    <3>3. \A m \in Procs : A[m] = B[m]
      BY <3>1, <3>2 DEF Spread
    <3>4. A = B
      BY <3>3 DEF Left
    <3> QED  BY <2>2, <3>4
  <2>4. CASE Ready(w, t, B) # {}
    <3>1. PICK k \in Ready(w, t, B) : F[t][B] = Turn(F, t, B, k)
      BY <1>1, <2>4
    <3>2. k \in Procs /\ B[k] > 0 /\ w[k].arrival <= t
      BY DEF Ready
    <3>3. PICK r \in Procs : /\ A[r] > 0 /\ Spread(i, j, Served(A, r), Served(B, k))
                             /\ k \in {i, j} => r \in {i, j}
                             /\ k \notin {i, j} => r = k
      BY <3>2, SpreadFollows
    <3>4. r \in Ready(w, t, A)
      BY <3>2, <3>3 DEF Ready
    <3>5. F[t][A] <= Turn(F, t, A, r)
      BY <1>1, <3>4
    <3>6. PICK a, b \in Left : a = Served(A, r) /\ b = Served(B, k)
      BY <3>2, <3>3, ServedIs
    <3>7. F[t + 1][a] + Paid(i, j, t + 1, a) <= F[t + 1][b] + Paid(i, j, t + 1, b)
      <4>1. b \in G[t + 1]
        BY <1>2, <3>6
      <4>2. Gains(t + 1, b)
        <5> HIDE DEF Gains
        <5> QED  BY <2>1, <4>1
      <4>3. w[i].arrival <= t + 1 /\ w[j].arrival <= t + 1
        BY <2>1
      <4> QED  BY <3>3, <3>6, <4>2, <4>3
    <3>8. /\ Cost(t, A, r) + Paid(i, j, t, A) + DoneOf(i, j, A)
               = Paid(i, j, t + 1, a) + IF r \in {i, j} THEN 0 ELSE Cost(t, A, r)
          /\ Cost(t, B, k) + Paid(i, j, t, B) + DoneOf(i, j, B)
               = Paid(i, j, t + 1, b) + IF k \in {i, j} THEN 0 ELSE Cost(t, B, k)
      BY <3>2, <3>3, <3>6, PaidLater
    <3>9. (IF r \in {i, j} THEN 0 ELSE Cost(t, A, r)) = (IF k \in {i, j} THEN 0 ELSE Cost(t, B, k))
      <4>1. k \notin {i, j} => A[k] = B[k]
        BY <3>2 DEF Spread
      <4> QED  BY <3>3, <4>1 DEF Cost
    <3>10. DoneOf(i, j, B) <= DoneOf(i, j, A)
      BY <2>1 DEF DoneOf, Spread
    <3>11. PICK fa, fb, ca, cb, pa, pb, qa, qb, da, db, x \in Nat :
              /\ fa = F[t + 1][a] /\ fb = F[t + 1][b] /\ ca = Cost(t, A, r) /\ cb = Cost(t, B, k)
              /\ pa = Paid(i, j, t, A) /\ pb = Paid(i, j, t, B)
              /\ qa = Paid(i, j, t + 1, a) /\ qb = Paid(i, j, t + 1, b)
              /\ da = DoneOf(i, j, A) /\ db = DoneOf(i, j, B)
              /\ x = IF k \in {i, j} THEN 0 ELSE Cost(t, B, k)
      <4>1. F[t + 1][a] \in Nat /\ F[t + 1][b] \in Nat
        BY <1>1, <2>1
      <4>2. Cost(t, A, r) \in Nat /\ Cost(t, B, k) \in Nat
        BY DEF Cost
      <4>3. Paid(i, j, t + 1, a) \in Nat /\ Paid(i, j, t + 1, b) \in Nat
        BY DEF Paid
      <4>4. DoneOf(i, j, A) \in Nat /\ DoneOf(i, j, B) \in Nat
        BY DEF DoneOf
      <4>5. (IF k \in {i, j} THEN 0 ELSE Cost(t, B, k)) \in Nat
        BY <4>2
      <4> QED  BY <2>2, <4>1, <4>2, <4>3, <4>4, <4>5
    <3>12. F[t][A] <= ca + fa /\ F[t][B] = cb + fb
      BY <3>1, <3>5, <3>6, <3>11 DEF Turn
    <3>13. ca + pa + da = qa + x /\ cb + pb + db = qb + x /\ db <= da /\ fa + qa <= fb + qb
      BY <3>7, <3>8, <3>9, <3>10, <3>11
    <3>14. F[t][A] + pa <= F[t][B] + pb
      BY <2>2, <3>12, <3>13
    <3> QED  BY <3>11, <3>14
  <2> QED  BY <2>3, <2>4
<1>3. \A t \in Nat : \A B \in Left : B \in G[t]
  <2> HIDE DEF G
  <2> QED  BY <1>2, Backwards
<1>4. \A t \in Nat : \A B \in Left : Gains(t, B)
  <2> HIDE DEF Gains
  <2> QED  BY <1>3
<1> QED  BY <1>4

\* A unit is best given to a process that needs least.
LEMMA ShortestIsBest ==
  ASSUME NEW w, NEW d \in Nat, ArrivedBy(w, d), NEW F, IsLeast(w, F), NEW t \in Nat, NEW left \in Left,
         NEW i \in Ready(w, t, left), \A k \in Ready(w, t, left) : left[i] <= left[k]
  PROVE  F[t][left] = Turn(F, t, left, i)
<1>1. /\ \A m \in Ready(w, t, left) : Turn(F, t, left, m) \in Nat /\ F[t][left] <= Turn(F, t, left, m)
      /\ Ready(w, t, left) # {} => \E k \in Ready(w, t, left) : F[t][left] = Turn(F, t, left, k)
      /\ F[t][left] \in Nat
  BY LeastFacts
<1>2. PICK k \in Ready(w, t, left) : F[t][left] = Turn(F, t, left, k)
  BY <1>1
<1>3. CASE k = i
  BY <1>2, <1>3
<1>4. CASE k # i
  <2>1. /\ i \in Procs /\ left[i] > 0 /\ w[i].arrival <= t /\ w[i].arrival \in Nat
        /\ k \in Procs /\ left[k] > 0 /\ w[k].arrival <= t /\ w[k].arrival \in Nat
        /\ left[i] \in Nat /\ left[k] \in Nat /\ left[i] <= left[k]
        /\ t + 1 \in Nat
    BY DEF Ready, Left, ArrivedBy
  <2>2. PICK A \in Left : A = Served(left, i) /\ A[i] = left[i] - 1 /\ \A m \in Procs : m # i => A[m] = left[m]
    BY <2>1, ServedIs
  <2>3. PICK B \in Left : B = Served(left, k) /\ B[k] = left[k] - 1 /\ \A m \in Procs : m # k => B[m] = left[m]
    BY <2>1, ServedIs
  <2>4. Spread(i, k, A, B)
    BY <1>4, <2>1, <2>2, <2>3 DEF Spread
  <2>5. w[i].arrival <= t + 1 /\ w[k].arrival <= t + 1
    BY <2>1
  <2>6. F[t + 1][A] + Paid(i, k, t + 1, A) <= F[t + 1][B] + Paid(i, k, t + 1, B)
    BY <1>4, <2>1, <2>4, <2>5, SpreadIsBetter
  <2>7. Paid(i, k, t + 1, A) = Cost(t, left, i)
    BY <1>4, <2>1, <2>2 DEF Paid, Cost
  <2>8. Paid(i, k, t + 1, B) = Cost(t, left, k)
    BY <1>4, <2>1, <2>3 DEF Paid, Cost
  <2>9. Turn(F, t, left, i) = Cost(t, left, i) + F[t + 1][A] /\ Turn(F, t, left, k) = Cost(t, left, k) + F[t + 1][B]
    BY <2>2, <2>3 DEF Turn
  <2>10. F[t + 1][A] \in Nat /\ F[t + 1][B] \in Nat /\ Cost(t, left, i) \in Nat /\ Cost(t, left, k) \in Nat
    <3>1. F[t + 1][A] \in Nat /\ F[t + 1][B] \in Nat
      BY <2>1, LeastFacts
    <3> QED  BY <3>1 DEF Cost
  <2>11. Turn(F, t, left, i) <= Turn(F, t, left, k)
    BY <2>6, <2>7, <2>8, <2>9, <2>10
  <2>12. F[t][left] <= Turn(F, t, left, i) /\ Turn(F, t, left, i) \in Nat
    BY <1>1
  <2> QED  BY <1>1, <1>2, <2>11, <2>12
<1> QED  BY <1>3, <1>4

-----------------------------------------------------------------------------
(* select_srtf takes a process that needs least, so it stays on the least   *)
(* sum of completion times until all of them have finished.                 *)

NoIo == \A i \in Procs : work[i].io = <<>>

\* what the processes that finished have added to the sum of the completion times
Done == [i \in Procs |-> IF completed[i] THEN finish_time[i] ELSE 0]

\* With what is left at its least, the sum is the least for the whole workload.
OnLeast ==
  \A w, F : w = work /\ IsLeast(w, F) =>
     Total(Done) + F[current_time][remaining_time] = F[0][[i \in Procs |-> w[i].burst]]

\* A process that needs more than INF is never selected, and never finishes.
SrtfInv ==
  /\ finish_time \in [Procs -> Int]
  /\ alg = "srtf" /\ NoIo => (\E i \in Procs : remaining_time[i] > INF) \/ OnLeast

\* IsLeast takes no variable.
LEMMA LeastStays ==
  ASSUME NEW w, NEW F
  PROVE  IsLeast(w, F)' <=> IsLeast(w, F)
BY DEF IsLeast, Optimum, Turn, Cost, Ready, Served, Left

LEMMA WithoutIo ==
  ASSUME CpuInv, NoIo, NEW i \in Procs
  PROVE  /\ next_cpu_segment_remaining(i) = remaining_time[i]
         /\ Outcome(i) = IF remaining_time[i] = 1 THEN "finished" ELSE "more"
         /\ is_available(i) <=> i \in Ready(work, current_time, remaining_time)
<1>1. Len(work[i].io) = 0 /\ work[i].io = <<>>
  BY DEF NoIo
<1>2. next_io[i] \in Nat /\ remaining_time[i] \in Nat /\ (completed[i] <=> remaining_time[i] = 0)
  BY DEF CpuInv, CpuTyped, CpuTimeUsed
<1>3. ~(next_io[i] < Len(work[i].io))
  BY <1>1, <1>2
<1>4. blocked_until[i] = None
  <2>1. \A k \in 1..Len(work[i].io) : FALSE
    BY <1>1
  <2> QED  BY <2>1 DEF CpuInv, BlockedByLast
<1>5. next_cpu_segment_remaining(i) = remaining_time[i]
  BY <1>3, Zenon DEF next_cpu_segment_remaining
<1>6. Outcome(i) = IF remaining_time[i] = 1 THEN "finished" ELSE "more"
  BY <1>3, Zenon DEF Outcome, IoDue
<1>7. is_available(i) <=> i \in Ready(work, current_time, remaining_time)
  BY <1>2, <1>4 DEF is_available, Ready, None
<1> QED  BY <1>5, <1>6, <1>7

\* select_srtf finds one that needs least.
LEMMA SrtfSelects ==
  ASSUME CpuInv, SelTyped, Incumbent, alg = "srtf", NoIo
  PROVE  /\ Chosen = NoProc /\ (\A j \in Procs : remaining_time[j] <= INF) =>
              Ready(work, current_time, remaining_time) = {}
         /\ Chosen # NoProc =>
              /\ Chosen \in Ready(work, current_time, remaining_time)
              /\ remaining_time[Chosen] <= INF
              /\ (\A j \in Procs : remaining_time[j] <= INF) =>
                    \A j \in Ready(work, current_time, remaining_time) : remaining_time[Chosen] <= remaining_time[j]
<1>1. /\ CpuTyped /\ NoProc \notin Procs
      /\ \A j \in Procs : remaining_time[j] \in Nat /\ Key(j) = remaining_time[j]
  <2>1. \A j \in Procs : next_cpu_segment_remaining(j) = remaining_time[j]
    BY WithoutIo
  <2> QED  BY <2>1, ChosenFacts DEF CpuInv, CpuTyped, Key
<1>2. \A j \in Procs : is_available(j) <=> j \in Ready(work, current_time, remaining_time)
  BY WithoutIo
<1>3. Ready(work, current_time, remaining_time) \subseteq Procs
  BY DEF Ready
<1>4. Candidates = {j \in Ready(work, current_time, remaining_time) : remaining_time[j] <= INF}
  <2>1. Candidates \subseteq Procs
    BY DEF Candidates
  <2>2. ASSUME NEW j \in Procs
        PROVE  j \in Candidates <=> j \in Ready(work, current_time, remaining_time) /\ remaining_time[j] <= INF
    BY <1>1, <1>2 DEF Candidates
  <2> QED  BY <1>3, <2>1, <2>2
<1>5. Chosen = IF Candidates = {} THEN NoProc ELSE Best
  BY DEF Chosen, Selects, Selection, NonPreemptive, PrefersIncumbent
<1>6. CASE Candidates = {}
  BY <1>3, <1>4, <1>5, <1>6
<1>7. CASE Candidates # {}
  <2>1. Best \in Candidates /\ \A j \in Candidates \ {Best} : Before(Best, j)
    BY <1>1, <1>7, BestIsFirst
  <2>2. Chosen = Best /\ Best \in Procs
    BY <1>3, <1>4, <1>5, <1>7, <2>1
  <2>3. ASSUME NEW j \in Candidates  PROVE remaining_time[Best] <= remaining_time[j]
    <3>1. j \in Procs
      BY <1>3, <1>4
    <3>2. CASE j = Best
      BY <1>1, <2>2, <3>2
    <3>3. CASE j # Best
      <4>1. Key(Best) < Key(j) \/ Key(Best) = Key(j)
        BY <2>1, <3>3 DEF Before
      <4> QED  BY <1>1, <2>2, <3>1, <4>1
    <3> QED  BY <3>2, <3>3
  <2> HIDE DEF Candidates
  <2> QED  BY <1>1, <1>3, <1>4, <2>1, <2>2, <2>3
<1> QED  BY <1>6, <1>7

LEMMA WorkArrived ==
  ASSUME work \in Workloads
  PROVE  \E d \in Nat : ArrivedBy(work, d)
<1>1. \A i \in Procs : work[i].arrival \in Nat
  BY WorkFacts
<1>2. PICK d : d \in Nat /\ \A i \in Procs : work[i].arrival <= d
  BY LastArrival
<1> QED  BY <1>1, <1>2 DEF ArrivedBy

\* The unit goes to the process that select_srtf chose.
LEMMA RunKeepsLeast ==
  ASSUME CpuInv, SelTyped, Incumbent, alg = "srtf", NoIo, finish_time \in [Procs -> Int],
         NEW i \in Procs, Chosen = i, Execute(i),
         \A j \in Procs : remaining_time[j] <= INF, OnLeast
  PROVE  OnLeast'
<1> DEFINE t == current_time
           left == remaining_time
<1>1. /\ i # NoProc /\ work \in Workloads /\ t \in Nat /\ left \in Left
      /\ completed \in [Procs -> BOOLEAN] /\ \A j \in Procs : completed[j] <=> left[j] = 0
      /\ DOMAIN finish_time = Procs
  BY DEF CpuInv, CpuTyped, CpuTimeUsed, Left, NoProc, Procs
<1>2. /\ i \in Ready(work, t, left)
      /\ \A j \in Ready(work, t, left) : left[i] <= left[j]
  BY <1>1, SrtfSelects
<1>3. left[i] > 0 /\ left[i] \in Nat
  BY <1>1, <1>2 DEF Ready, Left
<1>4. Outcome(i) = IF left[i] = 1 THEN "finished" ELSE "more"
  BY WithoutIo
<1>5. /\ work' = work /\ current_time' = t + 1 /\ remaining_time' = Served(left, i)
      /\ completed' = [completed EXCEPT ![i] = (left[i] = 1)]
      /\ finish_time' = [finish_time EXCEPT ![i] = IF left[i] = 1 THEN t + 1 ELSE @]
  <2>1. Outcome(i) = "finished" <=> left[i] = 1
    BY <1>4
  <2> QED  BY <2>1 DEF Execute, Served
<1>6. /\ Done \in [Procs -> Int] /\ Done' \in [Procs -> Int]
      /\ Done[i] = 0 /\ Done'[i] = Cost(t, left, i)
      /\ \A k \in Procs : k # i => Done'[k] = Done[k]
  <2>1. \A k \in Procs : finish_time[k] \in Int /\ (k # i => finish_time'[k] = finish_time[k] /\ completed'[k] = completed[k])
    BY <1>1, <1>5
  <2>2. completed'[i] = (left[i] = 1) /\ (left[i] = 1 => finish_time'[i] = t + 1)
    BY <1>1, <1>5
  <2>3. ~completed[i]
    BY <1>1, <1>3
  <2>4. Done = [k \in Procs |-> IF completed[k] THEN finish_time[k] ELSE 0]
    BY DEF Done
  <2>5. Done' = [k \in Procs |-> IF completed'[k] THEN finish_time'[k] ELSE 0]
    BY DEF Done
  <2>6. Done[i] = 0 /\ Done'[i] = Cost(t, left, i)
    BY <2>2, <2>3, <2>4, <2>5 DEF Cost
  <2>7. \A k \in Procs : k # i => Done'[k] = Done[k] /\ Done[k] \in Int
    BY <2>1, <2>4, <2>5
  <2>8. Cost(t, left, i) \in Int
    BY <1>1 DEF Cost
  <2>9. Done = [k \in Procs |-> Done[k]] /\ Done' = [k \in Procs |-> Done'[k]]
    BY <2>4, <2>5
  <2>10. \A k \in Procs : Done[k] \in Int /\ Done'[k] \in Int
    BY <2>6, <2>7, <2>8
  <2>11. Done \in [Procs -> Int] /\ Done' \in [Procs -> Int]
    BY <2>9, <2>10
  <2> QED  BY <2>6, <2>7, <2>11
<1>7. /\ Total(Done) \in Int /\ Total(Done') = Total(Done) + Cost(t, left, i)
  <2>1. PICK f, g \in [Procs -> Int] : f = Done /\ g = Done'
    BY <1>6
  <2>2. \A k \in Procs : k # i => g[k] = f[k]
    BY <1>6, <2>1
  <2>3. Total(f) \in Int /\ Total(g) \in Int /\ Total(g) = Total(f) + (g[i] - f[i])
    <3>1. IsFiniteSet(Procs)
      BY ProcsFinite
    <3> QED  BY <2>2, <3>1, TotalDiffers
  <2>4. f[i] = 0 /\ g[i] = Cost(t, left, i) /\ Cost(t, left, i) \in Int
    BY <1>1, <1>6, <2>1 DEF Cost
  <2> QED  BY <2>1, <2>3, <2>4
<1>8. ASSUME NEW w, NEW F, w = work, IsLeast(w, F)
      PROVE  Total(Done') + F[t + 1][Served(left, i)] = F[0][[k \in Procs |-> w[k].burst]]
  <2>1. PICK d \in Nat : ArrivedBy(w, d)
    BY <1>1, <1>8, WorkArrived
  <2>2. i \in Ready(w, t, left) /\ \A j \in Ready(w, t, left) : left[i] <= left[j]
    BY <1>2, <1>8
  <2>3. F[t][left] = Cost(t, left, i) + F[t + 1][Served(left, i)]
    <3>1. F[t][left] = Turn(F, t, left, i)
      BY <1>1, <1>8, <2>1, <2>2, ShortestIsBest
    <3> QED  BY <3>1 DEF Turn
  <2>4. Total(Done) + F[t][left] = F[0][[k \in Procs |-> w[k].burst]]
    BY <1>8 DEF OnLeast
  <2>5. F[t + 1][Served(left, i)] \in Nat /\ Cost(t, left, i) \in Nat
    <3>1. Served(left, i) \in Left /\ t + 1 \in Nat
      BY <1>1, <1>3, LeftTotal
    <3>2. \A u \in Nat : \A l \in Left : F[u][l] \in Nat
      BY <1>8, <2>1, LeastFacts
    <3> QED  BY <1>1, <3>1, <3>2 DEF Cost
  <2> QED  BY <1>7, <2>3, <2>4, <2>5
<1>9. Total(Done)' = Total(Done')
  BY DEF Total, SumsOf, Sums, NextOf
<1> QED  BY <1>5, <1>8, <1>9, LeastStays DEF OnLeast

LEMMA IdleKeepsLeast ==
  ASSUME CpuInv, SelTyped, Incumbent, alg = "srtf", NoIo, Chosen = NoProc, ~all_completed, PassTime,
         \A j \in Procs : remaining_time[j] <= INF, OnLeast
  PROVE  OnLeast'
<1> DEFINE t == current_time
           left == remaining_time
<1>1. /\ work \in Workloads /\ t \in Nat /\ left \in Left
      /\ \E j \in Procs : left[j] # 0
  BY DEF CpuInv, CpuTyped, CpuTimeUsed, Left, all_completed
<1>2. Ready(work, t, left) = {}
  BY SrtfSelects
<1>3. /\ work' = work /\ current_time' = t + 1 /\ remaining_time' = left
      /\ completed' = completed /\ finish_time' = finish_time
  BY DEF PassTime, pcbVars
<1>4. Total(Done)' = Total(Done)
  <2>1. Done' = Done
    BY <1>3 DEF Done
  <2> QED  BY <2>1 DEF Total, SumsOf, Sums, NextOf
<1>5. ASSUME NEW w, NEW F, w = work, IsLeast(w, F)
      PROVE  Total(Done) + F[t + 1][left] = F[0][[k \in Procs |-> w[k].burst]]
  <2>1. PICK d \in Nat : ArrivedBy(w, d)
    BY <1>1, <1>5, WorkArrived
  <2>2. F[t][left] = F[t + 1][left]
    <3>1. Ready(w, t, left) = {}
      BY <1>2, <1>5
    <3> QED  BY <1>1, <1>5, <2>1, <3>1, LeastFacts
  <2>3. Total(Done) + F[t][left] = F[0][[k \in Procs |-> w[k].burst]]
    BY <1>5 DEF OnLeast
  <2> QED  BY <2>2, <2>3
<1> QED  BY <1>3, <1>4, <1>5, LeastStays DEF OnLeast

LEMMA InitLeast == Init => SrtfInv
<1> SUFFICES ASSUME Init  PROVE SrtfInv
  OBVIOUS
<1>1. /\ current_time = 0 /\ remaining_time = [i \in Procs |-> work[i].burst]
      /\ finish_time \in [Procs -> Int] /\ work \in Workloads /\ \A i \in Procs : ~completed[i]
  BY DEF Init, CpuInit, None
<1>2. Total(Done) = 0
  <2>1. N \in Nat /\ Done \in [1..N -> Int] /\ \A i \in 1..N : Done[i] = 0
    BY <1>1, ProcsFinite DEF Done
  <2> QED  BY <2>1, TotalOfNothing
<1>3. ASSUME NEW w, NEW F, w = work, IsLeast(w, F)
      PROVE  Total(Done) + F[current_time][remaining_time] = F[0][[i \in Procs |-> w[i].burst]]
  <2>1. PICK d \in Nat : ArrivedBy(w, d)
    BY <1>1, <1>3, WorkArrived
  <2>2. [i \in Procs |-> w[i].burst] \in Left
    BY <1>1, <1>3, WorkFacts DEF Left
  <2>3. F[0][[i \in Procs |-> w[i].burst]] \in Nat
    BY <1>3, <2>1, <2>2, LeastFacts
  <2> QED  BY <1>1, <1>2, <1>3, <2>3
<1> QED  BY <1>1, <1>3 DEF SrtfInv, OnLeast

LEMMA NextKeepsLeast == SelInv /\ SrtfInv /\ [Next]_selVars => SrtfInv'
<1> SUFFICES ASSUME SelInv, SrtfInv, [Next]_selVars  PROVE SrtfInv'
  OBVIOUS
<1>1. CpuInv /\ SelTyped /\ Incumbent /\ CpuTyped /\ finish_time \in [Procs -> Int] /\ current_time \in Nat
  BY DEF SelInv, CpuInv, CpuTyped, SrtfInv
<1>2. work' = work /\ alg' = alg
  BY DEF Next, IdleUnit, PassTime, RunUnit, Execute, Return, Ended, selVars, cpuVars
<1>3. NoIo' <=> NoIo
  BY <1>2 DEF NoIo
<1>4. CASE Return \/ Ended \/ UNCHANGED selVars
  <2>1. UNCHANGED <<work, alg, current_time, remaining_time, completed, finish_time>>
    BY <1>4 DEF Return, Ended, selVars, cpuVars
  <2>2. Total(Done)' = Total(Done)
    <3>1. Done' = Done
      BY <2>1 DEF Done
    <3> QED  BY <3>1 DEF Total, SumsOf, Sums, NextOf
  <2>3. OnLeast => OnLeast'
    BY <2>1, <2>2, LeastStays DEF OnLeast
  <2> QED  BY <1>3, <2>1, <2>3 DEF SrtfInv
<1>5. CASE IdleUnit
  <2>1. Chosen = NoProc /\ ~all_completed /\ PassTime /\ remaining_time' = remaining_time /\ finish_time' = finish_time
    BY <1>5 DEF IdleUnit, Simulating, PassTime, pcbVars
  <2>2. ASSUME alg = "srtf", NoIo, ~\E i \in Procs : remaining_time[i] > INF  PROVE OnLeast'
    <3>1. \A j \in Procs : remaining_time[j] <= INF
      BY <1>1, <2>2, SelectAssumption DEF CpuTyped
    <3>2. OnLeast
      BY <2>2 DEF SrtfInv
    <3> QED  BY <1>1, <2>1, <2>2, <3>1, <3>2, IdleKeepsLeast
  <2> QED  BY <1>1, <1>2, <1>3, <2>1, <2>2 DEF SrtfInv
<1>6. ASSUME NEW i \in Procs, RunUnit(i)  PROVE SrtfInv'
  <2>1. Chosen = i /\ Execute(i) /\ i # NoProc
    BY <1>6 DEF RunUnit, Procs, NoProc
  <2>2. /\ remaining_time' = [remaining_time EXCEPT ![i] = @ - 1]
        /\ finish_time' = [finish_time EXCEPT ![i] = IF Outcome(i) = "finished" THEN current_time + 1 ELSE @]
    BY <2>1 DEF Execute
  <2>3. finish_time' \in [Procs -> Int]
    BY <1>1, <2>2
  <2>4. ASSUME alg = "srtf", NoIo, ~\E j \in Procs : remaining_time'[j] > INF  PROVE OnLeast'
    <3>1. remaining_time[i] <= INF
      BY <1>1, <2>1, <2>4, SrtfSelects
    <3>2. \A j \in Procs : j # i => remaining_time'[j] = remaining_time[j]
      BY <1>1, <2>2 DEF CpuTyped
    <3>3. \A j \in Procs : remaining_time[j] <= INF
      <4>1. \A j \in Procs : remaining_time[j] \in Nat
        BY <1>1 DEF CpuTyped
      <4> QED  BY <2>4, <3>1, <3>2, <4>1, SelectAssumption
    <3>4. OnLeast
      <4>1. \A j \in Procs : remaining_time[j] \in Nat
        BY <1>1 DEF CpuTyped
      <4>2. ~\E j \in Procs : remaining_time[j] > INF
        BY <3>3, <4>1, SelectAssumption
      <4> QED  BY <2>4, <4>2 DEF SrtfInv
    <3> QED  BY <1>1, <2>1, <2>4, <3>3, <3>4, RunKeepsLeast
  <2> QED  BY <1>2, <1>3, <2>3, <2>4 DEF SrtfInv
<1> QED  BY <1>4, <1>5, <1>6 DEF Next

LEMMA FinishSum == MapThenSumSet(LAMBDA i : finish_time[i], Procs) = Total([i \in Procs |-> finish_time[i]])
<1> DEFINE f == [i \in Procs |-> finish_time[i]]
           P(h) == h = [s \in SUBSET Procs |-> IF s = {} THEN 0 ELSE finish_time[CHOOSE x \in s : TRUE]
                                                                      + h[s \ {CHOOSE x \in s : TRUE}]]
           Q(h) == Sums(h, Procs, f)
<1>1. MapThenSumSet(LAMBDA i : finish_time[i], Procs) = (CHOOSE h : P(h))[Procs]
  BY DEF MapThenSumSet, MapThenFoldSet
<1>2. Total(f) = (CHOOSE h : Q(h))[Procs]
  BY DEF Total, SumsOf
<1>3. ASSUME NEW h  PROVE P(h) <=> Q(h)
  <2>1. \A s \in SUBSET Procs : s # {} => f[NextOf(s)] = finish_time[CHOOSE x \in s : TRUE]
    BY DEF NextOf
  <2>2. [s \in SUBSET Procs |-> IF s = {} THEN 0 ELSE finish_time[CHOOSE x \in s : TRUE]
                                                       + h[s \ {CHOOSE x \in s : TRUE}]]
        = [s \in SUBSET Procs |-> IF s = {} THEN 0 ELSE f[NextOf(s)] + h[s \ {NextOf(s)}]]
    BY <2>1 DEF NextOf
  <2> QED  BY <2>2 DEF Sums
<1>4. (CHOOSE h : P(h)) = (CHOOSE h : Q(h))
  <2> HIDE DEF P, Q
  <2> QED  BY <1>3, Zenon
<1> HIDE DEF P, Q, f
<1> QED  BY <1>1, <1>2, <1>4 DEF f

\* Preemptive SJF is optimal: whatever the workload, as long as nobody performs I/O,
\* no other way to hand out the CPU units has a smaller sum of completion times.  A
\* unit taken from the process that needs least and given to another never pays.
THEOREM ShortestFirstIsBest == Spec => []SrtfIsOptimal
<1>1. SelInv /\ SrtfInv => SrtfIsOptimal
  <2> SUFFICES ASSUME SelInv, SrtfInv, alg = "srtf", all_completed, NoIo
               PROVE  MapThenSumSet(LAMBDA i : finish_time[i], Procs) = LeastCompletion
    BY DEF SrtfIsOptimal, NoIo
  <2>1. /\ CpuInv /\ work \in Workloads /\ finish_time \in [Procs -> Int] /\ current_time \in Nat
        /\ remaining_time \in Left /\ \A i \in Procs : completed[i] /\ remaining_time[i] = 0
    BY DEF SelInv, CpuInv, CpuTyped, CpuTimeUsed, all_completed, SrtfInv, Left
  <2>2. OnLeast
    <3>1. ~\E i \in Procs : remaining_time[i] > INF
      BY <2>1, SelectAssumption
    <3> QED  BY <3>1 DEF SrtfInv
  <2>3. Done = [i \in Procs |-> finish_time[i]]
    BY <2>1 DEF Done
  <2>4. PICK d \in Nat : ArrivedBy(work, d)
    BY <2>1, WorkArrived
  <2>5. IsLeast(work, CHOOSE F : IsLeast(work, F))
    <3>1. \E F : IsLeast(work, F)
      BY <2>4, LeastExists
    <3> QED  BY <3>1, Zenon
  <2>6. PICK F : F = (CHOOSE G : IsLeast(work, G)) /\ IsLeast(work, F)
    BY <2>5
  <2>7. F[current_time][remaining_time] = 0
    BY <2>1, <2>4, <2>6, LeastFacts
  <2>8. Total(Done) + F[current_time][remaining_time] = F[0][[i \in Procs |-> work[i].burst]]
    BY <2>2, <2>6 DEF OnLeast
  <2>9. Total(Done) \in Int
    <3>1. N \in Nat /\ Done \in [1..N -> Int] /\ N \in 0..N
      BY <2>1, <2>3, ProcsFinite
    <3>2. Total(Done) = Upto(Done, N) /\ \A k \in 0..N : Upto(Done, k) \in Int
      BY <3>1, UptoFacts
    <3> QED  BY <3>1, <3>2
  <2>10. Total(Done) = F[0][[i \in Procs |-> work[i].burst]]
    BY <2>7, <2>8, <2>9
  <2>11. LeastCompletion = F[0][[i \in Procs |-> work[i].burst]]
    BY <2>6, LeastIs
  <2> QED  BY <2>3, <2>10, <2>11, FinishSum
<1> QED  BY <1>1, InitLeast, NextKeepsLeast, SelInvariance, PTL DEF Spec

=============================================================================
