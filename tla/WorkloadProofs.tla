--------------------------- MODULE WorkloadProofs ---------------------------
(***************************************************************************)
(* cpu_scheduler/workload.c, for everything that can be typed or drawn.    *)
(* Every PCB it finishes is well-formed, which is what CpuAssumption takes *)
(* for granted; its sort only moves events; the I/O time is what the       *)
(* registered events add up to; an event is dropped only when it fits      *)
(* nowhere.  Inv says how far the PCB at hand has been filled: its points  *)
(* are distinct and inside the burst (Filled), and those before i, or up   *)
(* to j from i on, are in the order of the sort (Sorting).  Books and      *)
(* Greedy come on top.                                                     *)
(***************************************************************************)
EXTENDS Workload, SumProofs, TLAPS

\* the events registered so far are inside the burst and at different points
Filled ==
  /\ p \in Job
  /\ to_read \in Nat
  /\ pc = "events" => Len(p.io) + to_read <= MAX_IO_EVENTS
  /\ pc = "sort" => Len(p.io) <= MAX_IO_EVENTS
  /\ \A k \in 1..Len(p.io) : p.io[k].start < p.burst /\ (p.io[k].start = 0 => p.burst = 1)
  /\ \A k, m \in 1..Len(p.io) : p.io[k].start = p.io[m].start => k = m

\* sort_io_events: the points before i are in place, and p.io[i] is the least of those
\* from i to j - 1
Sorting ==
  /\ i \in Nat \ {0} /\ j \in Nat
  /\ pc = "sort" => /\ i < j
                    /\ \A a, b \in 1..Len(p.io) : a < i /\ a < b => p.io[a].start < p.io[b].start
                    /\ \A b \in 1..Len(p.io) : i < b /\ b < j => p.io[i].start < p.io[b].start

Inv ==
  /\ pc \in {"process", "events", "sort"}
  /\ Filled /\ Sorting
  /\ process_list \in Seq(Job)
  /\ ListIsWellFormed

-----------------------------------------------------------------------------
LEMMA AtLeastFacts ==
  ASSUME NEW low \in Int, NEW x \in Int
  PROVE  /\ AtLeast(low, x) \in Int /\ AtLeast(low, x) >= low /\ AtLeast(low, x) >= x
         /\ AtLeast(low, x) = low \/ AtLeast(low, x) = x
<1> DEFINE P(m) == m \in {low, x} /\ \A y \in {low, x} : m >= y
           m == CHOOSE z : P(z)
<1>1. \E z : P(z)
  <2>1. CASE low >= x
    <3>1. P(low)
      BY <2>1
    <3> QED  BY <3>1
  <2>2. CASE x >= low
    <3>1. P(x)
      BY <2>2
    <3> QED  BY <3>1
  <2> QED  BY <2>1, <2>2
<1>2. P(m)
  BY <1>1, Zenon
<1>3. AtLeast(low, x) = m
  BY DEF AtLeast, Max
<1> HIDE DEF m
<1> QED  BY <1>2, <1>3

LEMMA AtMostFacts ==
  ASSUME NEW high \in Int, NEW x \in Int
  PROVE  /\ AtMost(high, x) \in Int /\ AtMost(high, x) <= high /\ AtMost(high, x) <= x
         /\ AtMost(high, x) = high \/ AtMost(high, x) = x
<1> DEFINE P(m) == m \in {high, x} /\ \A y \in {high, x} : m <= y
           m == CHOOSE z : P(z)
<1>1. \E z : P(z)
  <2>1. CASE high <= x
    <3>1. P(high)
      BY <2>1
    <3> QED  BY <3>1
  <2>2. CASE x <= high
    <3>1. P(x)
      BY <2>2
    <3> QED  BY <3>1
  <2> QED  BY <2>1, <2>2
<1>2. P(m)
  BY <1>1, Zenon
<1>3. AtMost(high, x) = m
  BY DEF AtMost, Min
<1> HIDE DEF m
<1> QED  BY <1>2, <1>3

\* what is typed is made a legal arrival, burst, priority, count or start
LEMMA Clamped ==
  ASSUME NEW x \in Int
  PROVE  AtLeast(0, x) \in Nat /\ AtLeast(1, x) \in Nat \ {0}
<1>1. PICK low \in Int : low = 0
  OBVIOUS
<1>2. PICK one \in Int : one = 1
  OBVIOUS
<1>3. AtLeast(low, x) \in Int /\ AtLeast(low, x) >= low
  BY AtLeastFacts
<1>4. AtLeast(one, x) \in Int /\ AtLeast(one, x) >= one
  BY AtLeastFacts
<1> QED  BY <1>1, <1>2, <1>3, <1>4

\* the first free point is one of the free points
LEMMA LeastIsIn ==
  ASSUME NEW S \in SUBSET Nat, S # {}
  PROVE  Min(S) \in S /\ \A y \in S : Min(S) <= y
<1> DEFINE P(m) == m \in S /\ \A y \in S : m <= y
           m == CHOOSE z : P(z)
<1>1. PICK z \in S : \A y \in S : z <= y
  BY LeastNat
<1>4. P(z)
  BY <1>1
<1>5. P(m)
  BY <1>4, Zenon
<1>6. Min(S) = m
  BY DEF Min
<1> HIDE DEF m
<1> QED  BY <1>5, <1>6

\* two elements of a sequence change places
LEMMA Exchange ==
  ASSUME NEW S, NEW s \in Seq(S), NEW a \in 1..Len(s), NEW b \in 1..Len(s), NEW t,
         t = [s EXCEPT ![a] = s[b], ![b] = s[a]]
  PROVE  /\ t \in Seq(S) /\ Len(t) = Len(s) /\ DOMAIN t = 1..Len(s) /\ DOMAIN s = 1..Len(s)
         /\ t[a] = s[b] /\ t[b] = s[a]
         /\ \A k \in 1..Len(s) : k # a /\ k # b => t[k] = s[k]
<1>1. DOMAIN s = 1..Len(s) /\ Len(s) \in Nat /\ \A k \in 1..Len(s) : s[k] \in S
  OBVIOUS
<1>2. /\ DOMAIN t = 1..Len(s) /\ t[a] = s[b] /\ t[b] = s[a]
      /\ \A k \in 1..Len(s) : k # a /\ k # b => t[k] = s[k]
  BY <1>1
<1>3. t = [k \in 1..Len(s) |-> t[k]] /\ \A k \in 1..Len(s) : t[k] \in S
  BY <1>1, <1>2
<1>4. t \in [1..Len(s) -> S]
  BY <1>3
<1>5. t \in Seq(S) /\ Len(t) = Len(s)
  BY <1>1, <1>4
<1> QED  BY <1>1, <1>2, <1>5

LEMMA JobFacts ==
  ASSUME p \in Job
  PROVE  /\ p.arrival \in Nat /\ p.burst \in Nat \ {0} /\ p.priority \in Nat \ {0} /\ p.io \in Seq(IoEvent)
         /\ Len(p.io) \in Nat /\ DOMAIN p.io = 1..Len(p.io)
         /\ \A k \in 1..Len(p.io) : p.io[k].start \in Nat /\ p.io[k].burst \in Nat
<1>1. p.arrival \in Nat /\ p.burst \in Nat \ {0} /\ p.priority \in Nat \ {0} /\ p.io \in Seq(IoEvent)
  BY DEF Job
<1>2. \A k \in 1..Len(p.io) : p.io[k] \in IoEvent
  BY <1>1
<1> QED  BY <1>1, <1>2 DEF IoEvent

LEMMA StartsInv ==
  ASSUME Init
  PROVE  Inv
<1>1. p \in Job /\ p.io = <<>> /\ process_list = <<>> /\ to_read = 0 /\ i = 1 /\ j = 1 /\ pc = "process"
  BY DEF Init, Job
<1> QED  BY <1>1 DEF Inv, Filled, Sorting, ListIsWellFormed

\* init_process: whatever line is typed or drawn, the PCB starts as a legal one
LEMMA StartKeepsInv ==
  ASSUME Inv, NEW a \in Nat, NEW b \in Nat \ {0}, NEW pr \in Nat \ {0}, NEW n \in Nat,
         n <= MAX_IO_EVENTS, StartProcess(a, b, pr, n)
  PROVE  Inv'
<1>1. /\ p' = [arrival |-> a, burst |-> b, priority |-> pr, io |-> <<>>]
      /\ to_read' = n /\ pc' = "events" /\ process_list' = process_list /\ i' = i /\ j' = j
  BY DEF StartProcess
<1>2. p' \in Job /\ p'.io = <<>>
  BY <1>1 DEF Job
<1>3. Filled'
  BY <1>1, <1>2 DEF Filled
<1>4. Sorting'
  BY <1>1 DEF Inv, Sorting
<1> QED  BY <1>1, <1>3, <1>4 DEF Inv, ListIsWellFormed

LEMMA ReadLineKeepsInv ==
  ASSUME Inv, ReadLine
  PROVE  Inv'
<1>1. PICK l \in RawLines : StartProcess(AtLeast(0, l[1]), AtLeast(1, l[2]), AtLeast(1, l[3]),
                                         AtMost(MAX_IO_EVENTS, AtLeast(0, l[4])))
  BY DEF ReadLine
<1>2. l[1] \in Int /\ l[2] \in Int /\ l[3] \in Int /\ l[4] \in Int
  BY WorkloadAssumption
<1>3. PICK a \in Nat : a = AtLeast(0, l[1])
  BY <1>2, Clamped
<1>4. PICK b \in Nat \ {0} : b = AtLeast(1, l[2])
  BY <1>2, Clamped
<1>5. PICK pr \in Nat \ {0} : pr = AtLeast(1, l[3])
  BY <1>2, Clamped
<1>6. PICK m \in Nat : m = AtLeast(0, l[4])
  BY <1>2, Clamped
<1>7. PICK n \in Nat : n = AtMost(MAX_IO_EVENTS, m) /\ n <= MAX_IO_EVENTS
  <2>1. MAX_IO_EVENTS \in Nat
    BY IoAssumption
  <2>2. (AtMost(MAX_IO_EVENTS, m) = MAX_IO_EVENTS \/ AtMost(MAX_IO_EVENTS, m) = m) /\ AtMost(MAX_IO_EVENTS, m) <= MAX_IO_EVENTS
    BY <2>1, AtMostFacts
  <2> QED  BY <2>1, <2>2
<1>8. StartProcess(a, b, pr, n)
  BY <1>1, <1>3, <1>4, <1>5, <1>6, <1>7
<1> QED  BY <1>7, <1>8, StartKeepsInv

LEMMA DrawProcessKeepsInv ==
  ASSUME Inv, DrawProcess
  PROVE  Inv'
<1>1. PICK a \in Arrivals, b \in Bursts, pr \in Priorities :
        \E n \in 0..AtMost(3, b \div 5) : StartProcess(a, b, pr, n)
  BY DEF DrawProcess
<1>2. PICK n \in 0..AtMost(3, b \div 5) : StartProcess(a, b, pr, n)
  BY <1>1
<1>3. a \in Nat /\ b \in Nat \ {0} /\ pr \in Nat \ {0} /\ MAX_IO_EVENTS >= 3
  BY WorkloadAssumption
<1>4. b \div 5 \in Int
  BY <1>3
<1>5. AtMost(3, b \div 5) \in Int /\ AtMost(3, b \div 5) <= 3
  BY <1>4, AtMostFacts
<1>6. n \in Nat /\ n <= MAX_IO_EVENTS
  BY <1>3, <1>5, IoAssumption
<1> QED  BY <1>2, <1>3, <1>6, StartKeepsInv

\* the point an event is registered at was free and is inside the burst
LEMMA RegisterKeepsInv ==
  ASSUME Inv, pc = "events", to_read > 0,
         NEW start \in Nat, start > 0 \/ p.burst = 1, NEW s \in FreeFrom(start), NEW b \in Nat,
         NEW r, Register(s, b), NextEvent(r)
  PROVE  Inv'
<1> DEFINE e == [start |-> s, burst |-> b]
<1>1. p \in Job /\ to_read \in Nat /\ Len(p.io) + to_read <= MAX_IO_EVENTS
  BY DEF Inv, Filled
<1>2. /\ p.arrival \in Nat /\ p.burst \in Nat \ {0} /\ p.priority \in Nat \ {0} /\ p.io \in Seq(IoEvent)
      /\ Len(p.io) \in Nat /\ DOMAIN p.io = 1..Len(p.io)
  BY <1>1, JobFacts
<1>3. /\ s \in Nat /\ s < p.burst /\ (s = 0 => p.burst = 1)
      /\ \A k \in 1..Len(p.io) : p.io[k].start # s
  BY <1>2 DEF FreeFrom, exists_io_start
<1>4. /\ p' = [p EXCEPT !.io = Append(@, e)]
      /\ to_read' = to_read - 1 /\ pc' = "events" /\ process_list' = process_list /\ i' = i /\ j' = j
  BY DEF Register, NextEvent
<1>5. e \in IoEvent /\ e.start = s
  BY <1>3 DEF IoEvent
<1> HIDE DEF e
<1>6. p' \in Job /\ p'.io = Append(p.io, e) /\ p'.burst = p.burst
  <2>1. Append(p.io, e) \in Seq(IoEvent)
    BY <1>2, <1>5
  <2>2. p' = [p EXCEPT !.io = Append(p.io, e)]
    BY <1>4
  <2> QED  BY <1>1, <2>1, <2>2 DEF Job
<1>7. /\ Len(p'.io) = Len(p.io) + 1 /\ p'.io[Len(p.io) + 1] = e
      /\ \A k \in 1..Len(p.io) : p'.io[k] = p.io[k]
  BY <1>2, <1>5, <1>6
<1>8. \A k \in 1..Len(p'.io) : k \in 1..Len(p.io) \/ k = Len(p.io) + 1
  BY <1>2, <1>7
<1>9. /\ \A k \in 1..Len(p.io) : p.io[k].start < p.burst /\ (p.io[k].start = 0 => p.burst = 1)
      /\ \A k, m \in 1..Len(p.io) : p.io[k].start = p.io[m].start => k = m
  BY DEF Inv, Filled
<1>10. \A k \in 1..Len(p'.io) : p'.io[k].start < p'.burst /\ (p'.io[k].start = 0 => p'.burst = 1)
  BY <1>3, <1>5, <1>6, <1>7, <1>8, <1>9
<1>11. \A k, m \in 1..Len(p'.io) : p'.io[k].start = p'.io[m].start => k = m
  BY <1>3, <1>5, <1>7, <1>8, <1>9
<1>12. to_read' \in Nat /\ Len(p'.io) + to_read' <= MAX_IO_EVENTS
  BY <1>1, <1>2, <1>4, <1>7, IoAssumption
<1>13. Filled'
  BY <1>4, <1>6, <1>10, <1>11, <1>12 DEF Filled
<1>14. Sorting'
  BY <1>4 DEF Inv, Sorting
<1> QED  BY <1>4, <1>13, <1>14 DEF Inv, ListIsWellFormed

\* An event is asked for at a point inside the burst, and registered at the first free
\* point from there on, if there is one; what create_random_workload draws is free.
EventStep(start) ==
  /\ pc = "events" /\ to_read > 0
  /\ start < p.burst /\ (start > 0 \/ p.burst = 1) /\ NextEvent(start)
  /\ \/ FreeFrom(start) = {} /\ UNCHANGED <<p, total_io_time>>
     \/ \E s \in FreeFrom(start), b \in Nat :
          Register(s, b) /\ \A x \in FreeFrom(start) : s <= x

LEMMA EventFacts ==
  ASSUME Inv, ReadEvent \/ DrawEvent
  PROVE  \E start \in Nat : EventStep(start)
<1>1. pc = "events" /\ to_read > 0 /\ p \in Job
  BY DEF Inv, Filled, ReadEvent, DrawEvent
<1>2. p.burst \in Nat \ {0} /\ \A start \in Nat : FreeFrom(start) \in SUBSET Nat
  BY <1>1, JobFacts DEF FreeFrom
<1>3. CASE ReadEvent
  <2>1. PICK e \in RawEvents :
          /\ IF FreeFrom(AtMost(p.burst - 1, AtLeast(1, e[1]))) # {}
                THEN Register(Min(FreeFrom(AtMost(p.burst - 1, AtLeast(1, e[1])))), AtLeast(0, e[2]))
                ELSE UNCHANGED <<p, total_io_time>>
          /\ NextEvent(AtMost(p.burst - 1, AtLeast(1, e[1])))
    BY <1>3 DEF ReadEvent
  <2>2. e[1] \in Int /\ e[2] \in Int
    BY WorkloadAssumption
  <2>3. PICK b \in Nat : b = AtLeast(0, e[2])
    BY <2>2, Clamped
  <2>4. PICK low \in Nat \ {0} : low = AtLeast(1, e[1])
    BY <2>2, Clamped
  <2>5. PICK start \in Nat : start = AtMost(p.burst - 1, low) /\ start < p.burst /\ (start > 0 \/ p.burst = 1)
    <3>1. PICK last \in Nat : last = p.burst - 1
      BY <1>2
    <3>2. PICK l \in Int : l = low
      OBVIOUS
    <3>3. AtMost(last, l) \in {last, l} /\ AtMost(last, l) <= last
      BY AtMostFacts
    <3> QED  BY <1>2, <3>1, <3>2, <3>3
  <2>6. /\ IF FreeFrom(start) # {} THEN Register(Min(FreeFrom(start)), b) ELSE UNCHANGED <<p, total_io_time>>
        /\ NextEvent(start)
    BY <2>1, <2>3, <2>4, <2>5
  <2>7. CASE FreeFrom(start) # {}
    <3>1. PICK s \in FreeFrom(start) : s = Min(FreeFrom(start)) /\ \A x \in FreeFrom(start) : s <= x
      BY <1>2, <2>7, LeastIsIn
    <3>2. Register(s, b)
      BY <2>6, <2>7, <3>1
    <3> QED  BY <1>1, <2>5, <2>6, <3>1, <3>2 DEF EventStep
  <2>8. CASE FreeFrom(start) = {}
    BY <1>1, <2>5, <2>6, <2>8 DEF EventStep
  <2> QED  BY <2>7, <2>8
<1>4. CASE DrawEvent
  <2>1. PICK s \in FreeFrom(1), b \in IoBursts : Register(s, b) /\ NextEvent(s)
    BY <1>4 DEF DrawEvent
  <2>2. b \in Nat
    BY WorkloadAssumption
  <2>3. s \in Nat /\ s > 0 /\ s < p.burst /\ s \in FreeFrom(s)
    BY <1>2 DEF FreeFrom
  <2>4. \A x \in FreeFrom(s) : s <= x
    BY <1>2, <2>3 DEF FreeFrom
  <2> QED  BY <1>1, <2>1, <2>2, <2>3, <2>4 DEF EventStep
<1> QED  BY <1>3, <1>4

LEMMA EventKeepsInv ==
  ASSUME Inv, ReadEvent \/ DrawEvent
  PROVE  Inv'
<1>1. PICK start \in Nat : EventStep(start)
  BY EventFacts
<1>2. pc = "events" /\ to_read > 0 /\ p \in Job /\ to_read \in Nat
  BY <1>1 DEF Inv, Filled, EventStep
<1>3. p.burst \in Nat \ {0} /\ Len(p.io) \in Nat
  BY <1>2, JobFacts
<1>4. /\ start > 0 \/ p.burst = 1
      /\ NextEvent(start)
      /\ UNCHANGED p \/ \E s \in FreeFrom(start), b \in Nat : Register(s, b)
  BY <1>1 DEF EventStep
<1>5. CASE \E s \in FreeFrom(start), b \in Nat : Register(s, b)
  BY <1>2, <1>4, <1>5, RegisterKeepsInv
<1>6. CASE UNCHANGED p
  <2>1. /\ p' = p /\ to_read' = to_read - 1 /\ pc' = "events" /\ process_list' = process_list
        /\ i' = i /\ j' = j
    BY <1>2, <1>4, <1>6 DEF NextEvent
  <2>2. Len(p.io) + to_read <= MAX_IO_EVENTS
    BY <1>2 DEF Inv, Filled
  <2>3. to_read' \in Nat /\ Len(p'.io) + to_read' <= MAX_IO_EVENTS
    BY <1>2, <1>3, <2>1, <2>2, IoAssumption
  <2>4. Filled'
    BY <1>2, <2>1, <2>3 DEF Inv, Filled
  <2>5. Sorting'
    BY <2>1 DEF Inv, Sorting
  <2> QED  BY <2>1, <2>4, <2>5 DEF Inv, ListIsWellFormed
<1> QED  BY <1>4, <1>5, <1>6

LEMMA StartSortKeepsInv ==
  ASSUME Inv, StartSort
  PROVE  Inv'
<1>1. p' = p /\ to_read' = to_read /\ process_list' = process_list /\ pc = "events" /\ to_read = 0
  BY DEF StartSort
<1>2. pc' = "sort" /\ i' = 1 /\ j' = 2
  BY DEF StartSort
<1>3. p \in Job /\ Len(p.io) + 0 <= MAX_IO_EVENTS
  BY <1>1 DEF Inv, Filled
<1>4. Len(p.io) \in Nat
  BY <1>3, JobFacts
<1>5. Filled'
  BY <1>1, <1>2, <1>3, <1>4, IoAssumption DEF Inv, Filled
<1>6. Sorting'
  <2>1. \A a \in 1..Len(p'.io) : ~(a < 1)
    BY <1>1, <1>4
  <2>2. \A b \in 1..Len(p'.io) : ~(1 < b /\ b < 2)
    BY <1>1, <1>4
  <2> QED  BY <1>2, <2>1, <2>2 DEF Sorting
<1> QED  BY <1>1, <1>2, <1>5, <1>6 DEF Inv, ListIsWellFormed

\* when the outer loop of sort_io_events is over, every pair is in order
LEMMA FinishKeepsInv ==
  ASSUME Inv, FinishProcess
  PROVE  Inv'
<1>1. /\ p' = p /\ to_read' = to_read /\ pc = "sort" /\ pc' = "process" /\ i' = i /\ j' = j
      /\ i >= Len(p.io) /\ process_list' = Append(process_list, p)
  BY DEF FinishProcess
<1>2. p \in Job /\ process_list \in Seq(Job)
  BY DEF Inv, Filled
<1>3. Len(p.io) \in Nat /\ i \in Nat
  BY <1>2, JobFacts DEF Inv, Sorting
<1>4. \A a, b \in 1..Len(p.io) : a < b => a < i
  BY <1>1, <1>3
<1>5. \A a, b \in 1..Len(p.io) : a < b => p.io[a].start < p.io[b].start
  BY <1>1, <1>4 DEF Inv, Sorting
<1>6. WellFormed(p)
  BY <1>1, <1>5 DEF Inv, Filled, WellFormed
<1>7. process_list' \in Seq(Job)
  BY <1>1, <1>2
<1>8. ListIsWellFormed'
  <2> SUFFICES ASSUME NEW k \in DOMAIN process_list'
               PROVE  WellFormed(process_list'[k])
    BY DEF ListIsWellFormed
  <2>1. (k \in DOMAIN process_list /\ process_list'[k] = process_list[k]) \/ process_list'[k] = p
    BY <1>1, <1>2
  <2> QED  BY <1>6, <2>1 DEF Inv, ListIsWellFormed
<1>9. Filled' /\ Sorting'
  BY <1>1 DEF Inv, Filled, Sorting
<1> QED  BY <1>1, <1>7, <1>8, <1>9 DEF Inv

\* what one comparison of sort_io_events does to the events
LEMMA SortStepFacts ==
  ASSUME p \in Job, i \in Nat \ {0}, j \in Nat, i < j, SortStep
  PROVE  \/ p' = p /\ (j > Len(p.io) \/ ~(p.io[j].start < p.io[i].start))
         \/ /\ i \in 1..Len(p.io) /\ j \in 1..Len(p.io)
            /\ p.io[j].start < p.io[i].start
            /\ p' = [p EXCEPT !.io = [p.io EXCEPT ![i] = p.io[j], ![j] = p.io[i]]]
            /\ p' \in Job /\ p'.io = [p.io EXCEPT ![i] = p.io[j], ![j] = p.io[i]]
            /\ p'.burst = p.burst
<1>1. Len(p.io) \in Nat /\ p.io \in Seq(IoEvent)
  BY JobFacts
<1>2. CASE j > Len(p.io) \/ ~(p.io[j].start < p.io[i].start)
  BY <1>2 DEF SortStep
<1>3. CASE ~(j > Len(p.io)) /\ p.io[j].start < p.io[i].start
  <2> DEFINE t == [p.io EXCEPT ![i] = p.io[j], ![j] = p.io[i]]
  <2>1. i \in 1..Len(p.io) /\ j \in 1..Len(p.io)
    BY <1>1, <1>3
  <2>2. p' = [p EXCEPT !.io[i] = p.io[j], !.io[j] = p.io[i]]
    BY <1>3 DEF SortStep
  <2>3. p' = [p EXCEPT !.io = t]
    BY <2>2 DEF Job
  <2>4. t \in Seq(IoEvent)
    BY <1>1, <2>1, Exchange
  <2> HIDE DEF t
  <2>5. p' \in Job /\ p'.io = t /\ p'.burst = p.burst
    BY <2>3, <2>4 DEF Job
  <2> QED  BY <1>3, <2>1, <2>3, <2>5 DEF t
<1> QED  BY <1>2, <1>3

LEMMA SortStepKeepsInv ==
  ASSUME Inv, SortStep
  PROVE  Inv'
<1>1. /\ p \in Job /\ i \in Nat \ {0} /\ j \in Nat /\ pc = "sort" /\ i < j /\ to_read \in Nat
      /\ Len(p.io) <= MAX_IO_EVENTS
  BY DEF Inv, Filled, Sorting, SortStep
<1>2. /\ to_read' = to_read /\ pc' = "sort" /\ process_list' = process_list
      /\ i < Len(p.io)
      /\ IF j > Len(p.io) THEN i' = i + 1 /\ j' = i + 2 /\ p' = p
                          ELSE j' = j + 1 /\ i' = i
  BY <1>1 DEF SortStep
<1>3. /\ Len(p.io) \in Nat /\ p.io \in Seq(IoEvent)
      /\ \A k \in 1..Len(p.io) : p.io[k].start \in Nat /\ p.io[k].burst \in Nat
  BY <1>1, JobFacts
<1>4. /\ \A k \in 1..Len(p.io) : p.io[k].start < p.burst /\ (p.io[k].start = 0 => p.burst = 1)
      /\ \A k, m \in 1..Len(p.io) : p.io[k].start = p.io[m].start => k = m
  BY DEF Inv, Filled
<1>5. /\ \A a, b \in 1..Len(p.io) : a < i /\ a < b => p.io[a].start < p.io[b].start
      /\ \A b \in 1..Len(p.io) : i < b /\ b < j => p.io[i].start < p.io[b].start
  BY <1>1 DEF Inv, Sorting
<1>6. CASE j > Len(p.io)
  <2>1. p' = p /\ i' = i + 1 /\ j' = i + 2
    BY <1>2, <1>6
  <2>2. Filled'
    BY <1>1, <1>2, <2>1 DEF Inv, Filled
  <2>3. \A a, b \in 1..Len(p.io) : a < i + 1 /\ a < b => p.io[a].start < p.io[b].start
    <3> SUFFICES ASSUME NEW a \in 1..Len(p.io), NEW b \in 1..Len(p.io), a < i + 1, a < b
                 PROVE  p.io[a].start < p.io[b].start
      OBVIOUS
    <3>1. CASE a < i
      BY <1>5, <3>1
    <3>2. CASE a = i
      <4>1. i < b /\ b < j
        BY <1>1, <1>3, <1>6, <3>2
      <4> QED  BY <1>5, <3>2, <4>1
    <3> QED  BY <1>1, <3>1, <3>2
  <2>4. \A b \in 1..Len(p.io) : ~(i + 1 < b /\ b < i + 2)
    BY <1>1
  <2>5. Sorting'
    BY <1>1, <2>1, <2>3, <2>4 DEF Sorting
  <2> QED  BY <1>2, <2>2, <2>5 DEF Inv, ListIsWellFormed
<1>7. CASE ~(j > Len(p.io))
  <2>0. i' = i /\ j' = j + 1 /\ i \in 1..Len(p.io) /\ j \in 1..Len(p.io)
    BY <1>1, <1>2, <1>3, <1>7
  <2>1. CASE p' = p /\ ~(p.io[j].start < p.io[i].start)
    <3>1. Filled'
      BY <1>1, <1>2, <2>1 DEF Inv, Filled
    <3>2. p.io[i].start < p.io[j].start
      BY <1>1, <1>3, <1>4, <2>0, <2>1
    <3>3. \A b \in 1..Len(p.io) : i < b /\ b < j + 1 => p.io[i].start < p.io[b].start
      BY <1>1, <1>5, <3>2
    <3>4. Sorting'
      BY <1>1, <1>5, <2>0, <2>1, <3>3 DEF Sorting
    <3> QED  BY <1>2, <3>1, <3>4 DEF Inv, ListIsWellFormed
  <2>2. CASE /\ p.io[j].start < p.io[i].start
             /\ p' \in Job /\ p'.io = [p.io EXCEPT ![i] = p.io[j], ![j] = p.io[i]] /\ p'.burst = p.burst
    <3> DEFINE s == p.io
    <3>1. PICK t : t = [s EXCEPT ![i] = s[j], ![j] = s[i]]
      OBVIOUS
    <3>2. /\ Len(t) = Len(s) /\ t[i] = s[j] /\ t[j] = s[i]
          /\ \A k \in 1..Len(s) : k # i /\ k # j => t[k] = s[k]
      BY <1>3, <2>0, <3>1, Exchange
    <3>3. p'.io = t
      BY <2>2, <3>1
    <3>4. /\ Len(s) \in Nat /\ i \in 1..Len(s) /\ j \in 1..Len(s) /\ s[j].start < s[i].start
          /\ \A k \in 1..Len(s) : s[k].start \in Nat
          /\ \A k \in 1..Len(s) : s[k].start < p.burst /\ (s[k].start = 0 => p.burst = 1)
          /\ \A k, m \in 1..Len(s) : s[k].start = s[m].start => k = m
          /\ \A a, b \in 1..Len(s) : a < i /\ a < b => s[a].start < s[b].start
          /\ \A b \in 1..Len(s) : i < b /\ b < j => s[i].start < s[b].start
      BY <1>3, <1>4, <1>5, <2>0, <2>2
    <3> HIDE DEF s
    <3>5. \A k \in 1..Len(s) : t[k].start < p.burst /\ (t[k].start = 0 => p.burst = 1)
      BY <3>2, <3>4
    <3>6. \A k, m \in 1..Len(s) : t[k].start = t[m].start => k = m
      BY <3>2, <3>4
    <3>7. Filled'
      BY <1>1, <1>2, <2>2, <3>2, <3>3, <3>5, <3>6 DEF Filled, s
    <3>8. \A a, b \in 1..Len(s) : a < i /\ a < b => t[a].start < t[b].start
      <4> SUFFICES ASSUME NEW a \in 1..Len(s), NEW b \in 1..Len(s), a < i, a < b
                   PROVE  t[a].start < t[b].start
        OBVIOUS
      <4>1. a # i /\ a # j /\ a < j
        BY <1>1
      <4>2. t[a] = s[a]
        BY <3>2, <4>1
      <4>3. t[b] = s[b] \/ t[b] = s[i] \/ t[b] = s[j]
        BY <3>2
      <4>4. s[a].start < s[b].start /\ s[a].start < s[i].start /\ s[a].start < s[j].start
        BY <3>4, <4>1
      <4> QED  BY <4>2, <4>3, <4>4
    <3>9. \A b \in 1..Len(s) : i < b /\ b < j + 1 => t[i].start < t[b].start
      <4> SUFFICES ASSUME NEW b \in 1..Len(s), i < b, b < j + 1
                   PROVE  t[i].start < t[b].start
        OBVIOUS
      <4>1. CASE b = j
        BY <3>2, <3>4, <4>1
      <4>2. CASE b < j
        <5>1. t[b] = s[b] /\ s[i].start < s[b].start
          BY <1>1, <3>2, <3>4, <4>2
        <5> QED  BY <3>2, <3>4, <5>1
      <4> QED  BY <1>1, <4>1, <4>2
    <3>10. Sorting'
      BY <1>1, <2>0, <3>2, <3>3, <3>8, <3>9 DEF Sorting
    <3> QED  BY <1>2, <3>7, <3>10 DEF Inv, ListIsWellFormed
  <2> QED  BY <1>1, <1>7, <2>1, <2>2, SortStepFacts
<1> QED  BY <1>6, <1>7

LEMMA StepsKeepInv ==
  ASSUME Inv, [Next]_vars
  PROVE  Inv'
<1>1. CASE ReadLine
  BY <1>1, ReadLineKeepsInv
<1>2. CASE DrawProcess
  BY <1>2, DrawProcessKeepsInv
<1>3. CASE ReadEvent \/ DrawEvent
  BY <1>3, EventKeepsInv
<1>5. CASE StartSort
  BY <1>5, StartSortKeepsInv
<1>6. CASE SortStep
  BY <1>6, SortStepKeepsInv
<1>7. CASE FinishProcess
  BY <1>7, FinishKeepsInv
<1>8. CASE UNCHANGED vars
  BY <1>8 DEF vars, Inv, Filled, Sorting, ListIsWellFormed
<1> QED  BY <1>1, <1>2, <1>3, <1>5, <1>6, <1>7, <1>8 DEF Next, Ended

LEMMA AlwaysInv == Spec => []Inv
<1>1. Init => Inv
  BY StartsInv
<1>2. Inv /\ [Next]_vars => Inv'
  BY StepsKeepInv
<1> QED  BY <1>1, <1>2, PTL DEF Spec

-----------------------------------------------------------------------------
\* Whatever is typed or drawn, and whatever the limits are, every PCB that
\* create_manual_workload or create_random_workload puts into process_list is one the
\* schedulers can handle: what CpuAssumption takes for granted is what workload.c delivers.
THEOREM SchedulersGetLegalJobs == Spec => []ListIsWellFormed
<1>1. Inv => ListIsWellFormed
  BY DEF Inv
<1> QED  BY <1>1, AlwaysInv, PTL

\* No comparison of sort_io_events loses an event, makes one, or parts a start from its
\* I/O burst.
THEOREM SortOnlyMovesEvents == Spec => SortKeepsEvents
<1>1. ASSUME Inv, [Next]_vars, pc = "sort", pc' = "sort"
      PROVE  Range(p'.io) = Range(p.io) /\ Len(p'.io) = Len(p.io)
  <2>1. /\ p \in Job /\ i \in Nat \ {0} /\ j \in Nat /\ i < j
    BY <1>1 DEF Inv, Filled, Sorting
  <2>2. SortStep \/ p' = p
    BY <1>1 DEF Next, Ended, ReadLine, DrawProcess, StartProcess, ReadEvent, DrawEvent,
                StartSort, FinishProcess, vars
  <2>3. CASE p' = p
    BY <2>3
  <2>4. CASE /\ i \in 1..Len(p.io) /\ j \in 1..Len(p.io)
             /\ p'.io = [p.io EXCEPT ![i] = p.io[j], ![j] = p.io[i]]
    <3> DEFINE s == p.io
    <3>1. PICK t : t = [s EXCEPT ![i] = s[j], ![j] = s[i]]
      OBVIOUS
    <3>2. s \in Seq(IoEvent)
      BY <2>1, JobFacts
    <3>3. /\ Len(t) = Len(s) /\ DOMAIN t = 1..Len(s) /\ DOMAIN s = 1..Len(s)
          /\ t[i] = s[j] /\ t[j] = s[i]
          /\ \A k \in 1..Len(s) : k # i /\ k # j => t[k] = s[k]
      BY <2>4, <3>1, <3>2, Exchange
    <3>4. p'.io = t /\ i \in 1..Len(s) /\ j \in 1..Len(s)
      BY <2>4, <3>1
    <3> HIDE DEF s
    <3>5. Range(t) = Range(s)
      BY <3>3, <3>4 DEF Range
    <3> QED  BY <3>3, <3>4, <3>5 DEF s
  <2> QED  BY <2>1, <2>2, <2>3, <2>4, SortStepFacts
<1>2. Inv /\ [Next]_vars
        => [pc = "sort" /\ pc' = "sort" => /\ Range(p'.io) = Range(p.io)
                                           /\ Len(p'.io) = Len(p.io)]_vars
  BY <1>1
<1> QED  BY <1>2, AlwaysInv, PTL DEF Spec, SortKeepsEvents

-----------------------------------------------------------------------------
(* Types                                                                    *)

\* process_list[] has room for the PCBs asked for, and io_start[] for the events to come
InArray ==
  /\ process_count \in 0..MAX_PROCESS /\ total_io_time \in Nat
  /\ to_read \in 0..MAX_IO_EVENTS
  /\ Len(process_list) <= process_count
  /\ pc # "process" => Len(process_list) < process_count

LEMMA StartFits ==
  ASSUME Inv, InArray, NEW a, NEW b, NEW pr, NEW n \in 0..MAX_IO_EVENTS, StartProcess(a, b, pr, n)
  PROVE  InArray'
  BY DEF StartProcess, InArray

LEMMA EventFits ==
  ASSUME Inv, InArray, pc = "events", to_read > 0, NEW r, NextEvent(r), total_io_time' \in Nat
  PROVE  InArray'
<1>1. to_read' = to_read - 1 /\ UNCHANGED <<process_count, process_list, pc>>
  BY DEF NextEvent
<1>2. to_read' \in 0..MAX_IO_EVENTS
  BY <1>1, IoAssumption DEF InArray
<1> QED  BY <1>1, <1>2 DEF InArray

LEMMA StepsKeepInArray == Inv /\ InArray /\ [Next]_vars => InArray'
<1> SUFFICES ASSUME Inv, InArray, [Next]_vars  PROVE InArray'
  OBVIOUS
<1>1. CASE ReadLine
  <2>1. PICK l \in RawLines : StartProcess(AtLeast(0, l[1]), AtLeast(1, l[2]), AtLeast(1, l[3]),
                                           AtMost(MAX_IO_EVENTS, AtLeast(0, l[4])))
    BY <1>1 DEF ReadLine
  <2>2. l[4] \in Int
    BY WorkloadAssumption
  <2>3. PICK m \in Nat : m = AtLeast(0, l[4])
    BY <2>2, Clamped
  <2>4. AtMost(MAX_IO_EVENTS, m) \in 0..MAX_IO_EVENTS
    <3>1. MAX_IO_EVENTS \in Int /\ m \in Int /\ MAX_IO_EVENTS >= 0
      BY IoAssumption
    <3>2. /\ AtMost(MAX_IO_EVENTS, m) = MAX_IO_EVENTS \/ AtMost(MAX_IO_EVENTS, m) = m
          /\ AtMost(MAX_IO_EVENTS, m) <= MAX_IO_EVENTS
      BY <3>1, AtMostFacts
    <3> QED  BY <3>1, <3>2
  <2> QED  BY <2>1, <2>3, <2>4, StartFits
<1>2. CASE DrawProcess
  <2>1. PICK a \in Arrivals, b \in Bursts, pr \in Priorities :
          \E n \in 0..AtMost(3, b \div 5) : StartProcess(a, b, pr, n)
    BY <1>2 DEF DrawProcess
  <2>2. PICK n \in 0..AtMost(3, b \div 5) : StartProcess(a, b, pr, n)
    BY <2>1
  <2>3. b \in Nat /\ MAX_IO_EVENTS >= 3
    BY WorkloadAssumption
  <2>4. b \div 5 \in Int
    BY <2>3
  <2>5. AtMost(3, b \div 5) \in Int /\ AtMost(3, b \div 5) <= 3
    BY <2>4, AtMostFacts
  <2>6. n \in 0..MAX_IO_EVENTS
    BY <2>3, <2>5, IoAssumption
  <2> QED  BY <2>2, <2>6, StartFits
<1>3. CASE ReadEvent \/ DrawEvent
  <2>1. PICK start \in Nat : EventStep(start)
    BY <1>3, EventFacts
  <2>2. /\ pc = "events" /\ to_read > 0 /\ NextEvent(start)
        /\ UNCHANGED total_io_time \/ \E s \in FreeFrom(start), b \in Nat : Register(s, b)
    BY <2>1 DEF EventStep
  <2>3. UNCHANGED total_io_time \/ \E b \in Nat : total_io_time' = total_io_time + b
    BY <2>2 DEF Register
  <2>4. total_io_time' \in Nat
    BY <2>3 DEF InArray
  <2> QED  BY <2>2, <2>4, EventFits
<1>5. CASE StartSort
  BY <1>5 DEF StartSort, InArray
<1>6. CASE SortStep
  BY <1>6 DEF SortStep, InArray
<1>7. CASE FinishProcess
  <2>1. /\ process_list' = Append(process_list, p) /\ pc' = "process"
        /\ UNCHANGED <<process_count, total_io_time, to_read>>
    BY <1>7 DEF FinishProcess
  <2>2. Len(process_list') = Len(process_list) + 1 /\ Len(process_list) \in Nat
    BY <2>1 DEF Inv
  <2>3. Len(process_list) < process_count /\ process_count \in Int
    BY <1>7 DEF FinishProcess, InArray
  <2>4. Len(process_list') <= process_count
    BY <2>2, <2>3
  <2> QED  BY <2>1, <2>4 DEF InArray
<1>8. CASE Ended \/ UNCHANGED vars
  BY <1>8 DEF Ended, vars, InArray
<1> QED  BY <1>1, <1>2, <1>3, <1>5, <1>6, <1>7, <1>8 DEF Next

LEMMA AlwaysInArray == Spec => []InArray
<1>1. Init => InArray
  <2> SUFFICES ASSUME Init  PROVE InArray
    OBVIOUS
  <2>1. PICK n \in RawCounts : process_count = AtMost(MAX_PROCESS, AtLeast(0, n))
    BY DEF Init
  <2>2. MAX_PROCESS \in Nat /\ MAX_PROCESS \in Int /\ n \in Int
    BY WorkloadAssumption
  <2>3. PICK m \in Int : m = AtLeast(0, n) /\ m >= 0
    BY <2>2, Clamped
  <2>4. /\ AtMost(MAX_PROCESS, m) = MAX_PROCESS \/ AtMost(MAX_PROCESS, m) = m
        /\ AtMost(MAX_PROCESS, m) <= MAX_PROCESS
    BY <2>2, <2>3, AtMostFacts
  <2>5. process_count \in 0..MAX_PROCESS
    BY <2>1, <2>2, <2>3, <2>4
  <2> QED  BY <2>5, IoAssumption DEF Init, InArray
<1> QED  BY <1>1, StepsKeepInArray, AlwaysInv, PTL DEF Spec

\* Whatever is typed or drawn, process_list[] never gets more PCBs than MAX_PROCESS, and a
\* PCB never more events than io_start[] holds.
THEOREM TypeCorrect == Spec => []WorkloadTypeOK
<1>1. Inv /\ InArray => WorkloadTypeOK
  <2> SUFFICES ASSUME Inv, InArray  PROVE WorkloadTypeOK
    OBVIOUS
  <2>1. \A k \in DOMAIN process_list : process_list[k] \in Job
    BY DEF Inv
  <2> QED  BY <2>1 DEF Inv, Filled, InArray, WorkloadTypeOK
<1> QED  BY <1>1, AlwaysInArray, AlwaysInv, PTL

-----------------------------------------------------------------------------
(* The I/O time                                                             *)

\* the lengths of the I/Os of a list of events, in the order of the list
Lengths(io) == [k \in 1..Len(io) |-> io[k].burst]

\* total_io_time is what the registered events add up to
Books == total_io_time = Total(Lengths(p.io))

LEMMA LengthsType ==
  ASSUME NEW io \in Seq(IoEvent)
  PROVE  /\ Len(io) \in Nat /\ DOMAIN io = 1..Len(io) /\ DOMAIN Lengths(io) = 1..Len(io)
         /\ Lengths(io) \in [1..Len(io) -> Int]
         /\ \A k \in 1..Len(io) : Lengths(io)[k] = io[k].burst
<1>1. \A k \in 1..Len(io) : io[k] \in IoEvent
  OBVIOUS
<1> QED  BY <1>1 DEF Lengths, IoEvent

LEMMA SumIsTotal ==
  ASSUME NEW io \in Seq(IoEvent)
  PROVE  MapThenSumSet(LAMBDA k : io[k].burst, DOMAIN io) = Total(Lengths(io))
<1> DEFINE S == 1..Len(io)
           f == Lengths(io)
           P(h) == h = [s \in SUBSET S |-> IF s = {} THEN 0 ELSE io[CHOOSE x \in s : TRUE].burst
                                                                  + h[s \ {CHOOSE x \in s : TRUE}]]
           Q(h) == Sums(h, S, f)
<1>1. DOMAIN io = S /\ DOMAIN f = S /\ \A k \in S : f[k] = io[k].burst
  BY LengthsType
<1>2. MapThenSumSet(LAMBDA k : io[k].burst, DOMAIN io) = (CHOOSE h : P(h))[S]
  BY <1>1 DEF MapThenSumSet, MapThenFoldSet
<1>3. Total(f) = (CHOOSE h : Q(h))[S]
  <2> HIDE DEF f, S
  <2> QED  BY <1>1 DEF Total, SumsOf
<1>4. ASSUME NEW h  PROVE P(h) <=> Q(h)
  <2>1. \A s \in SUBSET S : s # {} => NextOf(s) \in s /\ NextOf(s) = CHOOSE x \in s : TRUE
    BY DEF NextOf
  <2>2. \A s \in SUBSET S : s # {} => f[NextOf(s)] = io[CHOOSE x \in s : TRUE].burst
    BY <1>1, <2>1
  <2> HIDE DEF f
  <2>3. [s \in SUBSET S |-> IF s = {} THEN 0 ELSE io[CHOOSE x \in s : TRUE].burst
                                                    + h[s \ {CHOOSE x \in s : TRUE}]]
        = [s \in SUBSET S |-> IF s = {} THEN 0 ELSE f[NextOf(s)] + h[s \ {NextOf(s)}]]
    BY <2>2 DEF NextOf
  <2> QED  BY <2>3 DEF Sums
<1>5. (CHOOSE h : P(h)) = (CHOOSE h : Q(h))
  <2> HIDE DEF P, Q
  <2> QED  BY <1>4, Zenon
<1> HIDE DEF P, Q, f, S
<1> QED  BY <1>2, <1>3, <1>5 DEF f

LEMMA NothingToAdd == Total(Lengths(<<>>)) = 0
<1>1. <<>> \in Seq(IoEvent) /\ Len(<<>>) = 0
  OBVIOUS
<1>2. PICK n \in Nat : n = 0
  OBVIOUS
<1>3. PICK f \in [1..n -> Int] : f = Lengths(<<>>)
  BY <1>1, <1>2, LengthsType
<1>4. Upto(f, 0) = 0 /\ Total(f) = Upto(f, n)
  BY UptoFacts
<1> QED  BY <1>2, <1>3, <1>4

LEMMA RegisterKeepsBooks ==
  ASSUME p \in Job, total_io_time \in Nat, Books, NEW s \in Nat, NEW b \in Nat, Register(s, b)
  PROVE  Books'
<1> DEFINE e == [start |-> s, burst |-> b]
<1>1. p.io \in Seq(IoEvent) /\ Len(p.io) \in Nat
  BY JobFacts
<1>2. e \in IoEvent /\ e.burst = b
  BY DEF IoEvent
<1>3. p'.io = Append(p.io, e)
  BY DEF Register, Job
<1> HIDE DEF e
<1>4. PICK t : t = Append(p.io, e)
  OBVIOUS
<1>5. t \in Seq(IoEvent)
  BY <1>1, <1>2, <1>4
<1>6. /\ Len(t) = Len(p.io) + 1 /\ t[Len(p.io) + 1] = e
      /\ \A k \in 1..Len(p.io) : t[k] = p.io[k]
  BY <1>1, <1>2, <1>4
<1>7. PICK n \in Nat : n = Len(p.io)
  BY <1>1
<1>8. PICK f \in [1..n -> Int] : f = Lengths(p.io) /\ \A k \in 1..n : f[k] = p.io[k].burst
  BY <1>1, <1>7, LengthsType
<1>9. PICK m \in Nat : m = Len(t) /\ m = n + 1
  BY <1>6, <1>7
<1>10. Lengths(t) \in [1..Len(t) -> Int] /\ \A k \in 1..Len(t) : Lengths(t)[k] = t[k].burst
  BY <1>5, LengthsType
<1>11. PICK g : g = Lengths(t)
  OBVIOUS
<1>12. g \in [1..n+1 -> Int] /\ \A k \in 1..n+1 : g[k] = t[k].burst
  BY <1>9, <1>10, <1>11
<1>13. \A k \in 1..n : g[k] = f[k]
  BY <1>6, <1>7, <1>8, <1>12
<1>14. g[n + 1] = b
  BY <1>2, <1>6, <1>7, <1>12
<1>15. Total(g) = Total(f) + b
  <2>1. \A h \in [1..n+1 -> Int] : (\A k \in 1..n : h[k] = f[k]) => Total(h) = Total(f) + h[n + 1]
    BY TotalAppends
  <2> QED  BY <1>12, <1>13, <1>14, <2>1
<1>16. total_io_time' = total_io_time + b
  BY DEF Register
<1> QED  BY <1>3, <1>4, <1>8, <1>11, <1>15, <1>16 DEF Books

LEMMA SortKeepsBooks ==
  ASSUME p \in Job, i \in Nat \ {0}, j \in Nat, i < j, Books, SortStep
  PROVE  Books'
<1>1. total_io_time' = total_io_time
  BY DEF SortStep
<1>2. CASE p' = p
  BY <1>1, <1>2 DEF Books
<1>3. CASE /\ i \in 1..Len(p.io) /\ j \in 1..Len(p.io)
           /\ p'.io = [p.io EXCEPT ![i] = p.io[j], ![j] = p.io[i]]
  <2>1. PICK s \in Seq(IoEvent) : s = p.io /\ Len(s) \in Nat
    BY JobFacts
  <2>2. PICK t : t = [s EXCEPT ![i] = s[j], ![j] = s[i]]
    OBVIOUS
  <2>3. /\ t \in Seq(IoEvent) /\ Len(t) = Len(s) /\ t[i] = s[j] /\ t[j] = s[i]
        /\ \A k \in 1..Len(s) : k # i /\ k # j => t[k] = s[k]
    BY <1>3, <2>1, <2>2, Exchange
  <2> DEFINE S == 1..Len(s)
  <2>4. IsFiniteSet(S)
    BY <2>1, FS_Interval
  <2>5. PICK f \in [S -> Int] : f = Lengths(s) /\ \A k \in S : f[k] = s[k].burst
    BY LengthsType
  <2>6. PICK g \in [S -> Int] : g = Lengths(t) /\ \A k \in S : g[k] = t[k].burst
    BY <2>3, LengthsType
  <2>7. i \in S /\ j \in S /\ i # j
    BY <1>3, <2>1
  <2> HIDE DEF S
  <2>8. g[i] = f[j] /\ g[j] = f[i] /\ \A k \in S : k # i /\ k # j => g[k] = f[k]
    BY <2>3, <2>5, <2>6, <2>7 DEF S
  <2>9. \A h \in [S -> Int] : \A a, b \in S :
           a # b /\ h[a] = f[b] /\ h[b] = f[a] /\ (\A k \in S : k # a /\ k # b => h[k] = f[k])
             => Total(h) = Total(f)
    BY <2>4, TotalSwaps
  <2>10. Total(g) = Total(f)
    BY <2>7, <2>8, <2>9
  <2> QED  BY <1>1, <1>3, <2>1, <2>2, <2>5, <2>6, <2>10 DEF Books
<1> QED  BY <1>2, <1>3, SortStepFacts

LEMMA StepsKeepBooks == Inv /\ InArray /\ Books /\ [Next]_vars => Books'
<1> SUFFICES ASSUME Inv, InArray, Books, [Next]_vars  PROVE Books'
  OBVIOUS
<1>1. p \in Job /\ total_io_time \in Nat /\ i \in Nat \ {0} /\ j \in Nat
  BY DEF Inv, Filled, Sorting, InArray
<1>2. ASSUME NEW a, NEW b, NEW pr, NEW n, StartProcess(a, b, pr, n)
      PROVE  Books'
  <2>1. p'.io = <<>> /\ total_io_time' = 0
    BY <1>2 DEF StartProcess
  <2> QED  BY <2>1, NothingToAdd DEF Books
<1>3. CASE ReadLine
  BY <1>2, <1>3 DEF ReadLine
<1>4. CASE DrawProcess
  BY <1>2, <1>4 DEF DrawProcess
<1>5. CASE ReadEvent \/ DrawEvent
  <2>0. PICK start \in Nat : EventStep(start)
    BY <1>5, EventFacts
  <2>1. \/ UNCHANGED <<p, total_io_time>>
        \/ \E s \in FreeFrom(start), b \in Nat : Register(s, b)
    BY <2>0 DEF EventStep
  <2>2. CASE UNCHANGED <<p, total_io_time>>
    BY <2>2 DEF Books
  <2>3. CASE \E s \in FreeFrom(start), b \in Nat : Register(s, b)
    <3>1. PICK s \in FreeFrom(start), b \in Nat : Register(s, b)
      BY <2>3
    <3>2. s \in Nat
      BY <1>1, JobFacts DEF FreeFrom
    <3> QED  BY <1>1, <3>1, <3>2, RegisterKeepsBooks
  <2> QED  BY <2>1, <2>2, <2>3
<1>6. CASE SortStep
  <2>1. i < j
    BY <1>6 DEF Inv, Sorting, SortStep
  <2> QED  BY <1>1, <1>6, <2>1, SortKeepsBooks
<1>7. CASE StartSort \/ FinishProcess \/ Ended \/ UNCHANGED vars
  BY <1>7 DEF StartSort, FinishProcess, Ended, vars, Books
<1> QED  BY <1>3, <1>4, <1>5, <1>6, <1>7 DEF Next

\* Whatever is typed or drawn, total_io_time, which calculate_metrics subtracts from the
\* turnaround time, is what the registered events add up to: a dropped event is not in it,
\* and sorting does not change it.
THEOREM IoTimeAddsUp == Spec => []IoTimeIsTotal
<1>1. Init => Books
  <2>1. Init => p.io = <<>> /\ total_io_time = 0
    BY DEF Init
  <2> QED  BY <2>1, NothingToAdd DEF Books
<1>2. Inv /\ Books => IoTimeIsTotal
  <2>1. Inv => p.io \in Seq(IoEvent)
    BY JobFacts DEF Inv, Filled
  <2> QED  BY <2>1, SumIsTotal DEF IoTimeIsTotal, Books
<1> QED  BY <1>1, <1>2, StepsKeepBooks, AlwaysInv, AlwaysInArray, PTL DEF Spec

\* Whatever is typed or drawn, a PCB that reaches the schedulers is well-formed and its
\* total_io_time is right, dropped and moved events included.
THEOREM PcbsAreDelivered == Spec => []PcbsAreSound
  BY SchedulersGetLegalJobs, IoTimeAddsUp, PTL DEF PcbsAreSound

-----------------------------------------------------------------------------
(* Dropped events                                                           *)

\* the points taken by the events of a list, and those up to q
Taken(io)       == {io[k].start : k \in 1..Len(io)}
TakenUpto(T, q) == {x \in T : x <= q}

\* the requests for a point up to q
AskedUpto(r, q) == {k \in 1..Len(r) : r[k] <= q}

\* Every request is inside the burst, and one for a point up to a free point was not
\* moved past it: so many points are taken as were asked for.
Balanced(r, T, burst) ==
  /\ r \in Seq(1..burst-1) /\ T \subseteq 1..burst-1
  /\ \A q \in 1..burst-1 : q \notin T => Cardinality(AskedUpto(r, q)) = Cardinality(TakenUpto(T, q))

Greedy == p.burst > 1 => Balanced(requested, Taken(p.io), p.burst)

LEMMA UptoFinite ==
  ASSUME NEW burst \in Nat, NEW r \in Seq(1..burst-1), NEW T \in SUBSET (1..burst-1), NEW q \in Int
  PROVE  /\ IsFiniteSet(T) /\ Cardinality(T) \in Nat
         /\ IsFiniteSet(AskedUpto(r, q)) /\ Cardinality(AskedUpto(r, q)) \in Nat
         /\ IsFiniteSet(TakenUpto(T, q)) /\ Cardinality(TakenUpto(T, q)) \in Nat
<1>1. IsFiniteSet(1..burst-1)
  BY FS_Interval
<1>2. IsFiniteSet(1..Len(r))
  <2>1. Len(r) \in Int
    OBVIOUS
  <2> QED  BY <2>1, FS_Interval
<1>3. T \in SUBSET (1..burst-1) /\ TakenUpto(T, q) \in SUBSET T
  BY DEF TakenUpto
<1>4. AskedUpto(r, q) \in SUBSET (1..Len(r))
  BY DEF AskedUpto
<1>5. IsFiniteSet(T) /\ IsFiniteSet(AskedUpto(r, q))
  BY <1>1, <1>2, <1>3, <1>4, FS_Subset
<1>6. IsFiniteSet(TakenUpto(T, q))
  BY <1>3, <1>5, FS_Subset
<1> QED  BY <1>5, <1>6, FS_CardinalityType

\* One more request, for a, that takes the first free point from a on, or none.
LEMMA RequestKeepsBalance ==
  ASSUME NEW burst \in Nat, NEW r, NEW T, Balanced(r, T, burst), NEW a \in 1..burst-1,
         NEW U, \/ U = T /\ \A x \in a..burst-1 : x \in T
                \/ \E s \in a..burst-1 : /\ s \notin T /\ U = T \union {s}
                                         /\ \A x \in a..burst-1 : x \notin T => s <= x
  PROVE  Balanced(Append(r, a), U, burst)
<1> DEFINE R == Append(r, a)
<1>1. r \in Seq(1..burst-1) /\ T \in SUBSET (1..burst-1) /\ Len(r) \in Nat
  BY DEF Balanced
<1>2. /\ R \in Seq(1..burst-1) /\ Len(R) = Len(r) + 1 /\ R[Len(r) + 1] = a
      /\ \A k \in 1..Len(r) : R[k] = r[k]
  <2>1. PICK E : E = 1..burst-1
    OBVIOUS
  <2>2. r \in Seq(E) /\ a \in E
    BY <1>1, <2>1
  <2>3. Append(r, a) \in Seq(E)
    BY <2>2
  <2>4. /\ Len(Append(r, a)) = Len(r) + 1 /\ Append(r, a)[Len(r) + 1] = a
        /\ \A k \in 1..Len(r) : Append(r, a)[k] = r[k]
    BY <2>2
  <2> QED  BY <2>1, <2>3, <2>4
<1> HIDE DEF R
<1>3. U \in SUBSET (1..burst-1)
  <2>1. \A s \in a..burst-1 : s \in 1..burst-1
    OBVIOUS
  <2> QED  BY <1>1, <2>1
<1>4. ASSUME NEW q \in 1..burst-1, q \notin U
      PROVE  Cardinality(AskedUpto(R, q)) = Cardinality(TakenUpto(U, q))
  <2>1. q \notin T /\ Cardinality(AskedUpto(r, q)) = Cardinality(TakenUpto(T, q))
    BY <1>4 DEF Balanced
  <2>2. /\ IsFiniteSet(AskedUpto(r, q)) /\ IsFiniteSet(TakenUpto(T, q))
        /\ Cardinality(AskedUpto(r, q)) \in Nat
    <3>1. PICK x \in Int : x = q
      OBVIOUS
    <3>2. /\ IsFiniteSet(T) /\ Cardinality(T) \in Nat
          /\ IsFiniteSet(AskedUpto(r, x)) /\ Cardinality(AskedUpto(r, x)) \in Nat
          /\ IsFiniteSet(TakenUpto(T, x)) /\ Cardinality(TakenUpto(T, x)) \in Nat
      BY <1>1, UptoFinite
    <3> QED  BY <3>1, <3>2
  <2>3. CASE q < a
    <3>1. AskedUpto(R, q) = AskedUpto(r, q)
      <4>1. PICK n \in Nat : n = Len(r)
        BY <1>1
      <4>2. Len(R) = n + 1 /\ R[n + 1] = a /\ \A k \in 1..n : R[k] = r[k]
        BY <1>2, <4>1
      <4>3. {k \in 1..n+1 : R[k] <= q} = {k \in 1..n : r[k] <= q}
        <5>1. ~(R[n + 1] <= q)
          BY <2>3, <4>2
        <5>2. \A k \in 1..n+1 : k = n + 1 \/ k \in 1..n
          OBVIOUS
        <5>3. \A k \in 1..n : k \in 1..n+1
          OBVIOUS
        <5> QED  BY <4>2, <5>1, <5>2, <5>3
      <4> QED  BY <4>1, <4>2, <4>3 DEF AskedUpto
    <3>2. TakenUpto(U, q) = TakenUpto(T, q)
      BY <1>1, <1>3, <2>3 DEF TakenUpto
    <3> QED  BY <2>1, <3>1, <3>2
  <2>4. CASE q >= a
    <3>1. PICK s \in a..burst-1 : s \notin T /\ U = T \union {s} /\ s <= q
      BY <1>4, <2>1, <2>4
    <3>2. s < q
      BY <1>4, <3>1
    <3>3. TakenUpto(U, q) = TakenUpto(T, q) \union {s} /\ s \notin TakenUpto(T, q)
      BY <3>1, <3>2 DEF TakenUpto
    <3>4. PICK n \in Nat : n = Len(r) + 1
      BY <1>1
    <3>5. AskedUpto(R, q) = AskedUpto(r, q) \union {n} /\ n \notin AskedUpto(r, q)
      BY <1>1, <1>2, <2>4, <3>4 DEF AskedUpto
    <3>6. Cardinality(TakenUpto(U, q)) = Cardinality(TakenUpto(T, q)) + 1
      BY <2>2, <3>3, FS_AddElement
    <3>7. Cardinality(AskedUpto(R, q)) = Cardinality(AskedUpto(r, q)) + 1
      BY <2>2, <3>5, FS_AddElement
    <3> QED  BY <2>1, <3>6, <3>7
  <2> QED  BY <2>3, <2>4
<1> QED  BY <1>2, <1>3, <1>4 DEF Balanced, R

\* the pigeonhole principle, for the choice of a point for each request of a set
LEMMA NoRoom ==
  ASSUME NEW S, IsFiniteSet(S), NEW T, IsFiniteSet(T), NEW f \in [S -> T],
         \A k, m \in S : f[k] = f[m] => k = m
  PROVE  Cardinality(S) <= Cardinality(T) /\ Cardinality(S) \in Nat /\ Cardinality(T) \in Nat
<1>1. Cardinality(S) \in Nat /\ Cardinality(T) \in Nat
  BY FS_CardinalityType
<1>2. ~(Cardinality(T) < Cardinality(S))
  BY FS_PigeonHole
<1> QED  BY <1>1, <1>2

\* No choice of points, each event not before the point asked for, registers more: from
\* the last free point on all points are taken, and up to it as many as were asked for.
LEMMA NobodyDoesBetter ==
  ASSUME NEW burst \in Nat, burst > 1, NEW r, NEW T, Balanced(r, T, burst),
         NEW S \in SUBSET (1..Len(r)), NEW f \in [S -> 1..burst-1],
         \A k, m \in S : f[k] = f[m] => k = m,
         \A k \in S : f[k] >= r[k]
  PROVE  Cardinality(S) \in Nat /\ Cardinality(T) \in Nat /\ Cardinality(S) <= Cardinality(T)
<1>1. /\ r \in Seq(1..burst-1) /\ T \in SUBSET (1..burst-1) /\ Len(r) \in Nat
      /\ IsFiniteSet(1..burst-1)
  BY FS_Interval DEF Balanced
<1>2. IsFiniteSet(T) /\ Cardinality(T) \in Nat
  BY <1>1, FS_Subset, FS_CardinalityType
<1>3. IsFiniteSet(S)
  <2>1. IsFiniteSet(1..Len(r))
    BY <1>1, FS_Interval
  <2> QED  BY <2>1, FS_Subset
<1>4. CASE T = 1..burst-1
  BY <1>2, <1>3, <1>4, NoRoom
<1>5. CASE T # 1..burst-1
  <2> DEFINE D == {d \in Nat : d < burst - 1 /\ burst - 1 - d \notin T}
  <2>1. D \in SUBSET Nat /\ D # {}
    <3>1. PICK x \in 1..burst-1 : x \notin T
      BY <1>1, <1>5
    <3>2. PICK d \in Nat : d = burst - 1 - x
      OBVIOUS
    <3>3. d < burst - 1 /\ burst - 1 - d = x
      BY <3>2
    <3>4. d \in D
      BY <3>1, <3>3
    <3> QED  BY <3>4
  <2>2. PICK d \in D : \A e \in D : d <= e
    <3> HIDE DEF D
    <3> QED  BY <2>1, LeastNat
  <2>3. PICK q \in 1..burst-1 : q = burst - 1 - d /\ q \notin T
    BY <2>2
  <2>4. ASSUME NEW x \in q+1..burst-1  PROVE x \in T
    <3>1. PICK e \in Nat : e = burst - 1 - x
      OBVIOUS
    <3>2. e < d /\ e < burst - 1 /\ burst - 1 - e = x
      BY <2>3, <3>1
    <3>3. x \notin T => e \in D
      BY <3>2
    <3> QED  BY <2>2, <3>2, <3>3
  <2> HIDE DEF D
  <2> DEFINE L == {k \in S : r[k] <= q}
             H == {k \in S : r[k] > q}
             V == q+1..burst-1
             W == TakenUpto(T, q)
  <2>5. \A k \in S : r[k] \in 1..burst-1
    BY <1>1
  <2>6. S = L \union H /\ L \intersect H = {} /\ H \in SUBSET S
    BY <2>5
  <2>7. T = W \union V /\ W \intersect V = {}
    <3>1. \A x \in 1..burst-1 : (x \in V <=> ~(x <= q)) /\ (x \in V => x \in T)
      BY <2>4
    <3>2. \A x \in V : x \in 1..burst-1
      OBVIOUS
    <3>3. W = {x \in T : x <= q}
      BY DEF TakenUpto
    <3> HIDE DEF V, W
    <3> QED  BY <1>1, <3>1, <3>2, <3>3
  <2>8. /\ IsFiniteSet(AskedUpto(r, q)) /\ IsFiniteSet(W)
        /\ Cardinality(AskedUpto(r, q)) = Cardinality(W) /\ Cardinality(W) \in Nat
    <3>1. PICK x \in Int : x = q
      OBVIOUS
    <3>2. /\ IsFiniteSet(T) /\ Cardinality(T) \in Nat
          /\ IsFiniteSet(AskedUpto(r, x)) /\ Cardinality(AskedUpto(r, x)) \in Nat
          /\ IsFiniteSet(TakenUpto(T, x)) /\ Cardinality(TakenUpto(T, x)) \in Nat
      BY <1>1, UptoFinite
    <3>3. Cardinality(AskedUpto(r, q)) = Cardinality(TakenUpto(T, q))
      BY <2>3 DEF Balanced
    <3> QED  BY <3>1, <3>2, <3>3
  <2>9. IsFiniteSet(L) /\ Cardinality(L) <= Cardinality(W) /\ Cardinality(L) \in Nat
    <3>1. L \in SUBSET AskedUpto(r, q)
      BY DEF AskedUpto
    <3> QED  BY <2>8, <3>1, FS_Subset, FS_CardinalityType
  <2>10. IsFiniteSet(H) /\ IsFiniteSet(V)
    <3>1. q + 1 \in Int /\ burst - 1 \in Int
      OBVIOUS
    <3> QED  BY <1>3, <2>6, <3>1, FS_Subset, FS_Interval
  <2>11. Cardinality(H) <= Cardinality(V) /\ Cardinality(H) \in Nat /\ Cardinality(V) \in Nat
    <3>1. PICK g : g = [k \in H |-> f[k]]
      OBVIOUS
    <3>2. \A k \in H : f[k] \in V
      BY <2>5
    <3>3. g \in [H -> V] /\ \A k, m \in H : g[k] = g[m] => k = m
      BY <3>1, <3>2
    <3> HIDE DEF H, V
    <3> QED  BY <2>10, <3>3, NoRoom
  <2> HIDE DEF L, H, V, W
  <2>12. Cardinality(S) = Cardinality(L) + Cardinality(H)
    <3>1. Cardinality(L \union H) = Cardinality(L) + Cardinality(H) - Cardinality(L \intersect H)
      BY <2>9, <2>10, FS_Union
    <3>2. Cardinality(L \intersect H) = 0
      BY <2>6, FS_EmptySet
    <3> QED  BY <2>6, <2>9, <2>11, <3>1, <3>2
  <2>13. Cardinality(T) = Cardinality(W) + Cardinality(V)
    <3>1. Cardinality(W \union V) = Cardinality(W) + Cardinality(V) - Cardinality(W \intersect V)
      BY <2>8, <2>10, FS_Union
    <3>2. Cardinality(W \intersect V) = 0
      BY <2>7, FS_EmptySet
    <3> QED  BY <2>7, <2>8, <2>11, <3>1, <3>2
  <2> QED  BY <1>2, <2>8, <2>9, <2>11, <2>12, <2>13
<1> QED  BY <1>4, <1>5

\* the points are no more than the events
LEMMA NoMoreTakenThanEvents ==
  ASSUME NEW io, Len(io) \in Nat, IsFiniteSet(Taken(io))
  PROVE  Cardinality(Taken(io)) <= Len(io) /\ Cardinality(Taken(io)) \in Nat
<1>1. PICK n \in Nat : n = Len(io)
  OBVIOUS
<1> DEFINE K == 1..n
           X == Taken(io)
           g == [x \in X |-> CHOOSE k \in K : io[k].start = x]
<1>2. IsFiniteSet(K) /\ Cardinality(K) = n
  <2>1. PICK one \in Int : one = 1
    OBVIOUS
  <2>2. /\ IsFiniteSet(one..n)
        /\ Cardinality(one..n) = IF one > n THEN 0 ELSE n - one + 1
    BY FS_Interval
  <2> QED  BY <2>1, <2>2
<1>3. ASSUME NEW x \in X  PROVE g[x] \in K /\ io[g[x]].start = x
  <2>1. \E k \in K : io[k].start = x
    BY <1>1 DEF Taken
  <2>2. (CHOOSE k \in K : io[k].start = x) \in K /\ io[CHOOSE k \in K : io[k].start = x].start = x
    BY <2>1, Zenon
  <2> QED  BY <2>2
<1>4. IsFiniteSet(X)
  OBVIOUS
<1>5. g \in [X -> K] /\ \A x, y \in X : g[x] = g[y] => x = y
  BY <1>3
<1> HIDE DEF g, X, K
<1>6. Cardinality(X) <= Cardinality(K) /\ Cardinality(X) \in Nat /\ Cardinality(K) \in Nat
  BY <1>2, <1>4, <1>5, NoRoom
<1> QED  BY <1>1, <1>2, <1>6 DEF X

LEMMA NothingAskedFor ==
  ASSUME NEW burst \in Nat
  PROVE  Balanced(<<>>, {}, burst)
<1>1. \A q : AskedUpto(<<>>, q) = {} /\ TakenUpto({}, q) = {}
  BY DEF AskedUpto, TakenUpto
<1> QED  BY <1>1 DEF Balanced

LEMMA StartIsGreedy ==
  ASSUME NEW a, NEW b \in Nat, NEW pr, NEW n, StartProcess(a, b, pr, n)
  PROVE  Greedy'
<1>1. p'.burst = b /\ p'.io = <<>> /\ requested' = <<>>
  BY DEF StartProcess
<1>2. Taken(<<>>) = {}
  BY DEF Taken
<1> QED  BY <1>1, <1>2, NothingAskedFor DEF Greedy

\* The event takes the first free point from the one asked for, or none is free.
LEMMA EventKeepsGreedy ==
  ASSUME Inv, Greedy, ReadEvent \/ DrawEvent
  PROVE  Greedy'
<1>1. PICK start \in Nat : EventStep(start)
  BY EventFacts
<1>2. p \in Job
  BY DEF Inv, Filled
<1>3. /\ p.burst \in Nat \ {0} /\ p.io \in Seq(IoEvent) /\ Len(p.io) \in Nat
      /\ DOMAIN p.io = 1..Len(p.io)
  BY <1>2, JobFacts
<1>4. requested' = Append(requested, start) /\ start < p.burst /\ (start > 0 \/ p.burst = 1)
  BY <1>1 DEF EventStep, NextEvent
<1>5. FreeFrom(start) = {x \in start..p.burst-1 : x \notin Taken(p.io)}
  BY <1>3 DEF FreeFrom, exists_io_start, Taken
<1>6. PICK U : U = Taken(p'.io)
  OBVIOUS
<1>7. /\ p'.burst = p.burst
      /\ \/ U = Taken(p.io) /\ \A x \in start..p.burst-1 : x \in Taken(p.io)
         \/ \E s \in start..p.burst-1 : /\ s \notin Taken(p.io) /\ U = Taken(p.io) \union {s}
                                        /\ \A x \in start..p.burst-1 : x \notin Taken(p.io) => s <= x
  <2>1. CASE FreeFrom(start) = {} /\ UNCHANGED <<p, total_io_time>>
    BY <1>5, <1>6, <2>1
  <2>2. ASSUME NEW s \in FreeFrom(start), NEW b \in Nat,
               Register(s, b), \A x \in FreeFrom(start) : s <= x
        PROVE  <1>7!1 /\ U = Taken(p.io) \union {s}
    <3> DEFINE e == [start |-> s, burst |-> b]
    <3>1. p' = [p EXCEPT !.io = Append(p.io, e)]
      BY <2>2 DEF Register
    <3>2. p'.burst = p.burst /\ p'.io = Append(p.io, e)
      BY <1>2, <3>1 DEF Job
    <3>3. e.start = s
      OBVIOUS
    <3> HIDE DEF e
    <3>4. PICK n \in Nat : n = Len(p.io)
      BY <1>3
    <3>5. /\ Len(p'.io) = n + 1 /\ p'.io[n + 1] = e
          /\ \A k \in 1..n : p'.io[k] = p.io[k]
      BY <1>3, <3>2, <3>4
    <3>6. \A k : k \in 1..n+1 <=> k \in 1..n \/ k = n + 1
      OBVIOUS
    <3>7. {p'.io[k].start : k \in 1..n+1} = {p.io[k].start : k \in 1..n} \union {s}
      BY <3>3, <3>5, <3>6
    <3> QED  BY <1>6, <3>2, <3>4, <3>5, <3>7 DEF Taken
  <2> QED  BY <1>1, <1>5, <2>1, <2>2 DEF EventStep
<1>8. ASSUME p.burst > 1  PROVE Balanced(Append(requested, start), U, p.burst)
  <2>1. PICK r : r = requested
    OBVIOUS
  <2>2. PICK T : T = Taken(p.io)
    OBVIOUS
  <2>3. PICK burst \in Nat : burst = p.burst
    BY <1>3
  <2>4. Balanced(r, T, burst) /\ start \in 1..burst-1
    BY <1>4, <1>8, <2>1, <2>2, <2>3 DEF Greedy
  <2>5. \/ U = T /\ \A x \in start..burst-1 : x \in T
        \/ \E s \in start..burst-1 : /\ s \notin T /\ U = T \union {s}
                                     /\ \A x \in start..burst-1 : x \notin T => s <= x
    BY <1>7, <2>2, <2>3
  <2>6. Balanced(Append(r, start), U, burst)
    BY <2>4, <2>5, RequestKeepsBalance
  <2> QED  BY <2>1, <2>3, <2>6
<1> QED  BY <1>4, <1>6, <1>7, <1>8 DEF Greedy

\* sorting moves no event to another point
LEMMA SortKeepsGreedy ==
  ASSUME Inv, Greedy, SortStep
  PROVE  Greedy'
<1>1. p \in Job /\ i \in Nat \ {0} /\ j \in Nat /\ i < Len(p.io) /\ requested' = requested
  BY DEF Inv, Filled, Sorting, SortStep
<1>2. p.io \in Seq(IoEvent) /\ Len(p.io) \in Nat
  BY <1>1, JobFacts
<1>3. CASE UNCHANGED p
  BY <1>1, <1>3 DEF Greedy
<1>4. CASE j <= Len(p.io) /\ p' = [p EXCEPT !.io[i] = p.io[j], !.io[j] = p.io[i]]
  <2>1. i < j
    BY DEF Inv, Sorting, SortStep
  <2>2. PICK s : s = p.io
    OBVIOUS
  <2>3. PICK t : t = [s EXCEPT ![i] = s[j], ![j] = s[i]]
    OBVIOUS
  <2>4. p'.io = t /\ p'.burst = p.burst
    BY <1>1, <1>4, <2>2, <2>3 DEF Job
  <2>5. PICK a \in 1..Len(s), b \in 1..Len(s) : a = i /\ b = j
    BY <1>1, <1>2, <1>4, <2>1, <2>2
  <2>6. t = [s EXCEPT ![a] = s[b], ![b] = s[a]] /\ s \in Seq(IoEvent)
    BY <1>2, <2>2, <2>3, <2>5
  <2>7. /\ t \in Seq(IoEvent) /\ Len(t) = Len(s) /\ DOMAIN t = 1..Len(s) /\ DOMAIN s = 1..Len(s)
        /\ t[a] = s[b] /\ t[b] = s[a]
        /\ \A k \in 1..Len(s) : k # a /\ k # b => t[k] = s[k]
    BY <2>6, Exchange
  <2>8. {t[k].start : k \in 1..Len(s)} = {s[k].start : k \in 1..Len(s)}
    BY <2>5, <2>7
  <2>9. Taken(p'.io) = Taken(p.io)
    BY <2>2, <2>4, <2>7, <2>8 DEF Taken
  <2> QED  BY <1>1, <2>4, <2>9 DEF Greedy
<1> QED  BY <1>3, <1>4, <1>1, <1>2 DEF SortStep

LEMMA StepsKeepGreedy ==
  ASSUME Inv, Greedy, [Next]_vars
  PROVE  Greedy'
<1>1. CASE ReadLine
  <2>1. PICK l \in RawLines : StartProcess(AtLeast(0, l[1]), AtLeast(1, l[2]), AtLeast(1, l[3]),
                                           AtMost(MAX_IO_EVENTS, AtLeast(0, l[4])))
    BY <1>1 DEF ReadLine
  <2>2. AtLeast(1, l[2]) \in Nat
    <3>1. l[2] \in Int
      BY WorkloadAssumption
    <3> QED  BY <3>1, Clamped
  <2> QED  BY <2>1, <2>2, StartIsGreedy
<1>2. CASE DrawProcess
  <2>1. PICK a \in Arrivals, b \in Bursts, pr \in Priorities :
          \E n \in 0..AtMost(3, b \div 5) : StartProcess(a, b, pr, n)
    BY <1>2 DEF DrawProcess
  <2>2. b \in Nat
    BY WorkloadAssumption
  <2> QED  BY <2>1, <2>2, StartIsGreedy
<1>3. CASE ReadEvent \/ DrawEvent
  BY <1>3, EventKeepsGreedy
<1>4. CASE SortStep
  BY <1>4, SortKeepsGreedy
<1>5. CASE StartSort \/ FinishProcess \/ Ended \/ UNCHANGED vars
  BY <1>5 DEF StartSort, FinishProcess, Ended, vars, Greedy
<1> QED  BY <1>1, <1>2, <1>3, <1>4, <1>5 DEF Next

LEMMA GreedyDropsNone ==
  ASSUME Inv, Greedy
  PROVE  NoNeedlessDrop
<1> SUFFICES ASSUME p.burst > 1, NEW S \in SUBSET DOMAIN requested,
                    Cardinality(S) > Len(p.io), Fits(S)
             PROVE  FALSE
  BY DEF NoNeedlessDrop
<1>1. p \in Job
  BY DEF Inv, Filled
<1>2. p.burst \in Nat /\ Len(p.io) \in Nat
  BY <1>1, JobFacts
<1>3. PICK burst \in Nat : burst = p.burst
  BY <1>2
<1>4. PICK r : r = requested
  OBVIOUS
<1>5. PICK T : T = Taken(p.io)
  OBVIOUS
<1>6. burst > 1 /\ Balanced(r, T, burst)
  BY <1>3, <1>4, <1>5 DEF Greedy
<1>7. S \in SUBSET (1..Len(r))
  <2>1. r \in Seq(1..burst-1)
    BY <1>6 DEF Balanced
  <2> QED  BY <1>4, <2>1
<1>8. PICK f \in [S -> 1..burst-1] : /\ \A k, m \in S : f[k] = f[m] => k = m
                                     /\ \A k \in S : f[k] >= r[k]
  BY <1>3, <1>4 DEF Fits
<1>9. Cardinality(S) \in Nat /\ Cardinality(T) \in Nat /\ Cardinality(S) <= Cardinality(T)
  BY <1>6, <1>7, <1>8, NobodyDoesBetter
<1>10. Cardinality(Taken(p.io)) <= Len(p.io) /\ Cardinality(Taken(p.io)) \in Nat
  <2>1. IsFiniteSet(1..burst-1)
    BY FS_Interval
  <2>2. T \in SUBSET (1..burst-1)
    BY <1>6 DEF Balanced
  <2>3. IsFiniteSet(T)
    BY <2>1, <2>2, FS_Subset
  <2> QED  BY <1>2, <1>5, <2>3, NoMoreTakenThanEvents
<1> QED  BY <1>2, <1>5, <1>9, <1>10

\* An event that create_manual_workload drops had no place: no other choice of points,
\* each event not before the point asked for, would have registered more of them.
THEOREM DropsOnlyWhatCannotFit == Spec => []NoNeedlessDrop
<1>1. Init => Greedy
  BY DEF Init, Greedy
<1> QED  BY <1>1, GreedyDropsNone, StepsKeepGreedy, AlwaysInv, PTL DEF Spec
=============================================================================
