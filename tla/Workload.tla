------------------------------ MODULE Workload ------------------------------
(***************************************************************************)
(* cpu_scheduler/workload.c: how create_manual_workload and                *)
(* create_random_workload fill process_list.  What is typed, or drawn, is  *)
(* taken from small sets; a scanf that fails is replaced in the code by    *)
(* values that are themselves a legal line.  requested remembers the       *)
(* starts asked for, after clamping, for the properties only.              *)
(***************************************************************************)
EXTENDS Types, FiniteSetsExt, Functions

CONSTANTS MAX_PROCESS,
          RawCounts,             \* process counts typed
          RawLines,              \* <<arrival, burst, priority, io_count>> typed
          RawEvents,             \* <<start, io_burst>> typed
          Arrivals, Bursts, Priorities, IoBursts   \* the ranges of rand()
ASSUME WorkloadAssumption ==
  /\ MAX_PROCESS \in Nat /\ MAX_IO_EVENTS >= 3 /\ RawCounts \subseteq Int
  /\ RawLines \subseteq Int \X Int \X Int \X Int /\ RawEvents \subseteq Int \X Int
  /\ Arrivals \subseteq Nat /\ Bursts \subseteq 5..20
  /\ Priorities \subseteq 1..9 /\ IoBursts \subseteq 1..5

VARIABLES mode, process_count, process_list,
          p, total_io_time,      \* the PCB being filled
          to_read,               \* io_count - k
          requested, pc, i, j
vars == <<mode, process_count, process_list, p, total_io_time, to_read, requested, pc, i, j>>

AtLeast(low, x)  == Max({low, x})
AtMost(high, x)  == Min({high, x})

\* mutant: only the event registered last is compared
MutExistsLast(start) == p.io # <<>> /\ p.io[Len(p.io)].start = start

exists_io_start(start) == \E k \in DOMAIN p.io : p.io[k].start = start

Init ==
  /\ mode \in {"manual", "random"}
  /\ \E n \in RawCounts : process_count = AtMost(MAX_PROCESS, AtLeast(0, n))
  /\ process_list = <<>>
  /\ p = [arrival |-> 0, burst |-> 1, priority |-> 1, io |-> <<>>]
  /\ total_io_time = 0 /\ to_read = 0 /\ requested = <<>>
  /\ pc = "process" /\ i = 1 /\ j = 1

\* init_process, then the loop over the events
StartProcess(arrival, burst, priority, io_count) ==
  /\ pc = "process" /\ Len(process_list) < process_count
  /\ p' = [arrival |-> arrival, burst |-> burst, priority |-> priority, io |-> <<>>]
  /\ total_io_time' = 0 /\ requested' = <<>>
  /\ to_read' = io_count
  /\ pc' = "events"
  /\ UNCHANGED <<mode, process_count, process_list, i, j>>

ReadLine ==
  mode = "manual" /\ \E l \in RawLines :
    StartProcess(AtLeast(0, l[1]), AtLeast(1, l[2]), AtLeast(1, l[3]),
                 AtMost(MAX_IO_EVENTS, AtLeast(0, l[4])))

DrawProcess ==
  mode = "random" /\ \E a \in Arrivals, b \in Bursts, pr \in Priorities :
    \E n \in 0..AtMost(3, b \div 5) : StartProcess(a, b, pr, n)

Register(start, io_burst) ==
  /\ p' = [p EXCEPT !.io = Append(@, [start |-> start, burst |-> io_burst])]
  /\ total_io_time' = total_io_time + io_burst

NextEvent(start) ==
  /\ requested' = Append(requested, start)
  /\ to_read' = to_read - 1
  /\ UNCHANGED <<mode, process_count, process_list, pc, i, j>>

\* mutant: the last point is not tried
MutFreeShort(start) == {s \in start..p.burst-2 : ~exists_io_start(s)}

\* the points from start on that an event can still be moved to
FreeFrom(start) == {s \in start..p.burst-1 : ~exists_io_start(s)}

ReadEvent ==
  /\ mode = "manual" /\ pc = "events" /\ to_read > 0
  /\ \E e \in RawEvents :
       LET start    == AtMost(p.burst - 1, AtLeast(1, e[1]))
           io_burst == AtLeast(0, e[2])
       IN  /\ IF FreeFrom(start) # {} THEN Register(Min(FreeFrom(start)), io_burst)
                                      ELSE UNCHANGED <<p, total_io_time>>
           /\ NextEvent(start)

\* a start that is taken is drawn again
DrawEvent ==
  /\ mode = "random" /\ pc = "events" /\ to_read > 0
  /\ \E s \in FreeFrom(1), b \in IoBursts : Register(s, b) /\ NextEvent(s)

StartSort ==
  /\ pc = "events" /\ to_read = 0
  /\ pc' = "sort" /\ i' = 1 /\ j' = 2
  /\ UNCHANGED <<mode, process_count, process_list, p, total_io_time, to_read, requested>>

\* mutant: only the starts are exchanged
MutSortStartsOnly ==
  /\ pc = "sort" /\ i < Len(p.io)
  /\ IF j > Len(p.io) THEN i' = i + 1 /\ j' = i + 2 /\ UNCHANGED p
     ELSE /\ j' = j + 1 /\ UNCHANGED i
          /\ p' = IF p.io[j].start < p.io[i].start
                  THEN [p EXCEPT !.io[i].start = p.io[j].start, !.io[j].start = p.io[i].start]
                  ELSE p
  /\ UNCHANGED <<mode, process_count, process_list, total_io_time, to_read, requested, pc>>

\* one comparison of sort_io_events
SortStep ==
  /\ pc = "sort" /\ i < Len(p.io)
  /\ IF j > Len(p.io) THEN i' = i + 1 /\ j' = i + 2 /\ UNCHANGED p
     ELSE /\ j' = j + 1 /\ UNCHANGED i
          /\ p' = IF p.io[j].start < p.io[i].start
                  THEN [p EXCEPT !.io[i] = p.io[j], !.io[j] = p.io[i]] ELSE p
  /\ UNCHANGED <<mode, process_count, process_list, total_io_time, to_read, requested, pc>>

FinishProcess ==
  /\ pc = "sort" /\ i >= Len(p.io)
  /\ process_list' = Append(process_list, p)
  /\ pc' = "process"
  /\ UNCHANGED <<mode, process_count, p, total_io_time, to_read, requested, i, j>>

Ended == pc = "process" /\ Len(process_list) = process_count /\ UNCHANGED vars

Next == ReadLine \/ DrawProcess \/ ReadEvent \/ DrawEvent \/ StartSort \/ SortStep
        \/ FinishProcess \/ Ended

Spec == Init /\ [][Next]_vars

-----------------------------------------------------------------------------
WorkloadTypeOK ==
  /\ process_count \in 0..MAX_PROCESS /\ Len(process_list) <= process_count
  /\ p \in Job /\ \A k \in DOMAIN process_list : process_list[k] \in Job
  /\ total_io_time \in Nat /\ to_read \in 0..MAX_IO_EVENTS
  /\ pc \in {"process", "events", "sort"}

\* Whatever is typed or drawn, the schedulers get a workload they can handle: events
\* sorted, no two at the same point, and inside the burst, so that
\* handle_after_cpu_unit reaches each of them.
ListIsWellFormed == \A k \in DOMAIN process_list : WellFormed(process_list[k])

\* total_io_time, which calculate_metrics subtracts, is the sum of the registered
\* events, the dropped ones left out, and sorting does not change it.
IoTimeIsTotal ==
  total_io_time = MapThenSumSet(LAMBDA k : p.io[k].burst, DOMAIN p.io)

\* Whatever is typed or drawn, the schedulers get PCBs they can handle and
\* calculate_metrics gets the I/O time it is to subtract.
PcbsAreSound == ListIsWellFormed /\ IoTimeIsTotal

\* A typed event is dropped only when it must be: no other choice of points, each
\* event not before the point asked for, registers more of them.
Fits(S) == \E f \in [S -> 1..p.burst-1] : /\ \A k, m \in S : f[k] = f[m] => k = m
                                          /\ \A k \in S : f[k] >= requested[k]
NoNeedlessDrop ==
  p.burst > 1 => \A S \in SUBSET DOMAIN requested :
                    Cardinality(S) > Len(p.io) => ~Fits(S)

\* sort_io_events only moves whole events: none is lost, and no start is parted
\* from its I/O burst.
SortKeepsEvents ==
  [][pc = "sort" /\ pc' = "sort" => /\ Range(p'.io) = Range(p.io)
                                    /\ Len(p'.io) = Len(p.io)]_vars

=============================================================================
