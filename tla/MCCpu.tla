------------------------------- MODULE MCCpu -------------------------------
(* Small workloads for Cpu: every combination of arrival, burst and I/O     *)
(* events within the bounds, the unreachable event of a one-unit burst      *)
(* included.                                                                *)
EXTENDS Evaluation

CONSTANTS MaxArrival, MaxBurst, MaxIoBurst

IoLists(burst) ==
  {<<>>}
  \union {<<[start |-> s, burst |-> b]>> :
             s \in IF burst = 1 THEN {0} ELSE 1..burst-1, b \in 0..MaxIoBurst}
  \union {<<[start |-> s, burst |-> b], [start |-> s + d, burst |-> c]>> :
             s \in 1..burst-2, d \in {1}, b \in 0..MaxIoBurst, c \in 0..MaxIoBurst}

MCJobs == UNION {{[arrival |-> a, burst |-> b, priority |-> 1, io |-> l] :
                     a \in 0..MaxArrival, l \in IoLists(b)} : b \in 1..MaxBurst}

MCWorkloads == [Procs -> MCJobs]
=============================================================================
