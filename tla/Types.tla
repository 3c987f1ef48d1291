------------------------------- MODULE Types -------------------------------
(***************************************************************************)
(* cpu_scheduler/types.h: the input half of a PCB, and what the functions  *)
(* of workload.c promise the schedulers about it.                          *)
(***************************************************************************)
EXTENDS Integers, Sequences

CONSTANT MAX_IO_EVENTS    \* capacity of io_start[] and io_burst[]
ASSUME IoAssumption == MAX_IO_EVENTS \in Nat

IoEvent == [start : Nat, burst : Nat]
Job     == [arrival : Nat, burst : Nat \ {0}, priority : Nat \ {0}, io : Seq(IoEvent)]

\* At most MAX_IO_EVENTS events, in the order of their starts and no two at the
\* same point, all inside the CPU burst.  A burst of one unit has no inside:
\* create_manual_workload then stores start 0, a point that is never reached.
WellFormed(job) ==
  /\ job \in Job
  /\ Len(job.io) <= MAX_IO_EVENTS
  /\ \A k \in 1..Len(job.io) :
        /\ job.io[k].start < job.burst
        /\ job.io[k].start = 0 => job.burst = 1
  /\ \A k, m \in 1..Len(job.io) : k < m => job.io[k].start < job.io[m].start

=============================================================================
