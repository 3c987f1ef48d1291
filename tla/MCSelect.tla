------------------------------ MODULE MCSelect ------------------------------
(* Three families of workloads for the schedulers that compare processes.   *)
EXTENDS SelectLoop

Events(starts, burst) == [k \in 1..Len(starts) |-> [start |-> starts[k], burst |-> burst]]

\* every mix of arrivals, bursts, priorities and one I/O event, within the bounds
SmallJobs == [arrival : 0..1, burst : {1}, priority : 1..2, io : {<<>>}]
             \union [arrival : 0..1, burst : {3}, priority : 1..2,
                     io : {<<>>, Events(<<1>>, 0), Events(<<1>>, 1), Events(<<2>>, 1)}]

\* processes that do I/O after every unit, against others that do none
IoBoundJobs == [arrival : {0}, burst : {4}, priority : 1..2,
                io : {<<>>, Events(<<1, 2, 3>>, 1), Events(<<1, 2, 3>>, 2)}]

\* no I/O, and arrivals while others run
CpuBoundJobs == [arrival : 0..2, burst : 1..3, priority : {1}, io : {<<>>}]

MCWorkloads == [Procs -> SmallJobs] \union [Procs -> IoBoundJobs] \union [Procs -> CpuBoundJobs]
=============================================================================
