---------------------------- MODULE MCRoundRobin ----------------------------
(* Workloads for the queue-driven schedulers. *)
EXTENDS RoundRobin

CONSTANTS MaxArrival, MaxBurst, MaxIoBurst

IoLists(burst) ==
  {<<>>} \union {<<[start |-> s, burst |-> b]>> : s \in 1..burst-1, b \in 0..MaxIoBurst}

MCJobs == UNION {{[arrival |-> a, burst |-> b, priority |-> 1, io |-> l] :
                     a \in 0..MaxArrival, l \in IoLists(b)} : b \in 1..MaxBurst}

MCWorkloads == [Procs -> MCJobs]
=============================================================================
