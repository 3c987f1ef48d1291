--------------------------- MODULE ThreadExercises ---------------------------
(***************************************************************************)
(* The two groups of lab4 exercises with shared state, side by side: a     *)
(* behaviour is one of Counter or one of Handover.                         *)
(***************************************************************************)
EXTENDS Counter, Handover

VARIABLE exercise         \* "counter" or "handover"
exerciseVars == <<exercise, counterVars, handoverVars>>

ExerciseInit == CounterInit /\ HandoverInit /\ exercise \in {"counter", "handover"}

CounterStep  == exercise = "counter" /\ CounterNext /\ UNCHANGED <<exercise, handoverVars>>
HandoverStep == exercise = "handover" /\ HandoverNext /\ UNCHANGED <<exercise, counterVars>>

ExerciseNext == CounterStep \/ HandoverStep

ExerciseSpec ==
  /\ ExerciseInit /\ [][ExerciseNext]_exerciseVars
  /\ exercise = "counter"  => CounterFairness
  /\ exercise = "handover" => HandoverFairness

-----------------------------------------------------------------------------
\* Main reports in the end: in thread_03 and thread_04 it has joined every worker by
\* then (nobody keeps the mutex), unless it gave up because it could not create one; in
\* thread_05 and thread_06 it has seen the last word, once the king has created the
\* subordinate.  (When he cannot, nobody counts down, and main waits for ever:
\* thread_06.c:45 returns without a word.)
MainReports ==
  /\ exercise = "counter" ~> main_pc \in {"report", "error"}
  /\ exercise = "handover" /\ s_pc # "new" ~> m_pc = "report"
=============================================================================
