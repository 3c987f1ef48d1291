------------------------------ MODULE Handover ------------------------------
(***************************************************************************)
(* lab4 thread_05.c and thread_06.c: main creates the king, the king       *)
(* creates and detaches the subordinate, and main waits until the          *)
(* subordinate has counted cnt_task down: by looking at it again and again *)
(* in thread_05.c, on a condition variable in thread_06.c.                 *)
(***************************************************************************)
EXTENDS Integers

CONSTANTS Words,          \* NUM_TASKS, and the literal 3 of subordinate's loop
          MaxSpurious     \* bound on the wake-ups of cond_wait without a signal
ASSUME HandoverAssumption == Words \in Nat \ {0} /\ MaxSpurious \in Nat

VARIABLES with_cond,      \* thread_06.c, not thread_05.c
          m_pc, k_pc, s_pc,
          words_left,     \* iterations of subordinate's loop to go
          spread,         \* words printed
          cnt_task,
          mutex,          \* who holds it: "main", "subordinate" or "nobody"
          signalled,      \* cond was signalled while main waited
          destroyed,      \* the mutex and the condition variable are
          spurious
handoverVars == <<with_cond, m_pc, k_pc, s_pc, words_left, spread, cnt_task, mutex,
                  signalled, destroyed, spurious>>
subordinateVars == <<s_pc, words_left, spread, cnt_task>>

HandoverInit ==
  /\ with_cond \in BOOLEAN
  /\ m_pc = "create" /\ k_pc = "new" /\ s_pc = "new"
  /\ words_left = Words /\ spread = 0 /\ cnt_task = Words
  /\ mutex = "nobody" /\ signalled = FALSE /\ destroyed = FALSE /\ spurious = 0

-----------------------------------------------------------------------------
(* king *)

KingCreates ==
  /\ k_pc = "create" /\ k_pc' = "exit"
  /\ s_pc' = "print"
  /\ UNCHANGED <<with_cond, m_pc, words_left, spread, cnt_task, mutex, signalled, destroyed, spurious>>

\* thread_06.c returns; thread_05.c detaches an uninitialised id, which may do nothing
\* or crash the process
KingCannotCreate ==
  /\ k_pc = "create"
  /\ \/ k_pc' = "failed" /\ UNCHANGED m_pc
     \/ ~with_cond /\ k_pc' = "failed" /\ m_pc' = "crashed"
  /\ UNCHANGED <<with_cond, subordinateVars, mutex, signalled, destroyed, spurious>>

-----------------------------------------------------------------------------
(* subordinate: spread_words *)

PrintWord ==
  /\ s_pc = "print" /\ s_pc' = IF with_cond THEN "lock" ELSE "count"
  /\ spread' = spread + 1
  /\ UNCHANGED <<with_cond, m_pc, k_pc, words_left, cnt_task, mutex, signalled, destroyed, spurious>>

AfterWord == IF words_left > 1 THEN "print" ELSE "exit"

\* cnt_task-- of an _Atomic int
CountAtomically ==
  /\ s_pc = "count" /\ s_pc' = AfterWord
  /\ cnt_task' = cnt_task - 1 /\ words_left' = words_left - 1
  /\ UNCHANGED <<with_cond, m_pc, k_pc, spread, mutex, signalled, destroyed, spurious>>

SubordinateLocks ==
  /\ s_pc = "lock" /\ mutex = "nobody"
  /\ s_pc' = "locked" /\ mutex' = "subordinate"
  /\ UNCHANGED <<with_cond, m_pc, k_pc, words_left, spread, cnt_task, signalled, destroyed, spurious>>

\* mutant: cnt_task is compared before it is decremented
MutCountLockedStale ==
  /\ s_pc = "locked"
  /\ cnt_task' = cnt_task - 1
  /\ s_pc' = IF cnt_task = 0 THEN "signal" ELSE "unlock"
  /\ UNCHANGED <<with_cond, m_pc, k_pc, words_left, spread, mutex, signalled, destroyed, spurious>>

CountLocked ==
  /\ s_pc = "locked"
  /\ cnt_task' = cnt_task - 1
  /\ s_pc' = IF cnt_task' = 0 THEN "signal" ELSE "unlock"
  /\ UNCHANGED <<with_cond, m_pc, k_pc, words_left, spread, mutex, signalled, destroyed, spurious>>

Signal ==
  /\ s_pc = "signal" /\ s_pc' = "unlock"
  /\ signalled' = (signalled \/ m_pc = "waiting")
  /\ UNCHANGED <<with_cond, m_pc, k_pc, words_left, spread, cnt_task, mutex, destroyed, spurious>>

SubordinateUnlocks ==
  /\ s_pc = "unlock" /\ s_pc' = AfterWord
  /\ mutex' = "nobody" /\ words_left' = words_left - 1
  /\ UNCHANGED <<with_cond, m_pc, k_pc, spread, cnt_task, signalled, destroyed, spurious>>

Subordinate == \/ PrintWord \/ CountAtomically \/ SubordinateLocks \/ CountLocked
               \/ Signal \/ SubordinateUnlocks

-----------------------------------------------------------------------------
(* main *)

MainOnly == UNCHANGED <<with_cond, k_pc, subordinateVars>>

MainCreates ==
  /\ m_pc = "create"
  /\ \/ m_pc' = "join" /\ k_pc' = "create"
     \/ m_pc' = "error" /\ UNCHANGED k_pc
  /\ UNCHANGED <<with_cond, subordinateVars, mutex, signalled, destroyed, spurious>>

MainJoins ==
  /\ m_pc = "join" /\ k_pc \in {"exit", "failed"}
  /\ m_pc' = IF with_cond THEN "lock" ELSE "look"
  /\ MainOnly /\ UNCHANGED <<mutex, signalled, destroyed, spurious>>

\* while (cnt_task > 0) usleep
Look ==
  /\ m_pc = "look" /\ cnt_task <= 0
  /\ m_pc' = "report"
  /\ MainOnly /\ UNCHANGED <<mutex, signalled, destroyed, spurious>>

MainLocks ==
  /\ m_pc = "lock" /\ mutex = "nobody"
  /\ m_pc' = "test" /\ mutex' = "main"
  /\ MainOnly /\ UNCHANGED <<signalled, destroyed, spurious>>

\* cond_wait releases the mutex and waits in one step
Test ==
  /\ m_pc = "test"
  /\ IF cnt_task > 0 THEN m_pc' = "waiting" /\ mutex' = "nobody"
                     ELSE m_pc' = "unlock" /\ UNCHANGED mutex
  /\ MainOnly /\ UNCHANGED <<signalled, destroyed, spurious>>

\* mutant: cnt_task is not tested again
MutWakeTrusts ==
  /\ m_pc = "waiting" /\ mutex = "nobody"
  /\ m_pc' = "unlock" /\ mutex' = "main" /\ signalled' = FALSE
  /\ \/ signalled /\ UNCHANGED spurious
     \/ ~signalled /\ spurious < MaxSpurious /\ spurious' = spurious + 1
  /\ MainOnly /\ UNCHANGED destroyed

\* woken by the signal, or by none, and the mutex acquired again
Wake ==
  /\ m_pc = "waiting" /\ mutex = "nobody"
  /\ m_pc' = "test" /\ mutex' = "main" /\ signalled' = FALSE
  /\ \/ signalled /\ UNCHANGED spurious
     \/ ~signalled /\ spurious < MaxSpurious /\ spurious' = spurious + 1
  /\ MainOnly /\ UNCHANGED destroyed

MainUnlocks ==
  /\ m_pc = "unlock" /\ m_pc' = "destroy" /\ mutex' = "nobody"
  /\ MainOnly /\ UNCHANGED <<signalled, destroyed, spurious>>

MainDestroys ==
  /\ m_pc = "destroy" /\ m_pc' = "report" /\ destroyed' = TRUE
  /\ MainOnly /\ UNCHANGED <<mutex, signalled, spurious>>

MainStep == \/ MainCreates \/ MainJoins \/ Look \/ MainLocks \/ Test
            \/ Wake \/ MainUnlocks \/ MainDestroys

HandoverNext == MainStep \/ KingCreates \/ KingCannotCreate \/ Subordinate

\* Threads that can take a step keep taking steps; a wake-up without a signal is not
\* one to count on.
HandoverFairness ==
  /\ WF_handoverVars(MainStep /\ (m_pc = "waiting" => signalled))
  /\ WF_handoverVars(KingCreates \/ KingCannotCreate)
  /\ WF_handoverVars(Subordinate)

-----------------------------------------------------------------------------
\* Main reports only after all words were spread, and the mutex and the condition
\* variable are destroyed only when nobody will use them again.
ReportsWhenDone ==
  /\ m_pc \in {"unlock", "destroy", "report"} => cnt_task = 0 /\ spread = Words
  /\ destroyed => s_pc = "exit"

\* No wake-up is lost: while main waits without a signal on its way, cnt_task is
\* not 0 yet, so that a signal is still to come if there is a subordinate to send it, or
\* the subordinate holds the mutex and is about to signal.
NoLostWakeup ==
  m_pc = "waiting" /\ ~signalled => cnt_task > 0 \/ s_pc = "signal"
=============================================================================
