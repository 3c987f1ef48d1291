------------------------------ MODULE SemBuffer ------------------------------
(***************************************************************************)
(* lab5 assignment_1_2: consumer.c, producer.c, destroy.c and the shared   *)
(* buffer and named semaphore of message_buffer_semaphore.c.  One step is  *)
(* one system call or one access to the shared memory, since the processes *)
(* interleave there.  A message is the producer that sends it: each of the *)
(* fields sender_id, data and account_id holds a producer's id, or 0.      *)
(*                                                                         *)
(* Any of the processes may be killed, and the consumer run again; what is *)
(* shared outlives them.  Failures of shm_open, ftruncate and mmap for     *)
(* want of resources are left out.                                         *)
(***************************************************************************)
EXTENDS Integers, FiniteSets, Sequences

CONSTANTS Producers,      \* process ids, none of them 0
          MaxKills        \* bound on the processes killed from outside
ASSUME SemBufferAssumption == Producers \subseteq Nat \ {0} /\ MaxKills \in Nat

Consumer == 0
Procs    == Producers \union {Consumer}
NoSem    == -1            \* sem_value before there is a semaphore

Payload == {"sender_id", "data", "account_id"}
\* mutant: account_id is forgotten
MutFieldsNoAccount == <<"sender_id", "data", "is_empty">>

\* the order in which init_buffer and produce write
Fields  == <<"sender_id", "data", "account_id", "is_empty">>

VARIABLES shm_size,       \* the shared memory object: "none", "zero" or "full"
          shm_linked,     \* SHM_NAME names it
          mem,            \* its contents
          sem_value,
          sem_linked,     \* SEM_NAME names the semaphore
          sem_opened,     \* sem # SEM_FAILED, in each process
          pc, written,    \* place in the program; fields written so far
          result,         \* what produce or consume will return
          printed,        \* what the consumer's printf has loaded
          destroyer,
          orderly,        \* producers are started once a consumer has set up, a second
                          \* consumer and destroy once they have exited
          kills, restarted,
          lost,           \* a process was killed inside the critical section
          taken           \* whose messages consume has taken
vars == <<shm_size, shm_linked, mem, sem_value, sem_linked, sem_opened,
          pc, written, result, printed, destroyer, orderly, kills, restarted, lost, taken>>
shmVars == <<shm_size, shm_linked, mem>>
semVars == <<sem_value, sem_linked, sem_opened>>
faultVars == <<orderly, kills, restarted, lost>>

SettingUp == pc[Consumer] \in {"shm_open", "ftruncate", "clear", "init_sem", "aborted"}
Active(p) == pc[p] \notin {"attach", "exit", "killed"}
InCS(self) == pc[self] \in {"check", "write", "take", "s_quit"}

Goto(self, from, to) == pc[self] = from /\ pc' = [pc EXCEPT ![self] = to]

-----------------------------------------------------------------------------
(* init_buffer and init_sem, in the consumer.  A new object is full of      *)
(* zeros, which reads as "not empty"; an existing object or semaphore is    *)
(* opened as it is.                                                         *)

Init ==
  /\ shm_size = "none" /\ shm_linked = FALSE
  /\ mem = [f \in Payload \union {"is_empty"} |-> 0]
  /\ sem_value = NoSem /\ sem_linked = FALSE /\ sem_opened = [self \in Procs |-> FALSE]
  /\ pc = [self \in Procs |-> IF self = Consumer THEN "shm_open" ELSE "attach"]
  /\ written = [self \in Procs |-> 0]
  /\ result = [self \in Procs |-> -1]
  /\ printed = <<>>
  /\ destroyer = "shm_unlink"
  /\ orderly \in BOOLEAN /\ kills = 0 /\ restarted = FALSE /\ lost = FALSE /\ taken = {}

CreateShm ==
  /\ Goto(Consumer, "shm_open", "ftruncate")
  /\ shm_linked' = TRUE /\ shm_size' = IF shm_linked THEN shm_size ELSE "zero"
  /\ UNCHANGED <<mem, semVars, written, result, printed, destroyer, faultVars, taken>>

Truncate ==
  /\ Goto(Consumer, "ftruncate", "clear")
  /\ shm_size' = "full"
  /\ UNCHANGED <<shm_linked, mem, semVars, written, result, printed, destroyer, faultVars, taken>>

ClearField ==
  /\ pc[Consumer] = "clear"
  /\ LET f == Fields[written[Consumer] + 1]
     IN  mem' = [mem EXCEPT ![f] = IF f = "is_empty" THEN 1 ELSE 0]
  /\ written' = [written EXCEPT ![Consumer] = @ + 1]
  /\ pc' = [pc EXCEPT ![Consumer] = IF written'[Consumer] = Len(Fields) THEN "init_sem" ELSE @]
  /\ UNCHANGED <<shm_size, shm_linked, semVars, result, printed, destroyer, faultVars, taken>>

\* mutant: the semaphore is created with the value 2
MutInitSemTwo ==
  /\ Goto(Consumer, "init_sem", "s_wait")
  /\ sem_linked' = TRUE /\ sem_value' = IF sem_linked THEN sem_value ELSE 2
  /\ sem_opened' = [sem_opened EXCEPT ![Consumer] = TRUE]
  /\ UNCHANGED <<shmVars, written, result, printed, destroyer, faultVars, taken>>

\* mutant: an existing semaphore is set to 1 again
MutInitSemResets ==
  /\ Goto(Consumer, "init_sem", "s_wait")
  /\ sem_linked' = TRUE /\ sem_value' = 1
  /\ sem_opened' = [sem_opened EXCEPT ![Consumer] = TRUE]
  /\ UNCHANGED <<shmVars, written, result, printed, destroyer, faultVars, taken>>

InitSem ==
  /\ Goto(Consumer, "init_sem", "s_wait")
  /\ sem_linked' = TRUE /\ sem_value' = IF sem_linked THEN sem_value ELSE 1
  /\ sem_opened' = [sem_opened EXCEPT ![Consumer] = TRUE]
  /\ UNCHANGED <<shmVars, written, result, printed, destroyer, faultVars, taken>>

-----------------------------------------------------------------------------
(* s_wait and s_quit.  When the semaphore cannot be opened they report it   *)
(* and return like the others: the caller goes on.                          *)

OpenSem(self, from, opened, failed) ==
  /\ pc[self] = from /\ ~sem_opened[self]
  /\ sem_opened' = [sem_opened EXCEPT ![self] = sem_linked]
  /\ pc' = [pc EXCEPT ![self] = IF sem_linked THEN opened ELSE failed]
  /\ UNCHANGED <<sem_value, sem_linked>>

AfterQuit(self) == IF self # Consumer THEN "exit"
                   ELSE IF result[self] = 0 THEN "print" ELSE "s_wait"

\* mutant: sem_wait does not wait
MutSWaitPasses(self) ==
  /\ \/ OpenSem(self, "s_wait", "s_wait", "check")
     \/ /\ sem_opened[self]
        /\ Goto(self, "s_wait", "check")
        /\ sem_value' = sem_value - 1
        /\ UNCHANGED <<sem_linked, sem_opened>>
  /\ UNCHANGED <<shmVars, written, result, printed, destroyer, faultVars, taken>>

SWait(self) ==
  /\ \/ OpenSem(self, "s_wait", "s_wait", "check")
     \/ /\ sem_opened[self] /\ sem_value > 0
        /\ Goto(self, "s_wait", "check")
        /\ sem_value' = sem_value - 1
        /\ UNCHANGED <<sem_linked, sem_opened>>
  /\ UNCHANGED <<shmVars, written, result, printed, destroyer, faultVars, taken>>

SQuit(self) ==
  /\ \/ OpenSem(self, "s_quit", "s_quit", AfterQuit(self))
     \/ /\ sem_opened[self]
        /\ Goto(self, "s_quit", AfterQuit(self))
        /\ sem_value' = sem_value + 1
        /\ UNCHANGED <<sem_linked, sem_opened>>
  /\ UNCHANGED <<shmVars, written, result, printed, destroyer, faultVars, taken>>

-----------------------------------------------------------------------------
(* producer.c *)

Attach(self) ==
  /\ self # Consumer /\ (orderly => ~SettingUp)
  /\ Goto(self, "attach", IF shm_linked THEN "s_wait" ELSE "exit")
  /\ UNCHANGED <<shmVars, semVars, written, result, printed, destroyer, faultVars, taken>>

\* mutant: a full buffer is overwritten
MutCheckEmptyOverwrites(self) ==
  /\ self # Consumer
  /\ Goto(self, "check", IF shm_size = "zero" THEN "killed" ELSE "write")
  /\ UNCHANGED <<shmVars, semVars, written, result, printed, destroyer, faultVars, taken>>

\* mutant: produce returns from a full buffer without s_quit
MutCheckEmptyNoQuit(self) ==
  /\ self # Consumer
  /\ Goto(self, "check", IF shm_size = "zero" THEN "killed"
                         ELSE IF mem["is_empty"] = 0 THEN "exit" ELSE "write")
  /\ UNCHANGED <<shmVars, semVars, written, result, printed, destroyer, faultVars, taken>>

\* is_empty of an object that has no size yet cannot be read: SIGBUS
CheckEmpty(self) ==
  /\ self # Consumer
  /\ Goto(self, "check", IF shm_size = "zero" THEN "killed"
                         ELSE IF mem["is_empty"] = 0 THEN "s_quit" ELSE "write")
  /\ UNCHANGED <<shmVars, semVars, written, result, printed, destroyer, faultVars, taken>>

WriteField(self) ==
  /\ pc[self] = "write"
  /\ LET f == Fields[written[self] + 1]
     IN  mem' = [mem EXCEPT ![f] = IF f = "is_empty" THEN 0 ELSE self]
  /\ written' = [written EXCEPT ![self] = @ + 1]
  /\ IF written'[self] = Len(Fields)
     THEN Goto(self, "write", "s_quit") /\ result' = [result EXCEPT ![self] = 0]
     ELSE UNCHANGED <<pc, result>>
  /\ UNCHANGED <<shm_size, shm_linked, semVars, printed, destroyer, faultVars, taken>>

-----------------------------------------------------------------------------
(* consumer.c after setting up *)

CheckFull ==
  /\ Goto(Consumer, "check", IF mem["is_empty"] = 1 THEN "s_quit" ELSE "take")
  /\ result' = [result EXCEPT ![Consumer] = -1]
  /\ UNCHANGED <<shmVars, semVars, written, printed, destroyer, faultVars, taken>>

\* the message itself is not copied: *message points into the shared memory
TakeMessage ==
  /\ Goto(Consumer, "take", "s_quit")
  /\ mem' = [mem EXCEPT !["is_empty"] = 1]
  /\ result' = [result EXCEPT ![Consumer] = 0]
  /\ printed' = <<>>
  /\ taken' = taken \union {mem["sender_id"]}
  /\ UNCHANGED <<shm_size, shm_linked, semVars, written, destroyer, faultVars>>

\* printf's arguments, loaded in an order the compiler chooses
PrintField ==
  /\ pc[Consumer] = "print"
  /\ \E f \in Payload \ DOMAIN printed :
       printed' = [g \in DOMAIN printed \union {f} |-> IF g = f THEN mem[f] ELSE printed[g]]
  /\ pc' = [pc EXCEPT ![Consumer] = IF DOMAIN printed' = Payload THEN "s_wait" ELSE @]
  /\ UNCHANGED <<shmVars, semVars, written, result, destroyer, faultVars, taken>>

-----------------------------------------------------------------------------
(* destroy.c removes the names; what is mapped or opened stays in use.  It  *)
(* is not run before a second consumer has set up, nor that one after it:   *)
(* the model has one object and one semaphore.                              *)

Destroy ==
  /\ restarted => ~SettingUp
  /\ orderly => \A p \in Producers : pc[p] \in {"exit", "killed"}
  /\ \/ destroyer = "shm_unlink" /\ shm_linked' = FALSE /\ destroyer' = "sem_unlink"
        /\ UNCHANGED sem_linked
     \/ destroyer = "sem_unlink" /\ sem_linked' = FALSE /\ destroyer' = "exit"
        /\ UNCHANGED shm_linked
  /\ UNCHANGED <<shm_size, mem, sem_value, sem_opened, pc, written, result, printed, faultVars, taken>>

-----------------------------------------------------------------------------
(* Faults: a signal ends a process wherever it is, and the consumer is run  *)
(* again.                                                                   *)

Kill(self) ==
  /\ kills < MaxKills
  /\ pc[self] \notin {"attach", "shm_open", "aborted", "exit", "killed"}
  /\ pc' = [pc EXCEPT ![self] = IF self = Consumer /\ SettingUp THEN "aborted" ELSE "killed"]
  /\ kills' = kills + 1
  /\ lost' = (lost \/ (InCS(self) /\ sem_opened[self]))
  /\ UNCHANGED <<shmVars, semVars, written, result, printed, destroyer, orderly, restarted, taken>>

Restart ==
  /\ destroyer = "shm_unlink"
  /\ orderly => \A p \in Producers : ~Active(p)
  /\ pc[Consumer] \in {"killed", "aborted"} /\ pc' = [pc EXCEPT ![Consumer] = "shm_open"]
  /\ written' = [written EXCEPT ![Consumer] = 0]
  /\ result'  = [result EXCEPT ![Consumer] = -1]
  /\ sem_opened' = [sem_opened EXCEPT ![Consumer] = FALSE]
  /\ printed' = <<>> /\ restarted' = TRUE
  /\ UNCHANGED <<shmVars, sem_value, sem_linked, destroyer, orderly, kills, lost, taken>>

\* without its consumer, or with the semaphore lost, the system may come to a stop
Stopped == (pc[Consumer] \in {"killed", "aborted"} \/ lost) /\ UNCHANGED vars

Step(self) == \/ SWait(self) \/ SQuit(self)
              \/ Attach(self) \/ CheckEmpty(self) \/ WriteField(self)

ConsumerStep == \/ CreateShm \/ Truncate \/ ClearField \/ InitSem
                \/ SWait(Consumer) \/ SQuit(Consumer)
                \/ CheckFull \/ TakeMessage \/ PrintField

Next == \/ ConsumerStep \/ Destroy \/ Restart \/ Stopped
        \/ \E p \in Producers : Step(p)
        \/ \E self \in Procs : Kill(self)

\* Each process that can take a step keeps taking steps.  Nothing is assumed of the
\* order in which sem_wait lets processes in, nor that anybody runs destroy, kills a
\* process or runs the consumer again.
Spec == Init /\ [][Next]_vars /\ WF_vars(ConsumerStep)
             /\ \A p \in Producers : WF_vars(Step(p))

-----------------------------------------------------------------------------
TypeOK ==
  /\ shm_size \in {"none", "zero", "full"} /\ shm_linked \in BOOLEAN
  /\ mem \in [Payload \union {"is_empty"} -> Producers \union {0, 1}]
  /\ sem_value \in Nat \union {NoSem} /\ sem_linked \in BOOLEAN
  /\ sem_opened \in [Procs -> BOOLEAN]
  /\ pc \in [Procs -> {"shm_open", "ftruncate", "clear", "init_sem", "attach", "s_wait", "check",
                       "write", "take", "s_quit", "print", "exit", "killed", "aborted"}]
  /\ written \in [Procs -> 0..Len(Fields)]
  /\ result \in [Procs -> {-1, 0}]
  /\ destroyer \in {"shm_unlink", "sem_unlink", "exit"}
  /\ orderly \in BOOLEAN /\ kills \in 0..MaxKills /\ restarted \in BOOLEAN /\ lost \in BOOLEAN
  /\ taken \subseteq Producers \union {0, 1}

\* report.md:4: the semaphore lets only one process at a time read or write the
\* state of the buffer, also after some of them were killed and the consumer was run
\* again, provided they are started in the documented order.
MutualExclusion == orderly => \A a, b \in Procs : InCS(a) /\ InCS(b) => a = b

\* Outside the critical section the three fields of a message in the buffer are
\* those of one producer: no half-written message is ever handed over, not even one
\* whose producer was killed while it wrote.
BufferIsWhole ==
  orderly /\ (\A self \in Procs : ~InCS(self)) /\ ~SettingUp /\ mem["is_empty"] = 0
    => \E p \in Producers : /\ \A f \in Payload : mem[f] = p
                            /\ result[p] = 0

\* produce and consume implement a mailbox with room for one message: no message is
\* overwritten before it is taken, none taken twice, none lost but by a second
\* consumer that sets up.
Mailbox == INSTANCE Mailbox WITH
  slot      <- IF orderly /\ mem["is_empty"] = 0 THEN mem["sender_id"] ELSE 0,
  accepted  <- IF orderly THEN {p \in Producers : written[p] = Len(Fields)} ELSE {},
  delivered <- IF orderly THEN taken ELSE {}
MailSpec == Mailbox!MailSpec

\* A message in the buffer is eventually taken out, however early the producers were
\* started and however they interfere, unless somebody was killed: the consumer, or
\* a process inside the critical section.
Delivered == ~SettingUp /\ mem["is_empty"] = 0
               ~> mem["is_empty"] = 1 \/ pc[Consumer] = "killed" \/ lost

\* Producers started too early, or a destroy that comes too early, can cost mutual
\* exclusion (a process that finds no semaphore goes on without it) but never block
\* anyone for good: a semaphore at 0 is held by a process that is about to post it, or
\* was when that process was killed.
TokenNeverLost ==
  sem_value = 0 => lost \/ \E self \in Procs : InCS(self) /\ sem_opened[self]

\* A process killed inside the critical section locks out all that come later: the
\* semaphore stays at 0, also when the consumer is run again, whose init_sem opens it
\* as it is.  (So the buffer is never entered in the state the killed process left.)
LostForGood == orderly /\ lost => sem_value = 0 /\ \A self \in Procs : ~InCS(self)

\* message_buffer_semaphore.c:258 and report.md:14: the consumer reads the message
\* inside the critical section, so that what it prints is a message some producer sent.
PrintsWhatWasSent ==
  orderly /\ DOMAIN printed = Payload => \E p \in Producers : \A f \in Payload : printed[f] = p

=============================================================================
