------------------------------ MODULE RawBuffer ------------------------------
(***************************************************************************)
(* lab5 assignment_1_1: the shared buffer of message_buffer.c without a    *)
(* semaphore, and the programs consumer.c, producer.c and destroy.c around *)
(* it.  One step is one system call or one access to the shared memory, in *)
(* program order: the build does not optimise and the processor (x86-64)   *)
(* keeps the order of stores.  A message is the producer that sends it:    *)
(* each of its three fields holds a producer's id, or 0.                   *)
(*                                                                         *)
(* Failures of the system calls for want of resources are left out.        *)
(***************************************************************************)
EXTENDS Integers, FiniteSets, Sequences

CONSTANTS Producers,      \* process ids, none of them 0
          MaxKills        \* bound on the processes killed from outside
ASSUME RawBufferAssumption == Producers \subseteq Nat \ {0} /\ MaxKills \in Nat

Consumer == 0
Procs    == Producers \union {Consumer}

Payload == {"sender_id", "data", "account_id"}

\* mutant: the slot is marked full before the message is complete
MutFieldsFlagFirst == <<"sender_id", "data", "is_empty", "account_id">>

\* the order in which init_buffer and produce write
Fields  == <<"sender_id", "data", "account_id", "is_empty">>

VARIABLES shm_size,       \* the shared memory object: "none", "zero" or "full"
          shm_linked,     \* SHM_NAME names it
          mem,            \* its contents
          pc, written,    \* place in the program; fields written so far
          loaded,         \* the arguments printf has loaded
          one_at_a_time,  \* producers are started after the consumer has set up and the
                          \* last producer has ended, and a second consumer likewise
          kills, restarted,
          taken,          \* whose sender_id stood in the slots consume has emptied
          takes           \* how many they were
vars == <<shm_size, shm_linked, mem, pc, written, loaded, one_at_a_time, kills, restarted, taken, takes>>
shmVars   == <<shm_size, shm_linked, mem>>
faultVars == <<one_at_a_time, kills, restarted>>
historyVars == <<taken, takes>>

SettingUp == pc[Consumer] \in {"shm_open", "ftruncate", "clear", "aborted"}
Active(p) == pc[p] \notin {"attach", "exit", "killed"}

Goto(self, from, to) == pc[self] = from /\ pc' = [pc EXCEPT ![self] = to]

Init ==
  /\ shm_size = "none" /\ shm_linked = FALSE
  /\ mem = [f \in Payload \union {"is_empty"} |-> 0]
  /\ pc = [self \in Procs |-> IF self = Consumer THEN "shm_open" ELSE "attach"]
  /\ written = [self \in Procs |-> 0]
  /\ loaded = {}
  /\ one_at_a_time \in BOOLEAN /\ kills = 0 /\ restarted = FALSE
  /\ taken = {} /\ takes = 0

-----------------------------------------------------------------------------
(* consumer.c: init_buffer, then consume and printf for ever                *)

CreateShm ==
  /\ Goto(Consumer, "shm_open", "ftruncate")
  /\ shm_linked' = TRUE /\ shm_size' = IF shm_linked THEN shm_size ELSE "zero"
  /\ UNCHANGED <<mem, written, loaded, faultVars, historyVars>>

Truncate ==
  /\ Goto(Consumer, "ftruncate", "clear")
  /\ shm_size' = "full"
  /\ UNCHANGED <<shm_linked, mem, written, loaded, faultVars, historyVars>>

ClearField ==
  /\ pc[Consumer] = "clear"
  /\ LET f == Fields[written[Consumer] + 1]
     IN  mem' = [mem EXCEPT ![f] = IF f = "is_empty" THEN 1 ELSE 0]
  /\ written' = [written EXCEPT ![Consumer] = @ + 1]
  /\ pc' = [pc EXCEPT ![Consumer] = IF written'[Consumer] = Len(Fields) THEN "check" ELSE @]
  /\ UNCHANGED <<shm_size, shm_linked, loaded, faultVars, historyVars>>

\* mutant: the slot is not looked at
MutCheckFullAlways ==
  /\ Goto(Consumer, "check", "take")
  /\ UNCHANGED <<shmVars, written, loaded, faultVars, historyVars>>

CheckFull ==
  /\ mem["is_empty"] # 1
  /\ Goto(Consumer, "check", "take")
  /\ UNCHANGED <<shmVars, written, loaded, faultVars, historyVars>>

TakeMessage ==
  /\ Goto(Consumer, "take", "print")
  /\ mem' = [mem EXCEPT !["is_empty"] = 1]
  /\ taken' = taken \union {mem["sender_id"]} /\ takes' = takes + 1
  /\ loaded' = {}
  /\ UNCHANGED <<shm_size, shm_linked, written, faultVars>>

PrintField ==
  /\ pc[Consumer] = "print"
  /\ \E f \in Payload \ loaded : loaded' = loaded \union {f}
  /\ pc' = [pc EXCEPT ![Consumer] = IF loaded' = Payload THEN "check" ELSE @]
  /\ UNCHANGED <<shmVars, written, faultVars, historyVars>>

-----------------------------------------------------------------------------
(* producer.c *)

Attach(self) ==
  /\ one_at_a_time => ~SettingUp /\ \A p \in Producers : ~Active(p)
  /\ Goto(self, "attach", IF shm_linked THEN "check" ELSE "exit")
  /\ UNCHANGED <<shmVars, written, loaded, faultVars, historyVars>>

\* is_empty of an object that has no size yet cannot be read: SIGBUS
CheckEmpty(self) ==
  /\ Goto(self, "check", IF shm_size = "zero" THEN "killed"
                         ELSE IF mem["is_empty"] = 0 THEN "exit" ELSE "write")
  /\ UNCHANGED <<shmVars, written, loaded, faultVars, historyVars>>

WriteField(self) ==
  /\ pc[self] = "write"
  /\ LET f == Fields[written[self] + 1]
     IN  mem' = [mem EXCEPT ![f] = IF f = "is_empty" THEN 0 ELSE self]
  /\ written' = [written EXCEPT ![self] = @ + 1]
  /\ pc' = [pc EXCEPT ![self] = IF written'[self] = Len(Fields) THEN "exit" ELSE @]
  /\ UNCHANGED <<shm_size, shm_linked, loaded, faultVars, historyVars>>

-----------------------------------------------------------------------------
\* destroy.c: attach_buffer changes nothing that is shared, and its result is ignored.
\* It is not run before a second consumer has set up, nor that one after it.
Destroy ==
  /\ restarted => ~SettingUp
  /\ shm_linked /\ shm_linked' = FALSE
  /\ UNCHANGED <<shm_size, mem, pc, written, loaded, faultVars, historyVars>>

Kill(self) ==
  /\ kills < MaxKills
  /\ pc[self] \notin {"attach", "shm_open", "aborted", "exit", "killed"}
  /\ pc' = [pc EXCEPT ![self] = IF self = Consumer /\ SettingUp THEN "aborted" ELSE "killed"]
  /\ kills' = kills + 1
  /\ UNCHANGED <<shmVars, written, loaded, one_at_a_time, restarted, historyVars>>

Restart ==
  /\ shm_linked
  /\ one_at_a_time => \A p \in Producers : ~Active(p)
  /\ pc[Consumer] \in {"killed", "aborted"} /\ pc' = [pc EXCEPT ![Consumer] = "shm_open"]
  /\ written' = [written EXCEPT ![Consumer] = 0]
  /\ loaded' = {} /\ restarted' = TRUE
  /\ UNCHANGED <<shmVars, one_at_a_time, kills, historyVars>>

\* nobody is left to take what is in the slot, or nothing is left to take
Stopped ==
  /\ \A p \in Producers : ~Active(p)
  /\ pc[Consumer] \in {"killed", "aborted"} \/ mem["is_empty"] = 1
  /\ UNCHANGED vars

ConsumerStep == CreateShm \/ Truncate \/ ClearField \/ CheckFull \/ TakeMessage \/ PrintField

ProducerStep(self) == Attach(self) \/ CheckEmpty(self) \/ WriteField(self)

Next == \/ ConsumerStep \/ Destroy \/ Restart \/ Stopped
        \/ \E p \in Producers : ProducerStep(p)
        \/ \E self \in Procs : Kill(self)

Spec == Init /\ [][Next]_vars

-----------------------------------------------------------------------------
Completed == {p \in Producers : written[p] = Len(Fields)}

\* the producer whose message, whole, is in the slot
InSlot == IF mem["is_empty"] = 0 /\ \A f \in Payload : mem[f] = mem["sender_id"]
          THEN mem["sender_id"] ELSE 0

\* When one producer runs at a time the buffer needs no semaphore: produce and
\* consume, running concurrently, implement the mailbox, whoever is killed.  The flag
\* is set last, so what is taken is one producer's message, whole, and a producer
\* killed before that leaves nothing to take.
Mailbox == INSTANCE Mailbox WITH
  slot      <- IF one_at_a_time THEN InSlot ELSE 0,
  accepted  <- IF one_at_a_time THEN Completed ELSE {},
  delivered <- IF one_at_a_time THEN taken ELSE {}
MailSpec == Mailbox!MailSpec

\* However many producers interfere, consume returns 0 at most once for each produce
\* that returned 0: messages may be mixed or overwritten, not multiplied.
TakesArePaidFor ==
  takes + (IF mem["is_empty"] = 0 /\ ~SettingUp THEN 1 ELSE 0) <= Cardinality(Completed)

=============================================================================
