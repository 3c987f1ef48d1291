--------------------------- MODULE SemBufferProofs ---------------------------
(***************************************************************************)
(* The single-slot buffer for any number of producers, killed processes    *)
(* and restarts of the consumer: mutual exclusion and the mailbox it       *)
(* implements when the programs are run in order, and that in any order    *)
(* only a killed process leaves the semaphore locked, then for good.       *)
(***************************************************************************)
EXTENDS SemBuffer, TLAPS

Typed ==
  /\ shm_size \in {"none", "zero", "full"} /\ shm_linked \in BOOLEAN
  /\ mem \in [Payload \union {"is_empty"} -> Producers \union {0, 1}]
  /\ sem_value \in Nat \union {NoSem} /\ sem_linked \in BOOLEAN
  /\ sem_opened \in [Procs -> BOOLEAN]
  /\ pc \in [Procs -> {"shm_open", "ftruncate", "clear", "init_sem", "attach", "s_wait", "check",
                       "write", "take", "s_quit", "print", "exit", "killed", "aborted"}]
  /\ written \in [Procs -> 0..4] /\ result \in [Procs -> {-1, 0}]
  /\ orderly \in BOOLEAN /\ restarted \in BOOLEAN /\ lost \in BOOLEAN

\* where each kind of process can be, and how far it has written
Places ==
  /\ pc[Consumer] \in {"shm_open", "ftruncate", "clear", "init_sem", "s_wait", "check",
                       "take", "s_quit", "print", "killed", "aborted"}
  /\ pc[Consumer] \in {"shm_open", "ftruncate"} => written[Consumer] = 0
  /\ pc[Consumer] = "clear" => written[Consumer] < 4
  /\ \A p \in Producers :
        /\ pc[p] \in {"attach", "s_wait", "check", "write", "s_quit", "exit", "killed"}
        /\ pc[p] \in {"attach", "s_wait", "check"} => written[p] = 0
        /\ pc[p] = "write" => written[p] < 4
        /\ written[p] \in {0, 4} \/ pc[p] \in {"write", "killed"}

BaseInv == Typed /\ Places

\* the one object and the one semaphore, from one consumer to the next
ObjectInv ==
  /\ sem_value = NoSem => ~sem_linked /\ \A self \in Procs : ~sem_opened[self]
  /\ SettingUp /\ ~restarted => sem_value = NoSem
  /\ destroyer = "shm_unlink" => /\ sem_linked <=> sem_value # NoSem
                                 /\ shm_linked <=> shm_size # "none"
  /\ SettingUp /\ restarted => destroyer = "shm_unlink"
  /\ pc[Consumer] = "ftruncate" \/ shm_linked => shm_size # "none"
  /\ pc[Consumer] \in {"clear", "init_sem"} => shm_size = "full"
  /\ sem_value # NoSem => shm_size = "full"

LEMMA ProcsFacts == /\ Consumer \in Procs /\ Producers \subseteq Procs /\ Consumer \notin Producers
                    /\ \A self \in Procs : self = Consumer \/ self \in Producers
                    /\ \A p \in Producers : p \in Nat \ {0}
  BY SemBufferAssumption DEF Procs, Consumer

LEMMA FieldFacts == /\ Len(Fields) = 4 /\ Fields[1] = "sender_id" /\ Fields[2] = "data"
                    /\ Fields[3] = "account_id" /\ Fields[4] = "is_empty"
                    /\ \A k \in 1..4 : Fields[k] \in Payload \union {"is_empty"}
                    /\ \A k \in 1..4 : Fields[k] = "is_empty" <=> k = 4
                    /\ \A k \in 1..4 : Fields[k] = "sender_id" <=> k = 1
  BY DEF Fields, Payload

LEMMA InitBase == Init => BaseInv
<1> SUFFICES ASSUME Init  PROVE BaseInv
  OBVIOUS
<1>1. Typed
  <2>1. pc \in [Procs -> {"shm_open", "ftruncate", "clear", "init_sem", "attach", "s_wait", "check",
                          "write", "take", "s_quit", "print", "exit", "killed", "aborted"}]
    BY DEF Init
  <2>2. /\ mem \in [Payload \union {"is_empty"} -> Producers \union {0, 1}]
        /\ sem_value \in Nat \union {NoSem} /\ sem_linked \in BOOLEAN
        /\ sem_opened \in [Procs -> BOOLEAN]
    BY DEF Init
  <2>3. written \in [Procs -> 0..4] /\ result \in [Procs -> {-1, 0}]
    BY DEF Init
  <2> QED  BY <2>1, <2>2, <2>3 DEF Typed, Init
<1>2. Places
  BY ProcsFacts DEF Init, Places
<1> QED  BY <1>1, <1>2 DEF BaseInv

LEMMA NextKeepsBase == BaseInv /\ [Next]_vars => BaseInv'
<1> SUFFICES ASSUME BaseInv, [Next]_vars  PROVE BaseInv'
  OBVIOUS
<1> USE ProcsFacts, FieldFacts DEF BaseInv, Typed, Places
<1>1. CASE CreateShm \/ Truncate
  <2>1. CASE CreateShm
    BY <2>1 DEF CreateShm, Goto, semVars, faultVars
  <2>2. CASE Truncate
    BY <2>2 DEF Truncate, Goto, semVars, faultVars
  <2> QED  BY <1>1, <2>1, <2>2
<1>2. CASE ClearField
  BY <1>2 DEF ClearField, semVars, faultVars
<1>3. CASE InitSem
  BY <1>3 DEF InitSem, Goto, shmVars, faultVars
<1>4. CASE CheckFull \/ PrintField
  BY <1>4 DEF CheckFull, PrintField, Goto, shmVars, semVars, faultVars
<1>5. CASE TakeMessage
  BY <1>5 DEF TakeMessage, Goto, semVars, faultVars, Payload
<1>6. ASSUME NEW self \in Procs, SWait(self)  PROVE BaseInv'
  <2>1. /\ pc[self] = "s_wait" /\ pc' \in {[pc EXCEPT ![self] = "s_wait"], [pc EXCEPT ![self] = "check"]}
        /\ UNCHANGED <<shmVars, written, result, faultVars>>
    BY <1>6 DEF SWait, OpenSem, Goto
  <2>2. sem_value' \in Nat \union {NoSem} /\ sem_linked' \in BOOLEAN /\ sem_opened' \in [Procs -> BOOLEAN]
    BY <1>6 DEF SWait, OpenSem, Goto, NoSem
  <2>3. CASE self = Consumer
    BY <2>1, <2>2, <2>3 DEF shmVars, faultVars
  <2>4. CASE self \in Producers
    BY <2>1, <2>2, <2>4 DEF shmVars, faultVars
  <2> QED  BY <2>3, <2>4
<1>7. ASSUME NEW self \in Procs, SQuit(self)  PROVE BaseInv'
  <2>1. /\ pc[self] = "s_quit" /\ pc' \in {[pc EXCEPT ![self] = "s_quit"], [pc EXCEPT ![self] = AfterQuit(self)]}
        /\ UNCHANGED <<shmVars, written, result, faultVars>>
    BY <1>7 DEF SQuit, OpenSem, Goto
  <2>2. sem_value' \in Nat \union {NoSem} /\ sem_linked' \in BOOLEAN /\ sem_opened' \in [Procs -> BOOLEAN]
    BY <1>7 DEF SQuit, OpenSem, Goto, NoSem
  <2>3. CASE self = Consumer
    <3>1. AfterQuit(self) \in {"print", "s_wait"}
      BY <2>3 DEF AfterQuit
    <3> QED  BY <2>1, <2>2, <2>3, <3>1 DEF shmVars, faultVars
  <2>4. CASE self \in Producers
    <3>1. AfterQuit(self) = "exit"
      BY <2>4 DEF AfterQuit
    <3> QED  BY <2>1, <2>2, <2>4, <3>1 DEF shmVars, faultVars
  <2> QED  BY <2>3, <2>4
<1>8. ASSUME NEW self \in Producers, Attach(self) \/ CheckEmpty(self)  PROVE BaseInv'
  BY <1>8 DEF Attach, CheckEmpty, Goto, shmVars, semVars, faultVars
<1>9. ASSUME NEW self \in Producers, WriteField(self)  PROVE BaseInv'
  BY <1>9 DEF WriteField, Goto, semVars, faultVars
<1>10. CASE Destroy \/ Stopped \/ UNCHANGED vars
  <2>1. CASE Destroy
    <3>1. /\ UNCHANGED <<shm_size, mem, sem_value, sem_opened, pc, written, result, faultVars>>
          /\ shm_linked' \in BOOLEAN /\ sem_linked' \in BOOLEAN
      BY <2>1 DEF Destroy
    <3> QED  BY <3>1 DEF faultVars
  <2>2. CASE UNCHANGED vars
    BY <2>2 DEF vars
  <2> QED  BY <1>10, <2>1, <2>2 DEF Stopped
<1>11. ASSUME NEW self \in Procs, Kill(self)  PROVE BaseInv'
  <2>1. /\ pc' \in {[pc EXCEPT ![self] = "killed"], [pc EXCEPT ![self] = "aborted"]}
        /\ self \in Producers => pc' = [pc EXCEPT ![self] = "killed"]
        /\ UNCHANGED <<shmVars, semVars, written, result, orderly, restarted>> /\ lost' \in BOOLEAN
    BY <1>11 DEF Kill
  <2> QED  BY <2>1 DEF shmVars, semVars
<1>12. CASE Restart
  BY <1>12 DEF Restart, shmVars
<1> QED  BY <1>1, <1>2, <1>3, <1>4, <1>5, <1>6, <1>7, <1>8, <1>9, <1>10, <1>11, <1>12 DEF Next, ConsumerStep, Step

LEMMA InitObject == Init => ObjectInv
  BY ProcsFacts DEF Init, ObjectInv, SettingUp, NoSem

LEMMA NextKeepsObject == BaseInv /\ ObjectInv /\ [Next]_vars => ObjectInv'
<1> SUFFICES ASSUME BaseInv, ObjectInv, [Next]_vars  PROVE ObjectInv'
  OBVIOUS
<1> USE ProcsFacts, FieldFacts DEF BaseInv, Typed, ObjectInv
<1>1. CASE CreateShm
  BY <1>1 DEF CreateShm, Goto, semVars, faultVars, SettingUp
<1>2. CASE Truncate
  BY <1>2 DEF Truncate, Goto, semVars, faultVars, SettingUp
<1>3. CASE ClearField
  BY <1>3 DEF ClearField, semVars, faultVars, SettingUp
<1>4. CASE InitSem
  BY <1>4 DEF InitSem, Goto, shmVars, faultVars, SettingUp, NoSem
<1>5. ASSUME UNCHANGED <<shm_size, shm_linked, semVars, destroyer, restarted>>, SettingUp' <=> SettingUp,
             \A to \in {"ftruncate", "clear", "init_sem"} : pc'[Consumer] = to => pc[Consumer] = to
      PROVE  ObjectInv'
  BY <1>5 DEF semVars
<1>6. CASE CheckFull \/ TakeMessage \/ PrintField
  BY <1>6, <1>5 DEF CheckFull, TakeMessage, PrintField, Goto, shmVars, SettingUp, faultVars
<1>7. ASSUME NEW s \in Procs, SWait(s) \/ SQuit(s)  PROVE ObjectInv'
  <2>1. /\ UNCHANGED <<shmVars, sem_linked, destroyer, restarted>>
        /\ sem_opened' \in {sem_opened, [sem_opened EXCEPT ![s] = sem_linked]}
        /\ sem_value' = sem_value \/ (sem_opened[s] /\ sem_value' \in Nat)
    BY <1>7 DEF SWait, SQuit, OpenSem, faultVars, NoSem
  <2>2. /\ pc[s] \in {"s_wait", "s_quit"}
        /\ pc' \in {[pc EXCEPT ![s] = to] : to \in {"s_wait", "check", "s_quit", AfterQuit(s)}}
    BY <1>7 DEF SWait, SQuit, OpenSem, Goto
  <2>3. AfterQuit(s) \in {"exit", "print", "s_wait"}
    BY DEF AfterQuit
  <2>4. \A to \in {"ftruncate", "clear", "init_sem"} : pc'[Consumer] = to => pc[Consumer] = to
    BY <2>2, <2>3
  <2>5. SettingUp' <=> SettingUp
    BY <2>2, <2>3 DEF SettingUp
  <2>6. sem_value' = NoSem <=> sem_value = NoSem
    BY <2>1 DEF NoSem
  <2> QED  BY <2>1, <2>4, <2>5, <2>6 DEF shmVars
<1>8. ASSUME NEW p \in Producers, Attach(p) \/ CheckEmpty(p) \/ WriteField(p)  PROVE ObjectInv'
  BY <1>8, <1>5 DEF Attach, CheckEmpty, WriteField, Goto, shmVars, SettingUp, faultVars
<1>9. CASE Destroy
  BY <1>9 DEF Destroy, SettingUp, faultVars
<1>10. ASSUME NEW self \in Procs, Kill(self)  PROVE ObjectInv'
  <2>1. SettingUp' <=> SettingUp
    BY <1>10 DEF Kill, SettingUp
  <2>2. \A to \in {"ftruncate", "clear", "init_sem"} : pc'[Consumer] = to => pc[Consumer] = to
    BY <1>10 DEF Kill
  <2> QED  BY <1>10, <2>1, <2>2, <1>5 DEF Kill, shmVars
<1>11. CASE Restart
  <2>1. \A self \in Procs : sem_opened'[self] => sem_opened[self]
    BY <1>11 DEF Restart
  <2>2. /\ UNCHANGED <<shmVars, sem_value, sem_linked, destroyer>> /\ destroyer = "shm_unlink"
        /\ restarted' = TRUE /\ pc'[Consumer] = "shm_open"
    BY <1>11 DEF Restart
  <2> QED  BY <2>1, <2>2 DEF shmVars
<1>12. CASE Stopped \/ UNCHANGED vars
  BY <1>12, <1>5 DEF Stopped, vars, semVars, SettingUp
<1> QED  BY <1>1, <1>2, <1>3, <1>4, <1>6, <1>7, <1>8, <1>9, <1>10, <1>11, <1>12 DEF Next, ConsumerStep, Step

-----------------------------------------------------------------------------
(* In any order of starting, killing and destroying.                        *)

LEMMA NextKeepsLocked == BaseInv /\ ObjectInv /\ TokenNeverLost /\ [Next]_vars => TokenNeverLost'
<1> SUFFICES ASSUME BaseInv, ObjectInv, TokenNeverLost, [Next]_vars, sem_value' = 0, ~lost'
             PROVE  \E self \in Procs : InCS(self)' /\ sem_opened'[self]
  BY DEF TokenNeverLost
<1> USE ProcsFacts DEF BaseInv, Typed
<1>1. ASSUME UNCHANGED <<sem_value, lost>>,
             \A h \in Procs : InCS(h) /\ sem_opened[h] => InCS(h)' /\ sem_opened'[h]
      PROVE  \E self \in Procs : InCS(self)' /\ sem_opened'[self]
  BY <1>1 DEF TokenNeverLost
<1>2. CASE CreateShm \/ Truncate \/ ClearField
  <2>1. UNCHANGED <<semVars, lost>>
    BY <1>2 DEF CreateShm, Truncate, ClearField, faultVars
  <2>2. \A h \in Procs : InCS(h) => InCS(h)'
    BY <1>2 DEF CreateShm, Truncate, ClearField, Goto, InCS
  <2> QED  BY <2>1, <2>2, <1>1 DEF semVars
<1>3. CASE InitSem
  <2>1. sem_value = 0 /\ UNCHANGED lost
    BY <1>3 DEF InitSem, faultVars
  <2>2. \A h \in Procs : InCS(h) /\ sem_opened[h] => InCS(h)' /\ sem_opened'[h]
    BY <1>3 DEF InitSem, Goto, InCS
  <2> QED  BY <2>1, <2>2, <1>1
<1>4. CASE CheckFull \/ TakeMessage \/ PrintField
  <2>1. UNCHANGED <<semVars, lost>>
    BY <1>4 DEF CheckFull, TakeMessage, PrintField, faultVars
  <2>2. \A h \in Procs : InCS(h) => InCS(h)'
    BY <1>4 DEF CheckFull, TakeMessage, PrintField, Goto, InCS
  <2> QED  BY <2>1, <2>2, <1>1 DEF semVars
<1>5. ASSUME NEW p \in Producers, Attach(p) \/ CheckEmpty(p) \/ WriteField(p)
      PROVE  \E self \in Procs : InCS(self)' /\ sem_opened'[self]
  <2>1. UNCHANGED <<semVars, lost>>
    BY <1>5 DEF Attach, CheckEmpty, WriteField, faultVars
  <2>2. shm_size = "full"
    BY <2>1 DEF ObjectInv, NoSem, semVars
  <2>3. \A h \in Procs : InCS(h) => InCS(h)'
    BY <1>5, <2>2 DEF Attach, CheckEmpty, WriteField, Goto, InCS
  <2> QED  BY <2>1, <2>3, <1>1 DEF semVars
<1>6. ASSUME NEW s \in Procs, SWait(s)
      PROVE  \E self \in Procs : InCS(self)' /\ sem_opened'[self]
  <2>1. CASE sem_opened[s] /\ sem_value > 0
    BY <1>6, <2>1 DEF SWait, OpenSem, Goto, InCS
  <2>2. CASE OpenSem(s, "s_wait", "s_wait", "check")
    BY <1>6, <2>2, <1>1 DEF SWait, OpenSem, InCS, faultVars
  <2> QED  BY <1>6, <2>1, <2>2 DEF SWait
<1>7. ASSUME NEW s \in Procs, SQuit(s)
      PROVE  \E self \in Procs : InCS(self)' /\ sem_opened'[self]
  <2>1. CASE OpenSem(s, "s_quit", "s_quit", AfterQuit(s))
    BY <1>7, <2>1, <1>1 DEF SQuit, OpenSem, InCS, faultVars
  <2>2. CASE sem_opened[s] /\ sem_value' = sem_value + 1
    BY <2>2 DEF ObjectInv, NoSem
  <2> QED  BY <1>7, <2>1, <2>2 DEF SQuit
<1>8. CASE Destroy \/ Stopped \/ UNCHANGED vars
  BY <1>8, <1>1 DEF Destroy, Stopped, vars, InCS, faultVars
<1>9. ASSUME NEW k \in Procs, Kill(k)
      PROVE  \E self \in Procs : InCS(self)' /\ sem_opened'[self]
  <2>1. ~(InCS(k) /\ sem_opened[k]) /\ UNCHANGED <<semVars, lost>>
        /\ \A h \in Procs : h # k => pc'[h] = pc[h]
    BY <1>9 DEF Kill
  <2> QED  BY <2>1, <1>1 DEF InCS, semVars
<1>10. CASE Restart
  BY <1>10, <1>1 DEF Restart, InCS
<1> QED  BY <1>2, <1>3, <1>4, <1>5, <1>6, <1>7, <1>8, <1>9, <1>10 DEF Next, ConsumerStep, Step

\* However early the producers start, and whenever destroy runs: a semaphore at 0 is
\* held by a process that will post it, unless a process was killed while it held it.
THEOREM NeverLeftLocked == Spec => []TokenNeverLost
<1>1. Init => TokenNeverLost
  BY ProcsFacts DEF Init, TokenNeverLost, NoSem
<1> QED  BY <1>1, InitBase, NextKeepsBase, InitObject, NextKeepsObject, NextKeepsLocked, PTL DEF Spec

-----------------------------------------------------------------------------
(* When producers are started after the consumer has set up, and destroy or *)
(* a second consumer after they have ended, every process finds the         *)
(* semaphore.                                                               *)

InOrder ==
  /\ SettingUp => \A p \in Producers : ~Active(p)
  /\ ~SettingUp => sem_value # NoSem
  /\ sem_value \in {NoSem, 0, 1}
  /\ ~SettingUp /\ pc[Consumer] # "killed" => sem_opened[Consumer]
  /\ ~SettingUp /\ (\E p \in Producers : pc[p] \notin {"exit", "killed"}) => sem_linked
  /\ \A self \in Procs : InCS(self) => sem_opened[self] /\ sem_value = 0 /\ ~lost
  /\ lost => sem_value = 0
  /\ \A a, b \in Procs : InCS(a) /\ InCS(b) => a = b

OrderInv == orderly => InOrder

LEMMA InitOrder == Init => OrderInv
  BY ProcsFacts DEF Init, OrderInv, InOrder, Active, SettingUp, InCS, NoSem

LEMMA NextKeepsOrder == BaseInv /\ ObjectInv /\ OrderInv /\ [Next]_vars => OrderInv'
<1> SUFFICES ASSUME BaseInv, ObjectInv, InOrder, orderly, [Next]_vars  PROVE InOrder'
  <2>1. [Next]_vars => UNCHANGED orderly
    BY DEF Next, ConsumerStep, Step, CreateShm, Truncate, ClearField, InitSem, SWait, SQuit, Attach,
           CheckEmpty, WriteField, CheckFull, TakeMessage, PrintField, Destroy, Stopped, Kill, Restart,
           faultVars, vars
  <2> QED  BY <2>1 DEF OrderInv
<1> USE ProcsFacts DEF BaseInv, Typed, InOrder
<1>1. ASSUME UNCHANGED <<semVars, lost>>, SettingUp' <=> SettingUp,
             SettingUp' => \A p \in Producers : ~Active(p)',
             pc[Consumer] = "killed" => pc'[Consumer] = "killed",
             \A p \in Producers : pc[p] \in {"exit", "killed"} => pc'[p] \in {"exit", "killed"},
             \A self \in Procs : InCS(self)' => InCS(self)
      PROVE  InOrder'
  BY <1>1 DEF semVars
<1>2. CASE CreateShm \/ Truncate \/ ClearField \/ CheckFull \/ TakeMessage \/ PrintField
  <2>1. UNCHANGED <<semVars, lost>> /\ pc[Consumer] # "killed"
    BY <1>2 DEF CreateShm, Truncate, ClearField, CheckFull, TakeMessage, PrintField, Goto, faultVars
  <2>2. SettingUp' <=> SettingUp
    BY <1>2 DEF CreateShm, Truncate, ClearField, CheckFull, TakeMessage, PrintField, Goto, SettingUp
  <2>3. \A p \in Producers : pc'[p] = pc[p]
    BY <1>2 DEF CreateShm, Truncate, ClearField, CheckFull, TakeMessage, PrintField, Goto
  <2>4. InCS(Consumer)' => InCS(Consumer)
    BY <1>2 DEF CreateShm, Truncate, ClearField, CheckFull, TakeMessage, PrintField, Goto, InCS
  <2> QED  BY <1>1, <2>1, <2>2, <2>3, <2>4 DEF InCS, Active
<1>3. CASE InitSem
  <2>1. /\ pc[Consumer] = "init_sem" /\ pc' = [pc EXCEPT ![Consumer] = "s_wait"]
        /\ sem_linked' = TRUE /\ sem_value' = IF sem_linked THEN sem_value ELSE 1
        /\ sem_opened' = [sem_opened EXCEPT ![Consumer] = TRUE] /\ UNCHANGED lost
    BY <1>3 DEF InitSem, Goto, faultVars
  <2>2. SettingUp /\ ~SettingUp'
    BY <2>1 DEF SettingUp
  <2>3. \A self \in Procs : ~InCS(self)'
    BY <2>1, <2>2 DEF Active, InCS, Places
  <2>4. sem_linked \/ sem_value = NoSem
    BY <2>2 DEF ObjectInv
  <2>5. sem_linked => sem_value # NoSem
    BY DEF ObjectInv
  <2>6. CASE sem_linked
    BY <2>1, <2>2, <2>3, <2>5, <2>6 DEF NoSem
  <2>7. CASE ~sem_linked
    <3>1. sem_value' = 1 /\ ~lost
      BY <2>1, <2>4, <2>7 DEF NoSem
    <3> QED  BY <2>1, <2>2, <2>3, <3>1 DEF NoSem
  <2> QED  BY <2>6, <2>7
<1>4. ASSUME NEW p \in Producers, Attach(p) \/ CheckEmpty(p) \/ WriteField(p)
      PROVE  InOrder'
  <2>1. UNCHANGED <<semVars, lost>>
    BY <1>4 DEF Attach, CheckEmpty, WriteField, faultVars
  <2>2. ~SettingUp
    BY <1>4 DEF Attach, CheckEmpty, WriteField, Goto, Active
  <2>3. \A q \in Producers : pc[q] \in {"exit", "killed"} => pc'[q] \in {"exit", "killed"}
    BY <1>4 DEF Attach, CheckEmpty, WriteField, Goto
  <2>4. \A self \in Procs : InCS(self)' => InCS(self)
    BY <1>4 DEF Attach, CheckEmpty, WriteField, Goto, InCS
  <2>5. pc'[Consumer] = pc[Consumer]
    BY <1>4 DEF Attach, CheckEmpty, WriteField, Goto
  <2>6. SettingUp' <=> SettingUp
    BY <2>5 DEF SettingUp
  <2> QED  BY <1>1, <2>1, <2>2, <2>3, <2>4, <2>5, <2>6
<1>5. ASSUME NEW s \in Procs, SWait(s)  PROVE InOrder'
  <2>1. ~SettingUp /\ pc[s] = "s_wait" /\ UNCHANGED lost
    BY <1>5 DEF SWait, OpenSem, Goto, SettingUp, Active, faultVars
  <2>2. CASE OpenSem(s, "s_wait", "s_wait", "check")
    <3>1. s \in Producers /\ sem_linked
      BY <2>1, <2>2 DEF OpenSem
    <3>2. /\ pc' = pc /\ sem_opened' = [sem_opened EXCEPT ![s] = TRUE] /\ UNCHANGED <<sem_value, sem_linked>>
      BY <2>1, <2>2, <3>1 DEF OpenSem
    <3> QED  BY <2>1, <3>2 DEF SettingUp, InCS
  <2>3. CASE sem_opened[s] /\ sem_value > 0 /\ Goto(s, "s_wait", "check")
             /\ sem_value' = sem_value - 1 /\ UNCHANGED <<sem_linked, sem_opened>>
    <3>1. sem_value = 1 /\ sem_value' = 0 /\ pc' = [pc EXCEPT ![s] = "check"] /\ ~lost
      BY <2>1, <2>3 DEF Goto, NoSem
    <3>2. \A self \in Procs : InCS(self)' => self = s
      BY <2>1, <3>1 DEF InCS
    <3>3. ~SettingUp'
      BY <2>1, <3>1 DEF SettingUp
    <3> QED  BY <2>1, <2>3, <3>1, <3>2, <3>3 DEF NoSem
  <2> QED  BY <1>5, <2>2, <2>3 DEF SWait
<1>6. ASSUME NEW s \in Procs, SQuit(s)  PROVE InOrder'
  <2>1. ~SettingUp /\ InCS(s) /\ sem_opened[s] /\ sem_value = 0 /\ ~lost /\ UNCHANGED lost
    BY <1>6 DEF SQuit, OpenSem, Goto, SettingUp, InCS, Active, faultVars
  <2>2. /\ pc' = [pc EXCEPT ![s] = AfterQuit(s)] /\ sem_value' = 1 /\ UNCHANGED <<sem_linked, sem_opened>>
    BY <1>6, <2>1 DEF SQuit, OpenSem, Goto
  <2>3. AfterQuit(s) \in {"exit", "print", "s_wait"}
    BY DEF AfterQuit
  <2>4. \A self \in Procs : ~InCS(self)'
    BY <2>1, <2>2, <2>3 DEF InCS
  <2>5. ~SettingUp' /\ (pc'[Consumer] # "killed" => pc[Consumer] # "killed")
    BY <2>1, <2>2, <2>3 DEF SettingUp, InCS
  <2>6. \A p \in Producers : pc[p] \in {"exit", "killed"} => pc'[p] \in {"exit", "killed"}
    BY <2>1, <2>2 DEF InCS
  <2> QED  BY <2>1, <2>2, <2>4, <2>5, <2>6 DEF NoSem
<1>7. CASE Destroy
  <2>1. \A p \in Producers : pc[p] \in {"exit", "killed"}
    BY <1>7 DEF Destroy
  <2> QED  BY <1>7, <2>1 DEF Destroy, SettingUp, InCS, Active, faultVars
<1>8. CASE Stopped \/ UNCHANGED vars
  BY <1>8, <1>1 DEF Stopped, vars, semVars, SettingUp, InCS, Active
<1>9. ASSUME NEW k \in Procs, Kill(k)  PROVE InOrder'
  <2>1. UNCHANGED semVars /\ (SettingUp' <=> SettingUp)
    BY <1>9 DEF Kill, SettingUp
  <2>2. /\ \A self \in Procs : self # k => pc'[self] = pc[self]
        /\ pc'[k] \in {"killed", "aborted"}
        /\ k \in Producers => pc'[k] = "killed"
        /\ lost' = (lost \/ (InCS(k) /\ sem_opened[k]))
        /\ pc[k] # "killed"
    BY <1>9 DEF Kill
  <2>3. \A self \in Procs : InCS(self)' => InCS(self) /\ self # k
    BY <2>2 DEF InCS
  <2>4. \A p \in Producers : ~Active(p) => ~Active(p)'
    BY <2>2 DEF Active
  <2> QED  BY <2>1, <2>2, <2>3, <2>4 DEF semVars
<1>10. CASE Restart
  <2>1. /\ pc' = [pc EXCEPT ![Consumer] = "shm_open"] /\ UNCHANGED <<sem_value, sem_linked, lost>>
        /\ \A p \in Producers : ~Active(p)
    BY <1>10 DEF Restart
  <2>2. SettingUp' /\ \A p \in Producers : ~Active(p)'
    BY <2>1 DEF SettingUp, Active
  <2>3. \A self \in Procs : ~InCS(self)'
    BY <2>1 DEF InCS, Active
  <2> QED  BY <2>1, <2>2, <2>3
<1> QED  BY <1>2, <1>3, <1>4, <1>5, <1>6, <1>7, <1>8, <1>9, <1>10 DEF Next, ConsumerStep, Step

\* report.md:4, for any number of producers, kills and restarts: only one process at
\* a time is between s_wait and s_quit.
THEOREM Exclusion == Spec => []MutualExclusion
<1>1. OrderInv => MutualExclusion
  BY DEF OrderInv, InOrder, MutualExclusion
<1> QED  BY <1>1, InitBase, NextKeepsBase, InitObject, NextKeepsObject, InitOrder, NextKeepsOrder, PTL DEF Spec

\* A process killed inside the critical section locks out every later one, the
\* consumer that is run again included.
THEOREM KilledHolderLocksOut == Spec => []LostForGood
<1>1. OrderInv => LostForGood
  BY DEF OrderInv, InOrder, LostForGood
<1> QED  BY <1>1, InitBase, NextKeepsBase, InitObject, NextKeepsObject, InitOrder, NextKeepsOrder, PTL DEF Spec

-----------------------------------------------------------------------------
(* The contents of the buffer.                                              *)

Whole ==
  /\ mem["is_empty"] \in {0, 1}
  /\ SettingUp /\ ~restarted => mem["sender_id"] = 0
  /\ pc[Consumer] = "clear" /\ written[Consumer] >= 1 => mem["sender_id"] = 0
  /\ pc[Consumer] = "init_sem" => mem["is_empty"] = 1
  /\ ~SettingUp /\ mem["is_empty"] = 0 =>
       \E p \in Producers : (\A f \in Payload : mem[f] = p) /\ result[p] = 0
  /\ \A p \in Producers : pc[p] = "write" =>
       /\ mem["is_empty"] = 1
       /\ written[p] >= 1 => mem["sender_id"] = p
       /\ written[p] >= 2 => mem["data"] = p
       /\ written[p] >= 3 => mem["account_id"] = p
  /\ pc[Consumer] = "take" => mem["is_empty"] = 0

WholeInv == orderly => Whole

AllInv == BaseInv /\ ObjectInv /\ OrderInv /\ WholeInv

LEMMA InitWhole == Init => WholeInv
  BY ProcsFacts DEF Init, WholeInv, Whole, SettingUp, Payload

LEMMA NextKeepsWhole == AllInv /\ OrderInv' /\ [Next]_vars => WholeInv'
<1> SUFFICES ASSUME BaseInv, InOrder, InOrder', Whole, orderly, [Next]_vars  PROVE Whole'
  <2>1. [Next]_vars => UNCHANGED orderly
    BY DEF Next, ConsumerStep, Step, CreateShm, Truncate, ClearField, InitSem, SWait, SQuit, Attach,
           CheckEmpty, WriteField, CheckFull, TakeMessage, PrintField, Destroy, Stopped, Kill, Restart,
           faultVars, vars
  <2> QED  BY <2>1 DEF AllInv, OrderInv, WholeInv
<1> USE ProcsFacts, FieldFacts DEF BaseInv, Typed, Whole
<1>1. ASSUME UNCHANGED <<mem, written>>, SettingUp' <=> SettingUp, restarted => restarted',
             \A p \in Producers : result'[p] = result[p],
             \A p \in Producers : pc'[p] = "write" => pc[p] = "write" \/ (mem["is_empty"] = 1 /\ written[p] = 0),
             \A to \in {"take", "clear", "init_sem"} : pc'[Consumer] = to => pc[Consumer] = to
      PROVE  Whole'
  BY <1>1
<1>2. CASE CreateShm \/ Truncate
  <2>1. UNCHANGED <<mem, written, result, restarted>> /\ pc'[Consumer] \in {"ftruncate", "clear"}
        /\ (\A p \in Producers : pc'[p] = pc[p]) /\ written[Consumer] = 0
    <3>1. CASE CreateShm
      BY <3>1 DEF CreateShm, Goto, faultVars, Places
    <3>2. CASE Truncate
      BY <3>2 DEF Truncate, Goto, faultVars, Places
    <3> QED  BY <1>2, <3>1, <3>2
  <2>2. SettingUp /\ SettingUp'
    BY <1>2, <2>1 DEF CreateShm, Truncate, Goto, SettingUp
  <2> QED  BY <2>1, <2>2
<1>3. CASE InitSem
  <2>1. /\ pc[Consumer] = "init_sem" /\ pc'[Consumer] = "s_wait" /\ UNCHANGED <<mem, written, result>>
        /\ \A p \in Producers : pc'[p] = pc[p]
    BY <1>3 DEF InitSem, Goto, shmVars
  <2>2. SettingUp /\ ~SettingUp' /\ mem["is_empty"] = 1
    BY <2>1 DEF SettingUp
  <2> QED  BY <2>1, <2>2
<1>4. CASE ClearField
  <2>1. pc[Consumer] = "clear" /\ written[Consumer] + 1 \in 1..4
    BY <1>4 DEF ClearField, Places
  <2>2. /\ mem' = [mem EXCEPT ![Fields[written[Consumer] + 1]]
                             = IF Fields[written[Consumer] + 1] = "is_empty" THEN 1 ELSE 0]
        /\ pc'[Consumer] = IF written[Consumer] + 1 = 4 THEN "init_sem" ELSE "clear"
        /\ UNCHANGED restarted
    BY <1>4, <2>1 DEF ClearField, faultVars
  <2>3. SettingUp' /\ SettingUp /\ \A p \in Producers : pc'[p] # "write"
    BY <2>1, <2>2 DEF SettingUp, InOrder, Active
  <2>4. mem'["is_empty"] \in {0, 1} /\ pc'[Consumer] # "take"
    BY <2>1, <2>2
  <2>6. mem'["sender_id"] = 0
    <3>1. CASE written[Consumer] = 0
      BY <2>1, <2>2, <3>1 DEF Payload
    <3>2. CASE written[Consumer] >= 1
      BY <2>1, <2>2, <3>2 DEF Payload
    <3> QED  BY <2>1, <3>1, <3>2
  <2>5. pc'[Consumer] = "init_sem" => mem'["is_empty"] = 1
    BY <2>1, <2>2
  <2> QED  BY <2>3, <2>4, <2>5, <2>6
<1>5. CASE CheckFull
  <2>1. /\ UNCHANGED <<mem, written, restarted>> /\ result' = [result EXCEPT ![Consumer] = -1]
        /\ pc' = [pc EXCEPT ![Consumer] = IF mem["is_empty"] = 1 THEN "s_quit" ELSE "take"]
        /\ pc[Consumer] = "check"
    BY <1>5 DEF CheckFull, Goto, shmVars, faultVars
  <2>2. ~SettingUp /\ ~SettingUp'
    BY <2>1 DEF SettingUp
  <2> QED  BY <2>1, <2>2
<1>6. CASE TakeMessage
  <2>1. \A p \in Producers : pc'[p] # "write"
    BY <1>6 DEF TakeMessage, Goto, InCS, InOrder
  <2>2. /\ mem' = [mem EXCEPT !["is_empty"] = 1] /\ pc'[Consumer] = "s_quit"
    BY <1>6 DEF TakeMessage, Goto
  <2>3. ~SettingUp'
    BY <2>2 DEF SettingUp
  <2> QED  BY <2>1, <2>2, <2>3 DEF Payload
<1>7. CASE PrintField
  <2>1. pc[Consumer] = "print" /\ pc'[Consumer] \in {"s_wait", "print"} /\ \A p \in Producers : pc'[p] = pc[p]
    BY <1>7 DEF PrintField
  <2>2. SettingUp' <=> SettingUp
    BY <2>1 DEF SettingUp
  <2> QED  BY <1>7, <2>1, <2>2, <1>1 DEF PrintField, shmVars, faultVars
<1>8. ASSUME NEW s \in Procs, SWait(s) \/ SQuit(s)  PROVE Whole'
  <2>1. UNCHANGED <<mem, written, result, restarted>>
    BY <1>8 DEF SWait, SQuit, shmVars, faultVars
  <2>2. /\ pc[s] \in {"s_wait", "s_quit"}
        /\ pc' \in {[pc EXCEPT ![s] = to] : to \in {"s_wait", "check", "s_quit", AfterQuit(s)}}
    BY <1>8 DEF SWait, SQuit, OpenSem, Goto
  <2>3. AfterQuit(s) \in {"exit", "print", "s_wait"}
    BY DEF AfterQuit
  <2>4. SettingUp' <=> SettingUp
    BY <2>2, <2>3 DEF SettingUp
  <2> QED  BY <2>1, <2>2, <2>3, <2>4, <1>1
<1>9. ASSUME NEW p \in Producers, Attach(p) \/ CheckEmpty(p)  PROVE Whole'
  <2>1. UNCHANGED <<mem, written, result, restarted>>
    BY <1>9 DEF Attach, CheckEmpty, shmVars, faultVars
  <2>2. /\ \A q \in Procs : q # p => pc'[q] = pc[q]
        /\ pc'[p] = "write" => mem["is_empty"] = 1 /\ written[p] = 0
    BY <1>9 DEF Attach, CheckEmpty, Goto, Places
  <2>3. SettingUp' <=> SettingUp
    BY <2>2 DEF SettingUp
  <2> QED  BY <2>1, <2>2, <2>3, <1>1
<1>10. ASSUME NEW p \in Producers, WriteField(p)  PROVE Whole'
  <2>1. /\ pc[p] = "write" /\ written[p] + 1 \in 1..4 /\ InCS(p)
        /\ mem' = [mem EXCEPT ![Fields[written[p] + 1]]
                             = IF Fields[written[p] + 1] = "is_empty" THEN 0 ELSE p]
        /\ written' = [written EXCEPT ![p] = @ + 1]
    BY <1>10 DEF WriteField, Places, InCS
  <2>2. ~SettingUp /\ \A q \in Procs : q # p => ~InCS(q) /\ pc'[q] = pc[q]
    BY <1>10, <2>1 DEF WriteField, Goto, InOrder, Active
  <2>3. ~SettingUp' /\ pc'[Consumer] \notin {"take", "init_sem", "clear"}
        /\ \A q \in Producers : pc'[q] = "write" => q = p
    BY <2>1, <2>2 DEF SettingUp, InCS
  <2>4. CASE written[p] + 1 = 4
    <3>1. Fields[written[p] + 1] = "is_empty" /\ result'[p] = 0 /\ pc'[p] = "s_quit"
      BY <1>10, <2>1, <2>4 DEF WriteField, Goto
    <3>2. \A f \in Payload : mem'[f] = p
      BY <2>1, <2>4, <3>1 DEF Payload
    <3>3. mem'["is_empty"] = 0
      BY <2>1, <3>1
    <3> QED  BY <2>1, <2>3, <3>1, <3>2, <3>3
  <2>5. CASE written[p] + 1 # 4
    <3>1. /\ Fields[written[p] + 1] # "is_empty" /\ UNCHANGED <<pc, result>>
          /\ mem' = [mem EXCEPT ![Fields[written[p] + 1]] = p]
      BY <1>10, <2>1, <2>5 DEF WriteField
    <3>2. mem'["is_empty"] = 1
      BY <2>1, <3>1
    <3>3. /\ written'[p] = written[p] + 1
          /\ written'[p] >= 1 => mem'["sender_id"] = p
          /\ written'[p] >= 2 => mem'["data"] = p
          /\ written'[p] >= 3 => mem'["account_id"] = p
      BY <2>1, <2>5, <3>1 DEF Payload
    <3> QED  BY <2>1, <2>3, <3>1, <3>2, <3>3
  <2> QED  BY <2>4, <2>5
<1>11. CASE Destroy \/ Stopped \/ UNCHANGED vars
  BY <1>11, <1>1 DEF Destroy, Stopped, vars, SettingUp, faultVars
<1>12. ASSUME NEW k \in Procs, Kill(k)  PROVE Whole'
  <2>1. UNCHANGED <<mem, written, result, restarted>>
    BY <1>12 DEF Kill, shmVars
  <2>2. pc'[k] \in {"killed", "aborted"} /\ \A q \in Procs : q # k => pc'[q] = pc[q]
    BY <1>12 DEF Kill
  <2>3. SettingUp' <=> SettingUp
    BY <1>12 DEF Kill, SettingUp
  <2> QED  BY <2>1, <2>2, <2>3, <1>1
<1>13. CASE Restart
  <2>1. /\ UNCHANGED mem /\ restarted' /\ pc'[Consumer] = "shm_open"
        /\ \A p \in Producers : pc'[p] # "write"
    BY <1>13 DEF Restart, Active, shmVars
  <2>2. SettingUp'
    BY <2>1 DEF SettingUp
  <2> QED  BY <2>1, <2>2
<1> QED  BY <1>2, <1>3, <1>4, <1>5, <1>6, <1>7, <1>8, <1>9, <1>10, <1>11, <1>12, <1>13 DEF Next, ConsumerStep, Step

LEMMA Invariance == Spec => []AllInv
<1>1. Init => AllInv
  BY InitBase, InitObject, InitOrder, InitWhole DEF AllInv
<1>2. AllInv /\ [Next]_vars => AllInv'
  BY NextKeepsBase, NextKeepsObject, NextKeepsOrder, NextKeepsWhole DEF AllInv
<1> QED  BY <1>1, <1>2, PTL DEF Spec

\* Outside the critical section the buffer never holds a half-written message.
THEOREM WholeMessages == Spec => []BufferIsWhole
<1>1. AllInv => BufferIsWhole
  BY DEF AllInv, WholeInv, Whole, BufferIsWhole
<1> QED  BY <1>1, Invariance, PTL

LEMMA NextIsMailStep ==
  ASSUME AllInv, orderly, UNCHANGED orderly, [Next]_vars
  PROVE  [Mailbox!MailNext]_(Mailbox!mailVars)
<1> USE ProcsFacts, FieldFacts DEF AllInv, BaseInv, Typed, WholeInv, Whole
<1>1. ASSUME UNCHANGED <<mem, taken, restarted>>, \A p \in Producers : written'[p] = written[p]
      PROVE  UNCHANGED Mailbox!mailVars
  BY <1>1 DEF Mailbox!mailVars
<1>2. CASE ClearField
  <2>1. /\ pc[Consumer] = "clear" /\ mem'["sender_id"] = 0 /\ UNCHANGED <<taken, restarted>>
        /\ mem["sender_id"] = 0 \/ restarted
        /\ \A p \in Producers : written'[p] = written[p]
    BY <1>2 DEF ClearField, SettingUp, Payload, Places, faultVars
  <2>2. CASE mem["sender_id"] = 0
    BY <2>1, <2>2 DEF Mailbox!mailVars
  <2>3. CASE restarted
    BY <2>1, <2>3 DEF Mailbox!Lose, Mailbox!MailNext, Mailbox!NoMessage
  <2> QED  BY <2>1, <2>2, <2>3
<1>3. CASE TakeMessage
  <2>1. /\ mem["is_empty"] = 0 /\ mem'["is_empty"] = 1 /\ UNCHANGED <<written, restarted>>
        /\ mem["sender_id"] \in Producers /\ taken' = taken \union {mem["sender_id"]}
    BY <1>3 DEF TakeMessage, Goto, SettingUp, Payload, faultVars
  <2>2. Mailbox!Take
    BY <2>1 DEF Mailbox!Take, Mailbox!NoMessage
  <2> QED  BY <2>2 DEF Mailbox!MailNext
<1>4. ASSUME NEW p \in Producers, WriteField(p)  PROVE [Mailbox!MailNext]_(Mailbox!mailVars)
  <2>1. /\ pc[p] = "write" /\ written[p] + 1 \in 1..4 /\ mem["is_empty"] = 1
        /\ mem' = [mem EXCEPT ![Fields[written[p] + 1]]
                             = IF Fields[written[p] + 1] = "is_empty" THEN 0 ELSE p]
        /\ written' = [written EXCEPT ![p] = @ + 1]
        /\ UNCHANGED <<taken, restarted>>
    BY <1>4 DEF WriteField, Places, faultVars
  <2>2. CASE written[p] + 1 = 4
    <3>1. mem'["is_empty"] = 0 /\ mem'["sender_id"] = p
      BY <2>1, <2>2 DEF Payload
    <3>2. /\ p \notin {q \in Producers : written[q] = Len(Fields)}
          /\ {q \in Producers : written'[q] = Len(Fields)}
               = {q \in Producers : written[q] = Len(Fields)} \union {p}
      BY <2>1, <2>2
    <3>3. Mailbox!Put(p)
      BY <2>1, <3>1, <3>2 DEF Mailbox!Put, Mailbox!NoMessage
    <3> QED  BY <3>3 DEF Mailbox!MailNext
  <2>3. CASE written[p] + 1 # 4
    <3>1. mem'["is_empty"] = 1
      BY <2>1, <2>3
    <3>2. {q \in Producers : written'[q] = Len(Fields)} = {q \in Producers : written[q] = Len(Fields)}
      BY <2>1, <2>3
    <3> QED  BY <2>1, <3>1, <3>2 DEF Mailbox!mailVars
  <2> QED  BY <2>2, <2>3
<1>5. CASE CreateShm \/ Truncate \/ InitSem \/ CheckFull \/ PrintField
  BY <1>1, <1>5 DEF CreateShm, Truncate, InitSem, CheckFull, PrintField, shmVars, faultVars
<1>6. ASSUME NEW s \in Procs, SWait(s) \/ SQuit(s)  PROVE UNCHANGED Mailbox!mailVars
  BY <1>1, <1>6 DEF SWait, SQuit, shmVars, faultVars
<1>7. ASSUME NEW p \in Producers, Attach(p) \/ CheckEmpty(p)  PROVE UNCHANGED Mailbox!mailVars
  BY <1>1, <1>7 DEF Attach, CheckEmpty, shmVars, faultVars
<1>8. CASE Destroy \/ Stopped \/ UNCHANGED vars
  BY <1>1, <1>8 DEF Destroy, Stopped, vars, faultVars
<1>9. ASSUME NEW k \in Procs, Kill(k)  PROVE UNCHANGED Mailbox!mailVars
  BY <1>1, <1>9 DEF Kill, shmVars
<1>10. CASE Restart
  <2>1. UNCHANGED <<mem, taken>> /\ restarted' = TRUE /\ \A p \in Producers : written'[p] = written[p]
    BY <1>10 DEF Restart, shmVars
  <2>2. Mailbox!ConsumerRunAgain
    BY <2>1 DEF Mailbox!ConsumerRunAgain
  <2> QED  BY <2>2 DEF Mailbox!MailNext
<1> QED  BY <1>2, <1>3, <1>4, <1>5, <1>6, <1>7, <1>8, <1>9, <1>10 DEF Next, ConsumerStep, Step

\* For any number of producers, kills and restarts, produce and consume implement the
\* mailbox: a message is accepted only into a free slot, and stays there until it is
\* taken or a second consumer clears the slot.
THEOREM ImplementsMailbox == Spec => MailSpec
<1>1. Init => Mailbox!MailInit
  BY ProcsFacts, FieldFacts DEF Init, Mailbox!MailInit, Mailbox!NoMessage, Payload
<1>2. ASSUME AllInv, [Next]_vars  PROVE [Mailbox!MailNext]_(Mailbox!mailVars)
  <2>1. UNCHANGED orderly /\ (UNCHANGED restarted \/ restarted' = TRUE)
    BY <1>2 DEF Next, ConsumerStep, Step, CreateShm, Truncate, ClearField, InitSem, SWait, SQuit, Attach,
           CheckEmpty, WriteField, CheckFull, TakeMessage, PrintField, Destroy, Stopped, Kill, Restart,
           faultVars, vars
  <2>2. CASE orderly
    BY <1>2, <2>1, <2>2, NextIsMailStep
  <2>3. CASE ~orderly
    BY <2>1, <2>3 DEF Mailbox!ConsumerRunAgain, Mailbox!MailNext, Mailbox!mailVars
  <2> QED  BY <2>2, <2>3
<1> QED  BY <1>1, <1>2, Invariance, PTL DEF Spec, MailSpec, Mailbox!MailSpec
=============================================================================
