--------------------------- MODULE SharedMemoryProofs ---------------------------
(***************************************************************************)
(* The programs whose threads or processes share plain memory: lab5        *)
(* assignment_1_1, the message buffer without a semaphore, for every set   *)
(* of producers and every number of kills, and the lab4 exercises, for any *)
(* number of threads, increments and words.                                *)
(*                                                                         *)
(* Takes are paid for however the producers interfere: the flag is set to  *)
(* "full" only by the last step of a produce, and reset by consume only    *)
(* after it was seen set, which no other process undoes in between         *)
(* (PaidInv).  When producers run one at a time the flag also guards the   *)
(* contents: at most one producer runs, none while a consumer sets up, and *)
(* what it has written so far is still there when it sets the flag         *)
(* (AloneInv); each step is then a step of Mailbox, or none.               *)
(*                                                                         *)
(* The exercises: what main reports as the count with and without the      *)
(* mutex (CounterInv), and that main is neither too early nor left asleep  *)
(* when the words are handed over (HandoverInv).                           *)
(***************************************************************************)
EXTENDS RawBuffer, ThreadExercises, FiniteSetTheorems, TLAPS

LEMMA ProcsFacts == Consumer \in Procs /\ Producers \subseteq Procs /\ Consumer \notin Producers
  BY RawBufferAssumption DEF Procs, Consumer

LEMMA FieldFacts == /\ Len(Fields) = 4 /\ Fields[1] = "sender_id" /\ Fields[2] = "data"
                    /\ Fields[3] = "account_id" /\ Fields[4] = "is_empty"
                    /\ \A i \in 1..4 : Fields[i] = "is_empty" <=> i = 4
  BY DEF Fields

LEMMA ProducersArePositive == \A p \in Producers : p \in Int /\ p # 0
  BY RawBufferAssumption

-----------------------------------------------------------------------------
(* Where each process can be, and what the flag says there.                 *)

ConsumerPlaces == {"shm_open", "ftruncate", "clear", "check", "take", "print", "killed", "aborted"}
ProducerPlaces == {"attach", "check", "write", "exit", "killed"}

Typed ==
  /\ mem \in [Payload \union {"is_empty"} -> Producers \union {0, 1}]
  /\ mem["is_empty"] \in {0, 1}
  /\ pc \in [Procs -> ConsumerPlaces \union ProducerPlaces]
  /\ pc[Consumer] \in ConsumerPlaces
  /\ \A p \in Producers : pc[p] \in ProducerPlaces
  /\ written \in [Procs -> 0..4]
  /\ takes \in Nat
  /\ restarted \in BOOLEAN

\* How far each process has written, by where it is.
Progress ==
  /\ pc[Consumer] \in {"shm_open", "ftruncate"} => written[Consumer] = 0
  /\ pc[Consumer] = "clear" => written[Consumer] < 4
  /\ \A p \in Producers : /\ pc[p] \in {"attach", "check"} => written[p] = 0
                          /\ pc[p] = "write" => written[p] < 4

\* Once consume has seen the flag at "full", only consume changes it.
SeenFull == pc[Consumer] = "take" => mem["is_empty"] = 0

PaidInv == Typed /\ Progress /\ SeenFull /\ IsFiniteSet(Completed) /\ TakesArePaidFor

LEMMA InitPaid == Init => PaidInv
<1> SUFFICES ASSUME Init  PROVE PaidInv
  OBVIOUS
<1> USE ProcsFacts, FieldFacts DEF Init
<1>1. Typed
  <2>1. restarted \in BOOLEAN
    BY Zenon
  <2> QED  BY <2>1 DEF Typed, ConsumerPlaces, ProducerPlaces, Payload
<1>2. Progress /\ SeenFull
  BY DEF Progress, SeenFull
<1>3. Completed = {}
  BY DEF Completed
<1>4. IsFiniteSet(Completed) /\ Cardinality(Completed) = 0
  BY <1>3, FS_EmptySet
<1>5. TakesArePaidFor
  BY <1>4 DEF TakesArePaidFor, SettingUp
<1> QED  BY <1>1, <1>2, <1>4, <1>5 DEF PaidInv

LEMMA NextKeepsPlaces == Typed /\ Progress /\ SeenFull /\ [Next]_vars => (Typed /\ Progress /\ SeenFull)'
<1> SUFFICES ASSUME Typed, Progress, SeenFull, [Next]_vars  PROVE (Typed /\ Progress /\ SeenFull)'
  OBVIOUS
<1> USE ProcsFacts, FieldFacts DEF Typed, Progress, SeenFull, ConsumerPlaces, ProducerPlaces
<1>1. CASE CreateShm \/ Truncate
  BY <1>1 DEF CreateShm, Truncate, Goto, faultVars, historyVars
<1>2. CASE ClearField
  <2>1. pc[Consumer] = "clear" /\ written[Consumer] + 1 \in 1..4
    BY <1>2 DEF ClearField
  <2>2. /\ mem' = [mem EXCEPT ![Fields[written[Consumer] + 1]]
                             = IF Fields[written[Consumer] + 1] = "is_empty" THEN 1 ELSE 0]
        /\ written' = [written EXCEPT ![Consumer] = @ + 1]
        /\ pc' = [pc EXCEPT ![Consumer] = IF written[Consumer] + 1 = 4 THEN "check" ELSE @]
        /\ UNCHANGED <<takes, restarted>>
    BY <1>2, <2>1 DEF ClearField, faultVars, historyVars
  <2>3. mem' \in [Payload \union {"is_empty"} -> Producers \union {0, 1}] /\ mem'["is_empty"] \in {0, 1}
    BY <2>1, <2>2 DEF Payload
  <2> QED  BY <2>1, <2>2, <2>3
<1>3. CASE CheckFull \/ PrintField
  BY <1>3 DEF CheckFull, PrintField, Goto, shmVars, faultVars, historyVars
<1>4. CASE TakeMessage
  BY <1>4 DEF TakeMessage, Goto, faultVars, Payload
<1>5. ASSUME NEW p \in Producers, Attach(p) \/ CheckEmpty(p)  PROVE (Typed /\ Progress /\ SeenFull)'
  BY <1>5 DEF Attach, CheckEmpty, Goto, shmVars, faultVars, historyVars
<1>6. ASSUME NEW p \in Producers, WriteField(p)  PROVE (Typed /\ Progress /\ SeenFull)'
  <2>1. pc[p] = "write" /\ written[p] + 1 \in 1..4
    BY <1>6 DEF WriteField
  <2>2. /\ mem' = [mem EXCEPT ![Fields[written[p] + 1]]
                             = IF Fields[written[p] + 1] = "is_empty" THEN 0 ELSE p]
        /\ written' = [written EXCEPT ![p] = @ + 1]
        /\ pc' = [pc EXCEPT ![p] = IF written[p] + 1 = 4 THEN "exit" ELSE @]
        /\ UNCHANGED <<takes, restarted>>
    BY <1>6, <2>1 DEF WriteField, faultVars, historyVars
  <2>3. /\ mem' \in [Payload \union {"is_empty"} -> Producers \union {0, 1}]
        /\ mem'["is_empty"] \in {mem["is_empty"], 0}
    BY <2>1, <2>2 DEF Payload
  <2> QED  BY <2>1, <2>2, <2>3
<1>7. CASE Destroy \/ Stopped \/ UNCHANGED vars
  BY <1>7 DEF Destroy, Stopped, vars, faultVars, historyVars
<1>8. ASSUME NEW k \in Procs, Kill(k)  PROVE (Typed /\ Progress /\ SeenFull)'
  BY <1>8 DEF Kill, shmVars, historyVars, SettingUp
<1>9. CASE Restart
  BY <1>9 DEF Restart, shmVars, historyVars
<1> QED  BY <1>1, <1>2, <1>3, <1>4, <1>5, <1>6, <1>7, <1>8, <1>9 DEF Next, ConsumerStep, ProducerStep

LEMMA NextKeepsPaid == PaidInv /\ [Next]_vars => PaidInv'
<1> SUFFICES ASSUME PaidInv, [Next]_vars  PROVE (IsFiniteSet(Completed) /\ TakesArePaidFor)'
  BY NextKeepsPlaces DEF PaidInv
<1>1. Typed /\ Progress /\ SeenFull /\ IsFiniteSet(Completed) /\ TakesArePaidFor /\ Cardinality(Completed) \in Nat
  BY FS_CardinalityType DEF PaidInv
<1> USE ProcsFacts, FieldFacts DEF Typed, Progress, SeenFull
\* A step that completes no produce, takes nothing and does not set the flag.
<1>2. ASSUME \A p \in Producers : written'[p] = written[p], UNCHANGED takes,
             (mem'["is_empty"] = 0 /\ ~SettingUp') => (mem["is_empty"] = 0 /\ ~SettingUp)
      PROVE  (IsFiniteSet(Completed) /\ TakesArePaidFor)'
  <2>1. Completed' = Completed
    BY <1>2 DEF Completed
  <2> QED  BY <1>2, <1>1, <2>1 DEF TakesArePaidFor
<1>3. CASE CreateShm \/ Truncate \/ CheckFull \/ PrintField
  BY <1>2, <1>3, <1>1 DEF CreateShm, Truncate, CheckFull, PrintField, Goto, shmVars, faultVars, historyVars, SettingUp
<1>4. CASE ClearField
  <2>1. pc[Consumer] = "clear" /\ written[Consumer] + 1 \in 1..4
    BY <1>4, <1>1 DEF ClearField
  <2>2. /\ mem' = [mem EXCEPT ![Fields[written[Consumer] + 1]]
                             = IF Fields[written[Consumer] + 1] = "is_empty" THEN 1 ELSE 0]
        /\ \A p \in Producers : written'[p] = written[p]
        /\ pc' = [pc EXCEPT ![Consumer] = IF written[Consumer] + 1 = 4 THEN "check" ELSE @]
        /\ UNCHANGED takes
    BY <1>4, <2>1, <1>1 DEF ClearField, historyVars
  <2>3. CASE written[Consumer] + 1 = 4
    <3>1. mem'["is_empty"] = 1
      BY <2>2, <2>3, <1>1
    <3> QED  BY <1>2, <2>2, <3>1
  <2>4. CASE written[Consumer] + 1 # 4
    <3>1. SettingUp'
      BY <2>1, <2>2, <2>4, <1>1 DEF SettingUp
    <3> QED  BY <1>2, <2>2, <3>1
  <2> QED  BY <2>3, <2>4
<1>5. CASE TakeMessage
  <2>1. /\ mem["is_empty"] = 0 /\ mem'["is_empty"] = 1 /\ ~SettingUp
        /\ takes' = takes + 1 /\ Completed' = Completed
    BY <1>5, <1>1 DEF TakeMessage, Goto, SettingUp, Completed
  <2> QED  BY <1>1, <2>1 DEF TakesArePaidFor
<1>6. ASSUME NEW p \in Producers, Attach(p) \/ CheckEmpty(p)  PROVE (IsFiniteSet(Completed) /\ TakesArePaidFor)'
  BY <1>2, <1>6, <1>1 DEF Attach, CheckEmpty, Goto, shmVars, faultVars, historyVars, SettingUp
<1>7. ASSUME NEW p \in Producers, WriteField(p)  PROVE (IsFiniteSet(Completed) /\ TakesArePaidFor)'
  <2>1. pc[p] = "write" /\ written[p] + 1 \in 1..4
    BY <1>7, <1>1 DEF WriteField
  <2>2. /\ mem' = [mem EXCEPT ![Fields[written[p] + 1]]
                             = IF Fields[written[p] + 1] = "is_empty" THEN 0 ELSE p]
        /\ written' = [written EXCEPT ![p] = @ + 1]
        /\ SettingUp' <=> SettingUp
        /\ UNCHANGED takes
    BY <1>7, <2>1, <1>1 DEF WriteField, historyVars, SettingUp
  <2>3. CASE written[p] + 1 = 4
    <3>1. Completed' = Completed \union {p} /\ p \notin Completed
      BY <2>1, <2>2, <2>3, <1>1 DEF Completed
    <3>2. IsFiniteSet(Completed') /\ Cardinality(Completed') = Cardinality(Completed) + 1
      BY <1>1, <3>1, FS_AddElement
    <3> QED  BY <1>1, <2>2, <3>2 DEF TakesArePaidFor
  <2>4. CASE written[p] + 1 # 4
    <3>1. mem'["is_empty"] = mem["is_empty"] /\ Completed' = Completed
      BY <2>1, <2>2, <2>4, <1>1 DEF Completed
    <3> QED  BY <1>1, <2>2, <3>1 DEF TakesArePaidFor
  <2> QED  BY <2>3, <2>4
<1>8. CASE Destroy \/ Stopped \/ UNCHANGED vars
  BY <1>2, <1>8 DEF Destroy, Stopped, vars, faultVars, historyVars, SettingUp
<1>9. ASSUME NEW k \in Procs, Kill(k)  PROVE (IsFiniteSet(Completed) /\ TakesArePaidFor)'
  BY <1>2, <1>9, <1>1 DEF Kill, shmVars, historyVars, SettingUp
<1>10. CASE Restart
  BY <1>2, <1>10, <1>1 DEF Restart, shmVars, historyVars, SettingUp
<1> QED  BY <1>3, <1>4, <1>5, <1>6, <1>7, <1>8, <1>9, <1>10 DEF Next, ConsumerStep, ProducerStep

\* However the producers and kills interleave, consume returns 0 at most once for each
\* produce that returned 0.
THEOREM TakenAtMostOnce == Spec => []TakesArePaidFor
<1>1. PaidInv => TakesArePaidFor
  BY DEF PaidInv
<1> QED  BY <1>1, InitPaid, NextKeepsPaid, PTL DEF Spec

-----------------------------------------------------------------------------
(* Producers run one at a time: what the flag then says of the contents.    *)

Alone ==
  /\ \A p, q \in Producers : Active(p) /\ Active(q) => p = q
  /\ SettingUp => \A p \in Producers : ~Active(p)
  /\ SettingUp /\ ~restarted => mem["sender_id"] = 0
  /\ pc[Consumer] = "clear" /\ written[Consumer] >= 1 => mem["sender_id"] = 0
  /\ mem["is_empty"] = 0 /\ ~SettingUp =>
       \E p \in Producers : \A f \in Payload : mem[f] = p
  /\ \A p \in Producers : pc[p] = "write" =>
       /\ mem["is_empty"] = 1
       /\ written[p] >= 1 => mem["sender_id"] = p
       /\ written[p] >= 2 => mem["data"] = p
       /\ written[p] >= 3 => mem["account_id"] = p

AloneInv == one_at_a_time => Alone

LEMMA InitAlone == Init => AloneInv
  BY ProcsFacts DEF Init, AloneInv, Alone, Active, SettingUp, Payload

LEMMA NextKeepsAlone == PaidInv /\ AloneInv /\ [Next]_vars => AloneInv'
<1> SUFFICES ASSUME Typed, Progress, SeenFull, Alone, one_at_a_time, [Next]_vars  PROVE Alone'
  <2>1. [Next]_vars => UNCHANGED one_at_a_time
    BY DEF Next, ConsumerStep, ProducerStep, CreateShm, Truncate, ClearField, Attach, CheckEmpty, WriteField,
           CheckFull, TakeMessage, PrintField, Destroy, Stopped, Kill, Restart, faultVars, vars
  <2> QED  BY <2>1 DEF PaidInv, AloneInv
<1> USE ProcsFacts, FieldFacts DEF Typed, Progress, SeenFull, ConsumerPlaces, ProducerPlaces, Alone
\* A step that writes nothing, starts no producer but alone, and begins no setting up.
<1>1. ASSUME UNCHANGED <<mem, restarted>>, SettingUp' <=> SettingUp,
             \A p \in Producers : written'[p] = written[p],
             \A p \in Producers : Active(p)' => Active(p),
             \A p \in Producers : pc'[p] = "write" => pc[p] = "write" \/ (mem["is_empty"] = 1 /\ written[p] = 0),
             pc'[Consumer] = "clear" => pc[Consumer] = "clear" /\ written'[Consumer] = written[Consumer]
      PROVE  Alone'
  BY <1>1
<1>2. CASE CreateShm \/ Truncate
  <2>1. UNCHANGED <<mem, written, restarted>> /\ pc'[Consumer] \in {"ftruncate", "clear"}
        /\ (\A p \in Producers : pc'[p] = pc[p]) /\ written[Consumer] = 0
    <3>1. CASE CreateShm
      BY <3>1 DEF CreateShm, Goto, faultVars
    <3>2. CASE Truncate
      BY <3>2 DEF Truncate, Goto, faultVars
    <3> QED  BY <1>2, <3>1, <3>2
  <2>2. SettingUp /\ SettingUp' /\ \A p \in Producers : Active(p)' <=> Active(p)
    BY <1>2, <2>1 DEF CreateShm, Truncate, Goto, SettingUp, Active
  <2> QED  BY <2>1, <2>2
<1>3. CASE ClearField
  <2>1. pc[Consumer] = "clear" /\ written[Consumer] + 1 \in 1..4
    BY <1>3 DEF ClearField
  <2>2. /\ mem' = [mem EXCEPT ![Fields[written[Consumer] + 1]]
                             = IF Fields[written[Consumer] + 1] = "is_empty" THEN 1 ELSE 0]
        /\ \A p \in Producers : pc'[p] = pc[p]
        /\ UNCHANGED restarted
    BY <1>3, <2>1 DEF ClearField, faultVars
  <2>3. pc'[Consumer] = IF written[Consumer] + 1 = 4 THEN "check" ELSE "clear"
    BY <1>3, <2>1 DEF ClearField
  <2>4. SettingUp /\ \A p \in Producers : ~Active(p) /\ ~Active(p)' /\ pc'[p] # "write"
    BY <2>1, <2>2 DEF SettingUp, Active
  <2>5. mem'["sender_id"] = 0
    <3>1. CASE written[Consumer] = 0
      BY <2>1, <2>2, <3>1 DEF Payload
    <3>2. CASE written[Consumer] >= 1
      BY <2>1, <2>2, <3>2 DEF Payload
    <3> QED  BY <2>1, <3>1, <3>2
  <2>6. mem'["is_empty"] = 1 \/ SettingUp'
    BY <2>1, <2>2, <2>3 DEF SettingUp
  <2> QED  BY <2>4, <2>5, <2>6
<1>4. CASE CheckFull \/ PrintField
  <2>1. UNCHANGED <<mem, written, restarted>> /\ (\A p \in Producers : pc'[p] = pc[p])
        /\ pc[Consumer] \in {"check", "print"} /\ pc'[Consumer] \in {"check", "take", "print"}
    BY <1>4 DEF CheckFull, PrintField, Goto, shmVars, faultVars
  <2>2. (SettingUp' <=> SettingUp) /\ \A p \in Producers : Active(p)' <=> Active(p)
    BY <2>1 DEF SettingUp, Active
  <2> QED  BY <2>1, <2>2, <1>1
<1>5. CASE TakeMessage
  <2>1. /\ mem' = [mem EXCEPT !["is_empty"] = 1] /\ mem["is_empty"] = 0
        /\ UNCHANGED <<written, restarted>> /\ (\A p \in Producers : pc'[p] = pc[p])
        /\ pc[Consumer] = "take" /\ pc'[Consumer] = "print"
    BY <1>5 DEF TakeMessage, Goto, faultVars
  <2>2. ~SettingUp' /\ ~SettingUp /\ \A p \in Producers : Active(p)' <=> Active(p)
    BY <2>1 DEF SettingUp, Active
  <2> QED  BY <2>1, <2>2 DEF Payload
<1>6. ASSUME NEW p \in Producers, Attach(p)  PROVE Alone'
  <2>1. UNCHANGED <<mem, written, restarted>> /\ ~SettingUp /\ \A q \in Producers : ~Active(q)
    BY <1>6 DEF Attach, shmVars, faultVars
  <2>2. (\A q \in Procs : q # p => pc'[q] = pc[q]) /\ pc'[p] \in {"check", "exit"}
    BY <1>6 DEF Attach, Goto
  <2>3. ~SettingUp' /\ \A q \in Producers : Active(q)' => q = p
    BY <2>1, <2>2 DEF SettingUp, Active
  <2> QED  BY <2>1, <2>2, <2>3 DEF Active
<1>7. ASSUME NEW p \in Producers, CheckEmpty(p)  PROVE Alone'
  <2>1. UNCHANGED <<mem, written, restarted>> /\ pc[p] = "check" /\ written[p] = 0
        /\ (\A q \in Procs : q # p => pc'[q] = pc[q])
    BY <1>7 DEF CheckEmpty, Goto, shmVars, faultVars
  <2>2. pc'[p] = "write" => mem["is_empty"] = 1
    BY <1>7 DEF CheckEmpty, Goto
  <2>3. (SettingUp' <=> SettingUp) /\ \A q \in Producers : Active(q)' => Active(q)
    BY <2>1 DEF SettingUp, Active
  <2> QED  BY <2>1, <2>2, <2>3, <1>1
<1>8. ASSUME NEW p \in Producers, WriteField(p)  PROVE Alone'
  <2>1. /\ pc[p] = "write" /\ written[p] + 1 \in 1..4 /\ Active(p)
        /\ mem' = [mem EXCEPT ![Fields[written[p] + 1]]
                             = IF Fields[written[p] + 1] = "is_empty" THEN 0 ELSE p]
        /\ written' = [written EXCEPT ![p] = @ + 1]
        /\ UNCHANGED restarted
    BY <1>8 DEF WriteField, Active, faultVars
  <2>2. pc' = [pc EXCEPT ![p] = IF written[p] + 1 = 4 THEN "exit" ELSE @]
    <3>1. written'[p] = written[p] + 1
      BY <2>1
    <3> QED  BY <1>8, <3>1 DEF WriteField
  <2>3. ~SettingUp /\ ~SettingUp' /\ (\A q \in Producers : Active(q)' => Active(q))
        /\ \A q \in Producers : q # p => pc'[q] # "write"
    BY <2>1, <2>2 DEF SettingUp, Active
  <2>4. CASE written[p] + 1 = 4
    <3>1. mem'["is_empty"] = 0 /\ pc'[p] = "exit"
      BY <2>1, <2>2, <2>4
    <3>2. \A f \in Payload : mem'[f] = p
      BY <2>1, <2>4 DEF Payload
    <3> QED  BY <2>1, <2>3, <3>1, <3>2 DEF SettingUp
  <2>5. CASE written[p] + 1 # 4
    <3>1. mem' = [mem EXCEPT ![Fields[written[p] + 1]] = p] /\ mem'["is_empty"] = 1
      BY <2>1, <2>5
    <3>2. /\ written'[p] = written[p] + 1
          /\ written'[p] >= 1 => mem'["sender_id"] = p
          /\ written'[p] >= 2 => mem'["data"] = p
          /\ written'[p] >= 3 => mem'["account_id"] = p
      BY <2>1, <2>5, <3>1 DEF Payload
    <3> QED  BY <2>1, <2>3, <3>1, <3>2 DEF SettingUp
  <2> QED  BY <2>4, <2>5
<1>9. CASE Destroy \/ Stopped \/ UNCHANGED vars
  BY <1>1, <1>9 DEF Destroy, Stopped, vars, faultVars, SettingUp, Active
<1>10. ASSUME NEW k \in Procs, Kill(k)  PROVE Alone'
  <2>1. UNCHANGED <<mem, written, restarted>> /\ pc'[k] \in {"killed", "aborted"}
        /\ (\A q \in Procs : q # k => pc'[q] = pc[q]) /\ (k \in Producers => pc'[k] = "killed")
    BY <1>10 DEF Kill, shmVars
  <2>2. (SettingUp' <=> SettingUp) /\ \A q \in Producers : Active(q)' => Active(q)
    BY <1>10, <2>1 DEF Kill, SettingUp, Active
  <2> QED  BY <2>1, <2>2, <1>1
<1>11. CASE Restart
  <2>1. /\ UNCHANGED mem /\ restarted' /\ pc'[Consumer] = "shm_open"
        /\ \A p \in Producers : ~Active(p) /\ pc'[p] = pc[p]
    BY <1>11 DEF Restart, shmVars
  <2>2. SettingUp' /\ \A p \in Producers : ~Active(p)' /\ pc'[p] # "write"
    BY <2>1 DEF SettingUp, Active
  <2> QED  BY <2>1, <2>2
<1> QED  BY <1>2, <1>3, <1>4, <1>5, <1>6, <1>7, <1>8, <1>9, <1>10, <1>11 DEF Next, ConsumerStep, ProducerStep

-----------------------------------------------------------------------------
(* Refinement of Mailbox.                                                   *)

LEMMA NextIsMailStep ==
  ASSUME PaidInv, Alone, one_at_a_time, UNCHANGED one_at_a_time, [Next]_vars
  PROVE  [Mailbox!MailNext]_(Mailbox!mailVars)
<1> USE ProcsFacts, FieldFacts DEF PaidInv, Typed, Progress, SeenFull, ConsumerPlaces, ProducerPlaces, Alone, InSlot
<1>1. ASSUME UNCHANGED <<mem, taken, restarted>>, \A p \in Producers : written'[p] = written[p]
      PROVE  UNCHANGED Mailbox!mailVars
  BY <1>1 DEF Mailbox!mailVars, Completed
<1>2. CASE ClearField
  <2>1. /\ pc[Consumer] = "clear" /\ written[Consumer] + 1 \in 1..4
        /\ mem' = [mem EXCEPT ![Fields[written[Consumer] + 1]]
                             = IF Fields[written[Consumer] + 1] = "is_empty" THEN 1 ELSE 0]
        /\ UNCHANGED <<taken, restarted>> /\ \A p \in Producers : written'[p] = written[p]
    BY <1>2 DEF ClearField, faultVars, historyVars
  <2>2. mem["sender_id"] = 0 \/ restarted
    BY <2>1 DEF SettingUp
  <2>3. mem'["sender_id"] = 0
    <3>1. CASE written[Consumer] = 0
      BY <2>1, <3>1 DEF Payload
    <3>2. CASE written[Consumer] >= 1
      BY <2>1, <3>2 DEF Payload
    <3> QED  BY <2>1, <3>1, <3>2
  <2>4. InSlot' = 0 /\ Completed' = Completed
    BY <2>1, <2>3 DEF Completed
  <2>5. CASE mem["sender_id"] = 0
    <3>1. InSlot = 0
      BY <2>5
    <3> QED  BY <2>1, <2>4, <3>1 DEF Mailbox!mailVars
  <2>6. CASE restarted
    BY <2>1, <2>4, <2>6 DEF Mailbox!Lose, Mailbox!MailNext, Mailbox!NoMessage
  <2> QED  BY <2>2, <2>5, <2>6
<1>3. CASE TakeMessage
  <2>1. /\ mem["is_empty"] = 0 /\ mem'["is_empty"] = 1 /\ UNCHANGED <<written, restarted>>
        /\ taken' = taken \union {mem["sender_id"]} /\ ~SettingUp
    BY <1>3 DEF TakeMessage, Goto, SettingUp, Payload, faultVars
  <2>2. InSlot = mem["sender_id"] /\ InSlot \in Producers /\ InSlot' = 0 /\ Completed' = Completed
    BY <2>1 DEF Payload, Completed
  <2>3. Mailbox!Take
    BY <2>1, <2>2, ProducersArePositive DEF Mailbox!Take, Mailbox!NoMessage
  <2> QED  BY <2>3 DEF Mailbox!MailNext
<1>4. ASSUME NEW p \in Producers, WriteField(p)  PROVE [Mailbox!MailNext]_(Mailbox!mailVars)
  <2>1. /\ pc[p] = "write" /\ written[p] + 1 \in 1..4 /\ mem["is_empty"] = 1
        /\ mem' = [mem EXCEPT ![Fields[written[p] + 1]]
                             = IF Fields[written[p] + 1] = "is_empty" THEN 0 ELSE p]
        /\ written' = [written EXCEPT ![p] = @ + 1]
        /\ UNCHANGED <<taken, restarted>>
    BY <1>4 DEF WriteField, faultVars, historyVars
  <2>2. CASE written[p] + 1 = 4
    <3>1. mem'["is_empty"] = 0 /\ \A f \in Payload : mem'[f] = p
      BY <2>1, <2>2 DEF Payload
    <3>2. p \notin Completed /\ Completed' = Completed \union {p}
      BY <2>1, <2>2 DEF Completed
    <3>3. InSlot = 0 /\ InSlot' = p
      BY <2>1, <3>1 DEF Payload
    <3>4. Mailbox!Put(p)
      BY <2>1, <3>2, <3>3 DEF Mailbox!Put, Mailbox!NoMessage
    <3> QED  BY <3>4 DEF Mailbox!MailNext
  <2>3. CASE written[p] + 1 # 4
    <3>1. mem'["is_empty"] = 1
      BY <2>1, <2>3
    <3>2. Completed' = Completed
      BY <2>1, <2>3 DEF Completed
    <3> QED  BY <2>1, <3>1, <3>2 DEF Mailbox!mailVars
  <2> QED  BY <2>2, <2>3
<1>5. CASE CreateShm \/ Truncate \/ CheckFull \/ PrintField
  BY <1>1, <1>5 DEF CreateShm, Truncate, CheckFull, PrintField, shmVars, faultVars, historyVars
<1>6. ASSUME NEW p \in Producers, Attach(p) \/ CheckEmpty(p)  PROVE UNCHANGED Mailbox!mailVars
  BY <1>1, <1>6 DEF Attach, CheckEmpty, shmVars, faultVars, historyVars
<1>7. CASE Destroy \/ Stopped \/ UNCHANGED vars
  BY <1>1, <1>7 DEF Destroy, Stopped, vars, faultVars, historyVars
<1>8. ASSUME NEW k \in Procs, Kill(k)  PROVE UNCHANGED Mailbox!mailVars
  BY <1>1, <1>8 DEF Kill, shmVars, historyVars
<1>9. CASE Restart
  <2>1. UNCHANGED <<mem, taken>> /\ restarted' = TRUE /\ \A p \in Producers : written'[p] = written[p]
    BY <1>9 DEF Restart, shmVars, historyVars
  <2>2. Mailbox!ConsumerRunAgain
    BY <2>1 DEF Mailbox!ConsumerRunAgain, Completed
  <2> QED  BY <2>2 DEF Mailbox!MailNext
<1> QED  BY <1>2, <1>3, <1>4, <1>5, <1>6, <1>7, <1>8, <1>9 DEF Next, ConsumerStep, ProducerStep

\* With producers one at a time, and a second consumer likewise, produce and consume
\* implement the mailbox without a semaphore, for any number of producers and kills.
THEOREM ImplementsMailbox == Spec => MailSpec
<1>1. Init => Mailbox!MailInit
  BY ProcsFacts, FieldFacts DEF Init, Mailbox!MailInit, Mailbox!NoMessage, InSlot, Completed, Payload
<1>2. ASSUME PaidInv, AloneInv, [Next]_vars  PROVE [Mailbox!MailNext]_(Mailbox!mailVars)
  <2>1. UNCHANGED one_at_a_time /\ (UNCHANGED restarted \/ restarted' = TRUE)
    BY <1>2 DEF Next, ConsumerStep, ProducerStep, CreateShm, Truncate, ClearField, Attach, CheckEmpty, WriteField,
           CheckFull, TakeMessage, PrintField, Destroy, Stopped, Kill, Restart, faultVars, vars
  <2>2. CASE one_at_a_time
    BY <1>2, <2>1, <2>2, NextIsMailStep DEF AloneInv
  <2>3. CASE ~one_at_a_time
    BY <2>1, <2>3 DEF Mailbox!ConsumerRunAgain, Mailbox!MailNext, Mailbox!mailVars
  <2> QED  BY <2>2, <2>3
<1> QED  BY <1>1, <1>2, InitPaid, NextKeepsPaid, InitAlone, NextKeepsAlone, PTL DEF Spec, MailSpec, Mailbox!MailSpec

-----------------------------------------------------------------------------
(* Counter: the inductive invariant                                        *)

CounterTyped ==
  /\ with_lock \in BOOLEAN /\ main_pc \in {"create", "join", "report", "error"}
  /\ next \in Threads
  /\ worker_pc \in [Threads -> {"new", "lock", "load", "store", "unlock", "exit"}]
  /\ tasks_left \in [Threads -> 0..NUM_TASKS] /\ progress \in [Threads -> Nat]
  /\ cnt \in Nat /\ lock \in Threads \union {Main}

\* what main has done with a thread, and what a thread has left to do at each place
Progression ==
  /\ \A t \in Threads : main_pc = "create" => (worker_pc[t] = "new" <=> t >= next)
  /\ \A t \in Threads : main_pc # "create" => worker_pc[t] # "new"
  /\ \A t \in Threads : main_pc = "join" /\ t < next => worker_pc[t] = "exit"
  /\ \A t \in Threads : main_pc \in {"report", "error"} => worker_pc[t] = "exit"
  /\ \A t \in Threads : worker_pc[t] = "new" => tasks_left[t] = NUM_TASKS
  /\ \A t \in Threads : worker_pc[t] \in {"lock", "load", "store"} => tasks_left[t] > 0
  /\ \A t \in Threads : worker_pc[t] = "exit" => tasks_left[t] = 0 \/ main_pc = "error"
  /\ \A t \in Threads : worker_pc[t] \in {"lock", "unlock"} => with_lock

\* the mutex is held from the load to the unlock, and cnt is not written meanwhile
Locked ==
  with_lock /\ main_pc # "error" =>
    \A t \in Threads : /\ worker_pc[t] \in {"load", "store", "unlock"} => lock = t
                       /\ worker_pc[t] = "store" => progress[t] = cnt

\* the increments stored so far
Done == {e \in Threads \X (1..NUM_TASKS) : e[2] > tasks_left[e[1]]}

\* none is counted twice, and each counts when there is a mutex
Counted ==
  /\ cnt <= Cardinality(Done)
  /\ with_lock => cnt = Cardinality(Done)
  /\ \A t \in Threads : worker_pc[t] = "store" => progress[t] <= Cardinality(Done)

\* who has stored before loads at least 1 from then on
TwoCount ==
  /\ \A t \in Threads : tasks_left[t] < NUM_TASKS => cnt >= 1
  /\ \A t \in Threads : worker_pc[t] = "store" /\ tasks_left[t] < NUM_TASKS => progress[t] >= 1
  /\ (\A t \in Threads : tasks_left[t] = 0) => cnt >= 2

CounterInv == CounterTyped /\ Progression /\ Locked /\ Counted /\ TwoCount

LEMMA ExerciseConstants == /\ NUM_THREADS \in Nat \ {0, 1} /\ NUM_TASKS \in Nat \ {0, 1}
                       /\ 1 \in Threads /\ NUM_THREADS \in Threads /\ Main \notin Threads
                       /\ Threads \subseteq Nat
  BY CounterAssumption DEF Threads, Main

\* the increments there are to be stored
LEMMA AllOfThem ==
  /\ IsFiniteSet(Threads \X (1..NUM_TASKS))
  /\ Cardinality(Threads \X (1..NUM_TASKS)) = NUM_THREADS * NUM_TASKS
<1>1. IsFiniteSet(Threads) /\ Cardinality(Threads) = NUM_THREADS
  BY ExerciseConstants, FS_Interval DEF Threads
<1>2. IsFiniteSet(1..NUM_TASKS) /\ Cardinality(1..NUM_TASKS) = NUM_TASKS
  BY ExerciseConstants, FS_Interval
<1> QED  BY <1>1, <1>2, FS_Product

LEMMA DoneFinite == IsFiniteSet(Done) /\ Cardinality(Done) \in Nat
                    /\ Cardinality(Done) <= NUM_THREADS * NUM_TASKS
<1>1. Done \subseteq Threads \X (1..NUM_TASKS)
  BY DEF Done
<1> QED  BY <1>1, AllOfThem, FS_Subset, FS_CardinalityType

\* a store adds one increment to those done
LEMMA StoreAddsOne ==
  ASSUME CounterTyped, NEW t \in Threads, Store(t), tasks_left[t] > 0
  PROVE  Cardinality(Done') = Cardinality(Done) + 1
<1> DEFINE new == <<t, tasks_left[t]>>
<1>1. new \in Threads \X (1..NUM_TASKS) /\ new \notin Done
  BY DEF Done, CounterTyped
<1>2. Done' = Done \union {new}
  <2> USE DEF CounterTyped, Store
  <2>1. ASSUME NEW e \in Threads \X (1..NUM_TASKS)
        PROVE  e[2] > tasks_left'[e[1]] <=> (e[2] > tasks_left[e[1]] \/ e = new)
    <3>1. CASE e[1] = t
      BY <3>1
    <3>2. CASE e[1] # t
      BY <3>2
    <3> QED  BY <3>1, <3>2
  <2> QED  BY <2>1, <1>1 DEF Done
<1> QED  BY <1>1, <1>2, DoneFinite, FS_AddElement

LEMMA CounterStarts == CounterInit => CounterInv
<1> SUFFICES ASSUME CounterInit  PROVE CounterInv
  OBVIOUS
<1> USE ExerciseConstants DEF CounterInit
<1>1. CounterTyped /\ Progression /\ Locked
  BY DEF CounterTyped, Progression, Locked, Threads
<1>2. TwoCount
  BY DEF TwoCount
<1>3. Done = {}
  BY DEF Done
<1>4. Counted
  BY <1>3, FS_EmptySet DEF Counted
<1> QED  BY <1>1, <1>2, <1>4 DEF CounterInv

LEMMA CounterKeeps == CounterInv /\ [CounterNext]_counterVars => CounterInv'
<1> SUFFICES ASSUME CounterInv, [CounterNext]_counterVars  PROVE CounterInv'
  OBVIOUS
<1> USE ExerciseConstants, DoneFinite DEF CounterInv
<1>1. ASSUME UNCHANGED <<tasks_left, progress, cnt, with_lock>>,
             \A t \in Threads : worker_pc'[t] = "store" => worker_pc[t] = "store"
      PROVE  Counted' /\ TwoCount'
  <2>1. Done' = Done
    BY <1>1 DEF Done
  <2> QED  BY <1>1, <2>1 DEF Counted, TwoCount
<1>2. CASE Create
  <2>1. worker_pc[next] = "new" /\ tasks_left[next] = NUM_TASKS
    BY <1>2 DEF Create, Progression, CounterTyped
  <2>2. CounterTyped' /\ Progression'
    <3>1. CASE next < NUM_THREADS
      <4>1. next + 1 \in Threads /\ \A t \in Threads : t >= next + 1 <=> t >= next /\ t # next
        BY <3>1 DEF Threads, CounterTyped
      <4> QED  BY <1>2, <2>1, <3>1, <4>1 DEF Create, CounterTyped, Progression, LoopBody
    <3>2. CASE ~(next < NUM_THREADS)
      <4>1. \A t \in Threads : t >= next <=> t = next
        BY <3>2 DEF Threads, CounterTyped
      <4>2. \A t \in Threads : ~(t < 1)
        BY DEF Threads
      <4> QED  BY <1>2, <2>1, <3>2, <4>1, <4>2 DEF Create, CounterTyped, Progression, LoopBody
    <3> QED  BY <3>1, <3>2
  <2>3. Locked'
    BY <1>2, <2>1 DEF Create, CounterTyped, Progression, Locked, LoopBody
  <2>4. \A t \in Threads : worker_pc'[t] = "store" => worker_pc[t] = "store"
    BY <1>2 DEF Create, CounterTyped, LoopBody
  <2> QED  BY <1>1, <1>2, <2>2, <2>3, <2>4 DEF Create
<1>3. CASE CreateFails
  <2>1. CounterTyped' /\ Progression' /\ Locked'
    BY <1>3 DEF CreateFails, CounterTyped, Progression, Locked
  <2>2. \A t \in Threads : worker_pc'[t] # "store"
    BY <1>3 DEF CreateFails
  <2> QED  BY <1>1, <1>3, <2>1, <2>2 DEF CreateFails
<1>4. CASE Join
  <2>1. CounterTyped' /\ Progression' /\ Locked'
    <3>1. CASE next < NUM_THREADS
      <4>1. next + 1 \in Threads /\ \A t \in Threads : t < next + 1 <=> t < next \/ t = next
        BY <3>1 DEF Threads, CounterTyped
      <4> QED  BY <1>4, <3>1, <4>1 DEF Join, CounterTyped, Progression, Locked
    <3>2. CASE ~(next < NUM_THREADS)
      <4>1. \A t \in Threads : t < next \/ t = next
        BY <3>2 DEF Threads, CounterTyped
      <4> QED  BY <1>4, <3>2, <4>1 DEF Join, CounterTyped, Progression, Locked
    <3> QED  BY <3>1, <3>2
  <2> QED  BY <1>1, <1>4, <2>1 DEF Join
<1>5. ASSUME NEW t \in Threads, Lock(t)  PROVE CounterInv'
  <2>1. CounterTyped' /\ Progression' /\ Locked'
    BY <1>5 DEF Lock, WorkerGoto, CounterTyped, Progression, Locked
  <2>2. \A u \in Threads : worker_pc'[u] = "store" => worker_pc[u] = "store"
    BY <1>5 DEF Lock, WorkerGoto, CounterTyped
  <2> QED  BY <1>1, <1>5, <2>1, <2>2 DEF Lock
<1>6. ASSUME NEW t \in Threads, Load(t)  PROVE CounterInv'
  <2>1. CounterTyped' /\ Progression' /\ Locked'
    BY <1>6 DEF Load, WorkerGoto, CounterTyped, Progression, Locked
  <2>2. Done' = Done
    BY <1>6 DEF Load, Done
  <2>3. Counted' /\ TwoCount'
    BY <1>6, <2>2 DEF Load, WorkerGoto, CounterTyped, Counted, TwoCount
  <2> QED  BY <2>1, <2>3
<1>7. ASSUME NEW t \in Threads, Store(t)  PROVE CounterInv'
  <2>1. worker_pc[t] = "store" /\ tasks_left[t] > 0 /\ main_pc \in {"create", "join"}
    BY <1>7 DEF Store, WorkerGoto, CounterTyped, Progression
  <2>2. CounterTyped' /\ Progression'
    BY <1>7, <2>1 DEF Store, WorkerGoto, CounterTyped, Progression
  <2>3. Locked'
    BY <1>7, <2>1 DEF Store, WorkerGoto, CounterTyped, Progression, Locked
  <2>4. Cardinality(Done') = Cardinality(Done) + 1
    BY <1>7, <2>1, StoreAddsOne
  <2>5. Counted'
    <3>1. cnt' = progress[t] + 1 /\ progress[t] \in Nat /\ progress[t] <= Cardinality(Done)
      BY <1>7, <2>1 DEF Store, CounterTyped, Counted
    <3>2. with_lock => progress[t] = Cardinality(Done)
      BY <2>1 DEF Locked, Counted
    <3>3. \A u \in Threads : worker_pc'[u] = "store" => worker_pc[u] = "store"
      BY <1>7 DEF Store, WorkerGoto, CounterTyped
    <3> QED  BY <1>7, <2>4, <3>1, <3>2, <3>3 DEF Store, Counted, CounterTyped
  <2>6. TwoCount'
    <3>1. \A u \in Threads : u # t => tasks_left'[u] = tasks_left[u]
      BY <1>7 DEF Store, CounterTyped
    <3>2. \A u \in Threads : worker_pc'[u] = "store" => u # t /\ worker_pc[u] = "store"
      BY <1>7 DEF Store, WorkerGoto, CounterTyped
    <3>3. tasks_left'[t] = tasks_left[t] - 1 /\ tasks_left[t] \in 1..NUM_TASKS
      BY <1>7, <2>1 DEF Store, CounterTyped
    <3>4. cnt' = progress[t] + 1 /\ progress[t] \in Nat
      BY <1>7 DEF Store, CounterTyped
    <3>5. tasks_left'[t] = 0 => progress[t] >= 1
      BY <2>1, <3>3 DEF TwoCount
    <3> QED  BY <1>7, <3>1, <3>2, <3>3, <3>4, <3>5 DEF Store, TwoCount
  <2> QED  BY <2>2, <2>3, <2>5, <2>6
<1>8. ASSUME NEW t \in Threads, Unlock(t)  PROVE CounterInv'
  <2>1. CounterTyped' /\ Progression' /\ Locked'
    BY <1>8 DEF Unlock, WorkerGoto, CounterTyped, Progression, Locked
  <2>2. \A u \in Threads : worker_pc'[u] = "store" => worker_pc[u] = "store"
    BY <1>8 DEF Unlock, WorkerGoto, CounterTyped
  <2> QED  BY <1>1, <1>8, <2>1, <2>2 DEF Unlock
<1>9. CASE UNCHANGED counterVars
  <2>1. CounterTyped' /\ Progression' /\ Locked'
    BY <1>9 DEF counterVars, CounterTyped, Progression, Locked
  <2> QED  BY <1>1, <1>9, <2>1 DEF counterVars
<1> QED  BY <1>2, <1>3, <1>4, <1>5, <1>6, <1>7, <1>8, <1>9 DEF CounterNext, Worker

\* When main reports, every thread has stored all its increments.
LEMMA CounterInvImplies == CounterInv => CountIsRight
<1> SUFFICES ASSUME CounterInv, main_pc = "report"
             PROVE  /\ with_lock => cnt = NUM_THREADS * NUM_TASKS
                    /\ cnt \in 2..NUM_THREADS * NUM_TASKS
  BY DEF CountIsRight
<1> USE DEF CounterInv
<1>1. \A t \in Threads : tasks_left[t] = 0
  BY DEF Progression, CounterTyped
<1>2. Done = Threads \X (1..NUM_TASKS)
  BY <1>1 DEF Done
<1>3. cnt >= 2
  BY <1>1 DEF TwoCount
<1>4. cnt <= NUM_THREADS * NUM_TASKS /\ (with_lock => cnt = NUM_THREADS * NUM_TASKS)
  BY <1>2, AllOfThem DEF Counted
<1>5. NUM_THREADS * NUM_TASKS \in Nat /\ cnt \in Nat
  BY ExerciseConstants DEF CounterTyped
<1> QED  BY <1>3, <1>4, <1>5

-----------------------------------------------------------------------------
(* Handover: the inductive invariant                                       *)

HandoverTyped ==
  /\ with_cond \in BOOLEAN /\ signalled \in BOOLEAN /\ destroyed \in BOOLEAN
  /\ m_pc \in {"create", "join", "look", "lock", "test", "waiting", "unlock", "destroy",
               "report", "error", "crashed"}
  /\ k_pc \in {"new", "create", "exit", "failed"}
  /\ s_pc \in {"new", "print", "count", "lock", "locked", "signal", "unlock", "exit"}
  /\ mutex \in {"nobody", "main", "subordinate"}
  /\ words_left \in 0..Words /\ spread \in Nat /\ cnt_task \in 0..Words

\* which places belong to which program, and who is created when
Order ==
  /\ m_pc \in {"lock", "test", "waiting", "unlock", "destroy"} => with_cond
  /\ s_pc \in {"lock", "locked", "signal", "unlock"} => with_cond
  /\ s_pc = "count" \/ m_pc = "look" => ~with_cond
  /\ m_pc = "create" => k_pc = "new"
  /\ k_pc # "exit" => s_pc = "new"

\* words printed, words counted and iterations to go
WordCount ==
  /\ words_left = 0 <=> s_pc = "exit"
  /\ spread = IF s_pc \in {"new", "print", "exit"} THEN Words - words_left
                                                 ELSE Words - words_left + 1
  /\ cnt_task = IF s_pc \in {"signal", "unlock"} THEN words_left - 1 ELSE words_left
  /\ s_pc = "signal" => cnt_task = 0

\* the mutex is held exactly where the code holds it
MutexHeld ==
  /\ mutex = "main" <=> m_pc \in {"test", "unlock"}
  /\ mutex = "subordinate" <=> s_pc \in {"locked", "signal", "unlock"}

\* main is past its loop only when cnt_task is 0, and past its own unlock, as it holds
\* the mutex after the subordinate, only when that one has unlocked for the last time
PastTheLoop ==
  /\ m_pc \in {"unlock", "destroy", "report"} => cnt_task = 0
  /\ m_pc \in {"unlock", "destroy"} \/ destroyed => s_pc = "exit"

HandoverInv == HandoverTyped /\ Order /\ WordCount /\ MutexHeld /\ PastTheLoop /\ NoLostWakeup

LEMMA HandoverStarts == HandoverInit => HandoverInv
<1> SUFFICES ASSUME HandoverInit  PROVE HandoverInv
  OBVIOUS
<1> USE HandoverAssumption DEF HandoverInit
<1>1. HandoverTyped /\ Order /\ MutexHeld
  <2>1. signalled \in BOOLEAN /\ destroyed \in BOOLEAN
    BY Zenon
  <2> QED  BY <2>1 DEF HandoverTyped, Order, MutexHeld
<1>2. WordCount /\ PastTheLoop /\ NoLostWakeup
  BY DEF WordCount, PastTheLoop, NoLostWakeup
<1> QED  BY <1>1, <1>2 DEF HandoverInv

LEMMA HandoverKeeps == HandoverInv /\ [HandoverNext]_handoverVars => HandoverInv'
<1> SUFFICES ASSUME HandoverInv, [HandoverNext]_handoverVars  PROVE HandoverInv'
  OBVIOUS
<1> USE HandoverAssumption
    DEF HandoverInv, HandoverTyped, Order, WordCount, MutexHeld, PastTheLoop, NoLostWakeup
<1>1. CASE KingCreates
  BY <1>1 DEF KingCreates
<1>2. CASE KingCannotCreate
  BY <1>2 DEF KingCannotCreate, subordinateVars
<1>3. CASE PrintWord
  BY <1>3 DEF PrintWord
<1>4. CASE CountAtomically
  BY <1>4 DEF CountAtomically, AfterWord
<1>5. CASE SubordinateLocks
  BY <1>5 DEF SubordinateLocks
<1>6. CASE CountLocked
  BY <1>6 DEF CountLocked
<1>7. CASE Signal
  BY <1>7 DEF Signal
<1>8. CASE SubordinateUnlocks
  BY <1>8 DEF SubordinateUnlocks, AfterWord
<1>9. CASE MainCreates \/ MainJoins
  BY <1>9 DEF MainCreates, MainJoins, MainOnly, subordinateVars
<1>10. CASE Look
  BY <1>10 DEF Look, MainOnly, subordinateVars
<1>11. CASE MainLocks
  BY <1>11 DEF MainLocks, MainOnly, subordinateVars
<1>12. CASE Test
  BY <1>12 DEF Test, MainOnly, subordinateVars
<1>13. CASE Wake
  BY <1>13 DEF Wake, MainOnly, subordinateVars
<1>14. CASE MainUnlocks \/ MainDestroys
  BY <1>14 DEF MainUnlocks, MainDestroys, MainOnly, subordinateVars
<1>15. CASE UNCHANGED handoverVars
  BY <1>15 DEF handoverVars
<1> QED  BY <1>1, <1>2, <1>3, <1>4, <1>5, <1>6, <1>7, <1>8, <1>9, <1>10, <1>11, <1>12, <1>13,
            <1>14, <1>15 DEF HandoverNext, MainStep, Subordinate

\* cnt_task is 0 and the subordinate does not hold the mutex any more, or it has
\* decremented for the last time: all words are out in either case.
LEMMA HandoverInvImplies == HandoverInv => ReportsWhenDone /\ NoLostWakeup
  BY HandoverAssumption DEF HandoverInv, HandoverTyped, WordCount, PastTheLoop, ReportsWhenDone

-----------------------------------------------------------------------------
(* The two groups side by side                                             *)

LEMMA ExerciseInvariance == ExerciseSpec => [](CounterInv /\ HandoverInv)
<1>1. ExerciseInit => CounterInv /\ HandoverInv
  BY CounterStarts, HandoverStarts DEF ExerciseInit
<1>2. CounterInv /\ HandoverInv /\ [ExerciseNext]_exerciseVars => (CounterInv /\ HandoverInv)'
  <2>1. [ExerciseNext]_exerciseVars => [CounterNext]_counterVars /\ [HandoverNext]_handoverVars
    BY DEF ExerciseNext, CounterStep, HandoverStep, exerciseVars
  <2> QED  BY <2>1, CounterKeeps, HandoverKeeps
<1> QED  BY <1>1, <1>2, PTL DEF ExerciseSpec

\* For any number of threads and tasks: with the mutex main of thread_04.c reports every
\* increment; without it main of thread_03.c reports two of them at least, and never
\* more than there are.
THEOREM EveryIncrementOrTwo == ExerciseSpec => []CountIsRight
  BY ExerciseInvariance, CounterInvImplies, PTL

\* For any number of words: main of thread_05.c and thread_06.c reports, and destroys the
\* mutex and the condition variable, only when all words are out and nobody is left to
\* use them.
THEOREM NeverTooEarly == ExerciseSpec => []ReportsWhenDone
  BY ExerciseInvariance, HandoverInvImplies, PTL

\* For any number of words and of wake-ups without a signal: main of thread_06.c never
\* sleeps with no signal and no word to come.
THEOREM NeverLeftAsleep == ExerciseSpec => []NoLostWakeup
  BY ExerciseInvariance, HandoverInvImplies, PTL

=============================================================================
