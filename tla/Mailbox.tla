------------------------------- MODULE Mailbox -------------------------------
(***************************************************************************)
(* What the shared buffer of lab5 assignment 1 is meant to be: a mailbox   *)
(* with room for one message.  A message is named by the producer that     *)
(* sends it (each sends one); it is accepted only when the slot is free,   *)
(* and stays there, whole, until it is taken, once.  A consumer that is    *)
(* run again clears the slot.                                              *)
(***************************************************************************)
EXTENDS Integers

CONSTANT Producers        \* process ids, none of them 0

NoMessage == 0

VARIABLES slot, accepted, delivered, restarted
mailVars == <<slot, accepted, delivered, restarted>>

MailInit == slot = NoMessage /\ accepted = {} /\ delivered = {} /\ restarted = FALSE

Put(p) == /\ slot = NoMessage /\ p \notin accepted
          /\ slot' = p /\ accepted' = accepted \union {p}
          /\ UNCHANGED <<delivered, restarted>>

Take == /\ slot # NoMessage
        /\ slot' = NoMessage /\ delivered' = delivered \union {slot}
        /\ UNCHANGED <<accepted, restarted>>

ConsumerRunAgain == restarted' = TRUE /\ UNCHANGED <<slot, accepted, delivered>>

Lose == /\ restarted
        /\ slot' = NoMessage /\ UNCHANGED <<accepted, delivered, restarted>>

MailNext == Take \/ ConsumerRunAgain \/ Lose \/ \E p \in Producers : Put(p)

MailSpec == MailInit /\ [][MailNext]_mailVars
=============================================================================
