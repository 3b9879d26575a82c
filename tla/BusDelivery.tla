---------------------------- MODULE BusDelivery ----------------------------
(* What the event bus promises a consumer, with no worker, batch, retry,      *)
(* crash or retention in sight: one growing log, and for every member the     *)
(* place it joined, the events it was given and the last one confirmed.       *)
(* docs/engineering/event-bus-consumers.md, "Delivery": each consumer reads   *)
(* after its own cursor, one event at a time, in journal order.               *)
EXTENDS Integers

CONSTANT Consumers

VARIABLES log, members, from, given, confirmed

vars == <<log, members, from, given, confirmed>>

Init ==
  /\ log = 0
  /\ members = {}
  /\ from = [c \in Consumers |-> 0]
  /\ given = [c \in Consumers |-> {}]
  /\ confirmed = [c \in Consumers |-> 0]

Accept ==
  /\ log' = log + 1
  /\ UNCHANGED <<members, from, given, confirmed>>

\* A new member joins at the end of the log; one that left is forgotten.
Enrol(reg) ==
  /\ members' = reg
  /\ from' = [c \in Consumers |-> IF c \in reg \ members THEN log ELSE from[c]]
  /\ given' = [c \in Consumers |-> IF c \in reg \ members THEN {} ELSE given[c]]
  /\ confirmed' = [c \in Consumers |->
                     IF c \in reg \ members THEN log ELSE IF c \in reg THEN confirmed[c] ELSE 0]
  /\ UNCHANGED log

\* The event after the last confirmed one; giving it again changes nothing.
Give(c) ==
  /\ c \in members
  /\ confirmed[c] < log
  /\ given' = [given EXCEPT ![c] = @ \cup {confirmed[c] + 1}]
  /\ UNCHANGED <<log, members, from, confirmed>>

Confirm(c) ==
  /\ c \in members
  /\ confirmed[c] + 1 \in given[c]
  /\ confirmed' = [confirmed EXCEPT ![c] = @ + 1]
  /\ UNCHANGED <<log, members, from, given>>

\* A configuration restore writes off everything up to some point of the log.
WriteOff(c, last) ==
  /\ c \in members
  /\ given' = [given EXCEPT ![c] = @ \cup (confirmed[c] + 1 .. last)]
  /\ confirmed' = [confirmed EXCEPT ![c] = last]
  /\ UNCHANGED <<log, members, from>>

Next ==
  \/ Accept
  \/ \E reg \in SUBSET Consumers : Enrol(reg)
  \/ \E c \in Consumers :
       \/ Give(c)
       \/ Confirm(c)
       \/ \E last \in confirmed[c] + 1 .. log : WriteOff(c, last)

Spec == Init /\ [][Next]_vars
=============================================================================
