---------------------------- MODULE BarrierRounds ----------------------------
(* What the reusable barrier of kernel/barrier.h promises: threads leave   *)
(* in groups of Count, all of a group after the last of it has come.       *)
EXTENDS FiniteSets, Naturals

CONSTANTS Threads, Count

VARIABLES
  arrived,  \* the threads of the group that is not complete yet
  released  \* the threads that may leave

vars == <<arrived, released>>

Init == arrived = {} /\ released = {}

Come(t) ==
  /\ t \notin arrived \cup released
  /\ IF Cardinality(arrived) + 1 = Count
       THEN arrived' = {} /\ released' = released \cup arrived \cup {t}
       ELSE arrived' = arrived \cup {t} /\ UNCHANGED released

Leave(t) ==
  /\ t \in released
  /\ released' = released \ {t}
  /\ UNCHANGED arrived

Next == \E t \in Threads : Come(t) \/ Leave(t)

Spec == Init /\ [][Next]_vars

=============================================================================
