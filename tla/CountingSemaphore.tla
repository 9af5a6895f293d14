-------------------------- MODULE CountingSemaphore --------------------------
(* What a semaphore of kernel/semaphore.h promises its callers: a number   *)
(* of permits, which up() adds to and down() takes from once there is one. *)
EXTENDS Naturals

CONSTANTS Threads, Initial

VARIABLES
  value,   \* the permits that are there
  holders  \* the threads that took one and have not given it back

vars == <<value, holders>>

Init == value = Initial /\ holders = {}

Down(t) ==
  /\ t \notin holders
  /\ value > 0
  /\ value' = value - 1
  /\ holders' = holders \cup {t}

(* A thread may also add a permit that it never took.                      *)
Up(t) ==
  /\ value' = value + 1
  /\ holders' = holders \ {t}

Next == \E t \in Threads : Down(t) \/ Up(t)

Spec == Init /\ [][Next]_vars

=============================================================================
