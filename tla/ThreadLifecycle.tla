--------------------------- MODULE ThreadLifecycle ---------------------------
(***************************************************************************)
(* What the thread module of kernel/threads.h promises to the rest of the  *)
(* kernel, without save areas, interrupt flags or preemption guards: which *)
(* threads exist, which of them each core serves, and that the threads     *)
(* that want a core are served first come, first served.                   *)
(*                                                                         *)
(* The idle thread of a core is the core itself.  It is never queued.      *)
(***************************************************************************)
EXTENDS Sequences

CONSTANTS Cores, Reaper, Workers, None

VARIABLES
  live,     \* the workers that exist, from new to delete
  ready,    \* the threads that want a core, in order
  waiting,  \* the threads that wait for somebody to wake them
  exited,   \* the threads that called stop() and are not deleted yet
  on,       \* the thread that each core serves
  chosen    \* the thread that a core is about to serve, or None

vars == <<live, ready, waiting, exited, on, chosen>>

Init ==
  /\ live = {}
  /\ ready = <<Reaper>>
  /\ waiting = {}
  /\ exited = {}
  /\ on = [c \in Cores |-> c]
  /\ chosen = [c \in Cores |-> None]

Create(w) ==
  /\ w \in Workers \ live
  /\ live' = live \cup {w}
  /\ ready' = Append(ready, w)
  /\ UNCHANGED <<waiting, exited, on, chosen>>

Delete(w) ==
  /\ w \in exited
  /\ live' = live \ {w}
  /\ exited' = exited \ {w}
  /\ UNCHANGED <<ready, waiting, on, chosen>>

Wake(w) ==
  /\ w \in waiting
  /\ waiting' = waiting \ {w}
  /\ ready' = Append(ready, w)
  /\ UNCHANGED <<live, exited, on, chosen>>

Choose(c) ==
  /\ chosen[c] = None
  /\ ready # <<>>
  /\ chosen' = [chosen EXCEPT ![c] = Head(ready)]
  /\ ready' = Tail(ready)
  /\ UNCHANGED <<live, waiting, exited, on>>

(* A core serves its idle thread only when nobody wants it.                *)
ChooseIdle(c) ==
  /\ chosen[c] = None
  /\ ready = <<>>
  /\ on[c] # c
  /\ chosen' = [chosen EXCEPT ![c] = c]
  /\ UNCHANGED <<live, ready, waiting, exited, on>>

(* The core turns to the thread it chose.  The one it served goes back to  *)
(* the end of the queue, waits, or is done.                                *)
Turn(c) ==
  /\ chosen[c] # None
  /\ on' = [on EXCEPT ![c] = chosen[c]]
  /\ chosen' = [chosen EXCEPT ![c] = None]
  /\ \/ on[c] = c /\ UNCHANGED <<ready, waiting, exited>>
     \/ on[c] # c /\ ready' = Append(ready, on[c]) /\ UNCHANGED <<waiting, exited>>
     \/ on[c] \in Workers /\ waiting' = waiting \cup {on[c]} /\ UNCHANGED <<ready, exited>>
     \/ on[c] \in Workers /\ exited' = exited \cup {on[c]} /\ UNCHANGED <<ready, waiting>>
  /\ UNCHANGED live

Next ==
  \/ \E w \in Workers : Create(w) \/ Delete(w) \/ Wake(w)
  \/ \E c \in Cores : Choose(c) \/ ChooseIdle(c) \/ Turn(c)

Spec == Init /\ [][Next]_vars

=============================================================================
