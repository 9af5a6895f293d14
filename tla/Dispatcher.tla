----------------------------- MODULE Dispatcher -----------------------------
(***************************************************************************)
(* The scheduler as a synchronisation object sees it: threads that share a *)
(* few cores and a ready queue, are preempted wherever interrupts are on,  *)
(* and leave a core with a handler that runs on the next thread's stack.   *)
(*                                                                         *)
(* Threads.tla has the steps of block() and shows that nothing comes       *)
(* between them; here a switch is the choice of the next thread, the       *)
(* handler, and the popf.  Modules that extend this one add the steps of   *)
(* the threads and of their handlers.                                      *)
(***************************************************************************)
EXTENDS Naturals, Sequences, FiniteSets

CONSTANTS
  Cores, Threads,
  None  \* nullptr; as a core's thread, its idle thread

VARIABLES
  readyQ,
  on,      \* per core, the thread whose stack it is on
  phase,   \* per core: runs the thread, a step of the handler, or is before popf
  source,  \* per core, the thread that the handler is about
  IF_,     \* per core, EFLAGS.IF
  flags,   \* per thread, EFLAGS.IF on its stack while it is off its core
  pc       \* per thread, the step it is at

cores == <<on, phase, source>>
sched == <<readyQ, cores, IF_, flags, pc>>

SchedTypeOK(phases, steps) ==
  /\ readyQ \in Seq(Threads)
  /\ on \in [Cores -> Threads \cup {None}]
  /\ phase \in [Cores -> {"run", "popf"} \cup phases]
  /\ source \in [Cores -> Threads \cup {None}]
  /\ IF_ \in [Cores -> BOOLEAN]
  /\ flags \in [Threads -> BOOLEAN]
  /\ pc \in [Threads -> steps]

(* All threads are about to be dispatched for the first time.              *)
SchedInit ==
  /\ \E q \in [1..Cardinality(Threads) -> Threads] :
       {q[i] : i \in DOMAIN q} = Threads /\ readyQ = q
  /\ on = [c \in Cores |-> None]
  /\ phase = [c \in Cores |-> "run"]
  /\ source = [c \in Cores |-> None]
  /\ IF_ = [c \in Cores |-> TRUE]
  /\ flags = [t \in Threads |-> TRUE]
  /\ pc = [t \in Threads |-> "out"]

-----------------------------------------------------------------------------

(* In the actions t is the thread that core c is on.                       *)
At(c, t, step) == t # None /\ phase[c] = "run" /\ pc[t] = step
GoTo(t, step) == pc' = [pc EXCEPT ![t] = step]
SetIF(c, b) == IF_' = [IF_ EXCEPT ![c] = b]

(* schedule(tcb) for a thread that is not idle.                            *)
schedule(t) == readyQ' = Append(readyQ, t)

(* The thread leaves its core to the head of the ready queue or to the     *)
(* idle thread.                                                            *)
SwitchFrom(c, t) ==
  /\ flags' = [flags EXCEPT ![t] = IF_[c]]
  /\ on' = [on EXCEPT ![c] = IF readyQ = <<>> THEN None ELSE Head(readyQ)]
  /\ SetIF(c, FALSE)

(* block() with a handler of its own; the thread goes on at the step back. *)
block(c, t, back) ==
  /\ SwitchFrom(c, t)
  /\ readyQ' = IF readyQ = <<>> THEN <<>> ELSE Tail(readyQ)
  /\ phase' = [phase EXCEPT ![c] = "handler"]
  /\ source' = [source EXCEPT ![c] = t]
  /\ GoTo(t, back)

(* The end of a handler.                                                   *)
HandlerReturns(c) ==
  /\ phase' = [phase EXCEPT ![c] = "popf"]
  /\ source' = [source EXCEPT ![c] = None]

(* The core is back in the thread that it turned to; an idle thread runs   *)
(* with interrupts on.                                                     *)
Popf(c, t) ==
  /\ phase[c] = "popf"
  /\ phase' = [phase EXCEPT ![c] = "run"]
  /\ SetIF(c, t = None \/ flags[t])
  /\ flags' = [u \in Threads |-> u = t \/ flags[u]]
  /\ UNCHANGED <<readyQ, on, source, pc>>

(* An idle core takes the head of the ready queue.                         *)
Dispatch(c, t) ==
  /\ t = None /\ phase[c] = "run"
  /\ readyQ # <<>>
  /\ on' = [on EXCEPT ![c] = Head(readyQ)]
  /\ readyQ' = Tail(readyQ)
  /\ SetIF(c, FALSE)
  /\ phase' = [phase EXCEPT ![c] = "popf"]
  /\ UNCHANGED <<source, flags, pc>>

(* yield() with somebody in the queue: at a timer interrupt, or because    *)
(* the thread's own code waits for something else for a while.             *)
GoToEnd(c, t) ==
  /\ readyQ # <<>>
  /\ SwitchFrom(c, t)
  /\ readyQ' = Append(Tail(readyQ), t)
  /\ phase' = [phase EXCEPT ![c] = "popf"]
  /\ UNCHANGED <<source, pc>>

Preempt(c, t) == t # None /\ phase[c] = "run" /\ IF_[c] /\ GoToEnd(c, t)
Rest(c, t) == At(c, t, "out") /\ GoToEnd(c, t)

-----------------------------------------------------------------------------

(* The places where a thread is known, apart from the queue or the local   *)
(* variable that a synchronisation object has for it.                      *)
SchedPlaces(t) ==
  {<<"ready", i>> : i \in {j \in DOMAIN readyQ : readyQ[j] = t}}
    \cup {<<"on", c>> : c \in {d \in Cores : on[d] = t}}
    \cup {<<"source", c>> : c \in {d \in Cores : source[d] = t}}

Queued(t, q) == {<<"wait", i>> : i \in {j \in DOMAIN q : q[j] = t}}

=============================================================================
