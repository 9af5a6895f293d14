------------------------------- MODULE Threads -------------------------------
(***************************************************************************)
(* Threads, the scheduler and the context switch: kernel/threads.h,        *)
(* threads.cc, context.s, the timer handler of pit.cc and the end of       *)
(* kernelInit.                                                             *)
(*                                                                         *)
(* A thread leaves a core by calling block(), from its own code (yield,    *)
(* stop, or the wait of a semaphore or a condition) or from the timer      *)
(* handler, which runs on its stack.  block() takes the next thread from   *)
(* the ready queue, switches to that thread's stack and only there gives   *)
(* the previous thread away, so that no other core can pick up a stack     *)
(* that is still in use.  While block() is under way, no_preempt keeps the *)
(* timer from starting a second one on the same stack.                     *)
(*                                                                         *)
(* The queues are atomic here: InterruptSafeLock is why.  The idle thread  *)
(* of a core is the core itself (idleThreads[c] = c).  A worker is the     *)
(* heap block of a TCBImpl; it is used again after the TCB in it was       *)
(* deleted.                                                                *)
(***************************************************************************)
EXTENDS Naturals, Sequences, FiniteSets

CONSTANTS
  Cores,    \* kConfig.totalProcs cores
  Reaper,   \* the thread that threadsInit makes
  Workers,  \* BOUND: heap blocks for all other threads
  None      \* nullptr

ASSUME ThreadsAssumption ==
  /\ IsFiniteSet(Cores) /\ IsFiniteSet(Workers)
  /\ Cores \cap Workers = {}
  /\ Reaper \notin Cores \cup Workers
  /\ None \notin Cores \cup Workers \cup {Reaper}

Threads_ == Cores \cup Workers \cup {Reaper}

VARIABLES
  readyQ, zombies,  \* the queues of threads.cc
  parked,           \* the threads in the queues of semaphores and conditions
  tcbs,             \* the workers that hold a TCB
  arrived,          \* howManyAreHere
  activeThreads,    \* per core, who the rest of the kernel thinks is running
  stack,            \* per core, whose stack %esp points into
  source,           \* per core, the TCB that the switch handler has yet to see
  IF_,              \* per core, EFLAGS.IF
  pc,               \* per thread, the step it is at or will go on from
  call,             \* per thread, why it is in block()
  ret,              \* per thread, where block() returns to
  locals,           \* per thread, core_id, me and next_tcb of block()
  no_preempt,       \* per thread, saveArea.no_preempt
  flags,            \* per thread, the EFLAGS.IF that pushf left on its stack
  it                \* per thread, the local of delete_zombies

queues == <<readyQ, zombies, parked>>
switching == <<activeThreads, stack, source>>
blocking == <<call, ret, locals>>
vars == <<queues, tcbs, arrived, switching, IF_, pc, blocking, no_preempt, flags, it>>

(* A thread's own code, as far as the scheduler sees it: a loop of         *)
(* delete_zombies and what comes before and after it.                      *)
OwnCode == {"boot", "work", "clean", "delete", "create"}
InBlock == {"remove", "claim", "activate", "switch"}

Calls == {"start", "yield", "tick", "wait", "stop"}
CanReturn == {"yield", "tick"}

Locals == [core_id : Cores \cup {None}, me : Threads_ \cup {None},
           next_tcb : Threads_ \cup {None}]
NoLocals == [core_id |-> None, me |-> None, next_tcb |-> None]

TypeOK ==
  /\ readyQ \in Seq(Workers \cup {Reaper})
  /\ zombies \in Seq(Workers)
  /\ parked \in SUBSET Workers
  /\ tcbs \in SUBSET Workers
  /\ arrived \in 0..Cardinality(Cores)
  /\ activeThreads \in [Cores -> Threads_]
  /\ stack \in [Cores -> Threads_]
  /\ source \in [Cores -> Threads_ \cup {None}]
  /\ IF_ \in [Cores -> BOOLEAN]
  /\ pc \in [Threads_ -> OwnCode \cup InBlock \cup {"resume"}]
  /\ call \in [Threads_ -> Calls]
  /\ ret \in [Threads_ -> OwnCode]
  /\ locals \in [Threads_ -> Locals]
  /\ no_preempt \in [Threads_ -> BOOLEAN]
  /\ flags \in [Threads_ -> BOOLEAN]
  /\ it \in [Threads_ -> Workers \cup {None}]

(* threadsInit has run, and every core is about to say that it is here.    *)
Init ==
  /\ readyQ = <<Reaper>>
  /\ zombies = <<>>
  /\ parked = {}
  /\ tcbs = {}
  /\ arrived = 0
  /\ activeThreads = [c \in Cores |-> c]
  /\ stack = [c \in Cores |-> c]
  /\ source = [c \in Cores |-> None]
  /\ IF_ = [c \in Cores |-> TRUE]
  /\ pc = [t \in Threads_ |-> IF t \in Cores THEN "boot" ELSE "resume"]
  /\ call = [t \in Threads_ |-> "start"]
  /\ ret = [t \in Threads_ |-> IF t = Reaper THEN "clean" ELSE "work"]
  /\ locals = [t \in Threads_ |-> NoLocals]
  /\ no_preempt = [t \in Threads_ |-> FALSE]
  /\ flags = [t \in Threads_ |-> TRUE]
  /\ it = [t \in Threads_ |-> None]

-----------------------------------------------------------------------------

isIdle(t) == t \in Cores

(* In the actions t is the thread whose stack core c is on.  It executes   *)
(* this step, with no switch handler pending.                              *)
At(c, t, step) == source[c] = None /\ pc[t] = step

GoTo(t, step) == pc' = [pc EXCEPT ![t] = step]
SetIF(c, b) == IF_' = [IF_ EXCEPT ![c] = b]

(* Fault: a thread goes to the front of the queue.                         *)
ReadyFirst(t) == readyQ' = <<t>> \o readyQ

Ready(t) == readyQ' = Append(readyQ, t)

(* schedule(tcb): idle threads are not queued.                             *)
schedule(t) == IF isIdle(t) THEN UNCHANGED readyQ ELSE Ready(t)

(* Entering block(): with interrupts off for a moment, the thread notes    *)
(* its core and its TCB and forbids preemption.                            *)
Enter(c, t, why, back) ==
  LET me == activeThreads[c] IN
  /\ locals' = [locals EXCEPT ![t] = [core_id |-> c, me |-> me, next_tcb |-> None]]
  /\ no_preempt' = [no_preempt EXCEPT ![me] = TRUE]
  /\ call' = [call EXCEPT ![t] = why]
  /\ ret' = [ret EXCEPT ![t] = back]
  /\ GoTo(t, "remove")
  /\ UNCHANGED <<queues, tcbs, arrived, switching, flags, it>>

(* The end of kernelInit: the last core to arrive makes the first thread,  *)
(* and every core then calls stop() as its idle thread.                    *)
Arrive(c, t) ==
  /\ At(c, t, "boot")
  /\ arrived' = arrived + 1
  /\ GoTo(t, IF arrived + 1 = Cardinality(Cores) THEN "clean" ELSE "work")
  /\ UNCHANGED <<queues, tcbs, switching, IF_, blocking, no_preempt, flags, it>>

(* The reaper's loop yields when no zombie is left.                        *)
Yield(c, t) ==
  /\ At(c, t, "work") /\ t = Reaper
  /\ Enter(c, t, "yield", "clean")
  /\ UNCHANGED IF_

(* entry() ends in stop(), and so does an idle thread's every turn.        *)
Stop(c, t) ==
  /\ At(c, t, "work") /\ t # Reaper
  /\ Enter(c, t, "stop", "work")
  /\ UNCHANGED IF_

IdleStop(c, t) == isIdle(t) /\ Stop(c, t)

(* A semaphore calls block() with its lock held and interrupts off, a      *)
(* condition with interrupts on.                                           *)
Wait(c, t) ==
  /\ At(c, t, "work") /\ t \in Workers
  /\ Enter(c, t, "wait", "work")
  /\ \E b \in BOOLEAN : SetIF(c, b)

(* apitHandler, on the stack that the core is on.                          *)
Timer(c, t) ==
  /\ IF_[c]
  /\ ~isIdle(activeThreads[c]) /\ ~no_preempt[activeThreads[c]]
  /\ SetIF(c, FALSE)
  /\ Enter(c, t, "tick", pc[t])

Wake(c, t) ==
  /\ At(c, t, "work") /\ t \in Workers
  /\ \E w \in parked : parked' = parked \ {w} /\ Ready(w)
  /\ UNCHANGED <<zombies, tcbs, arrived, switching, IF_, pc, blocking, no_preempt,
                 flags, it>>

-----------------------------------------------------------------------------

(* block() is left for where it was called.                                *)
Return(t) == GoTo(t, ret[t]) /\ ret' = [ret EXCEPT ![t] = "work"]

SetNext(t, n) == locals' = [locals EXCEPT ![t].next_tcb = n]

(* Fault: a queue with one element counts as empty.                        *)
DequeueButLast(c, t) ==
  /\ At(c, t, "remove")
  /\ Len(readyQ) > 1
  /\ SetNext(t, Head(readyQ))
  /\ readyQ' = Tail(readyQ)
  /\ GoTo(t, "claim")
  /\ UNCHANGED <<zombies, parked, tcbs, arrived, switching, IF_, call, ret,
                 no_preempt, flags, it>>

Dequeue(c, t) ==
  /\ At(c, t, "remove")
  /\ readyQ # <<>>
  /\ SetNext(t, Head(readyQ))
  /\ readyQ' = Tail(readyQ)
  /\ GoTo(t, "claim")
  /\ UNCHANGED <<zombies, parked, tcbs, arrived, switching, IF_, call, ret,
                 no_preempt, flags, it>>

(* Nobody else wants the core: a yield returns, without clearing           *)
(* no_preempt; the timer's goes on to iret.                                *)
ReturnAtOnce(c, t) ==
  /\ At(c, t, "remove")
  /\ readyQ = <<>> /\ call[t] \in CanReturn
  /\ locals' = [locals EXCEPT ![t] = NoLocals]
  /\ Return(t)
  /\ SetIF(c, IF_[c] \/ call[t] = "tick")
  /\ UNCHANGED <<queues, tcbs, arrived, switching, call, no_preempt, flags, it>>

(* Fault: without a next thread there is no idle thread to turn to.        *)
FallBackToNull(c, t) ==
  /\ At(c, t, "remove")
  /\ readyQ = <<>> /\ call[t] \notin CanReturn /\ ~isIdle(locals[t].me)
  /\ SetNext(t, None)
  /\ GoTo(t, "claim")
  /\ UNCHANGED <<queues, tcbs, arrived, switching, IF_, call, ret, no_preempt, flags, it>>

(* Fault: any idle thread will do.                                         *)
FallBackToAnyIdle(c, t) ==
  /\ At(c, t, "remove")
  /\ readyQ = <<>> /\ call[t] \notin CanReturn /\ ~isIdle(locals[t].me)
  /\ \E d \in Cores : SetNext(t, d)
  /\ GoTo(t, "claim")
  /\ UNCHANGED <<queues, tcbs, arrived, switching, IF_, call, ret, no_preempt, flags, it>>

(* An idle thread looks again instead, which changes nothing.              *)
FallBackToIdle(c, t) ==
  /\ At(c, t, "remove")
  /\ readyQ = <<>> /\ call[t] \notin CanReturn /\ ~isIdle(locals[t].me)
  /\ SetNext(t, locals[t].core_id)
  /\ GoTo(t, "claim")
  /\ UNCHANGED <<queues, tcbs, arrived, switching, IF_, call, ret, no_preempt, flags, it>>

(* Fault: the next thread is not protected before it is called active.     *)
ClaimNothing(c, t) ==
  /\ At(c, t, "claim")
  /\ GoTo(t, "activate")
  /\ UNCHANGED <<queues, tcbs, arrived, switching, IF_, blocking, no_preempt, flags, it>>

Claim(c, t) ==
  /\ At(c, t, "claim")
  /\ no_preempt' = [no_preempt EXCEPT ![locals[t].next_tcb] = TRUE]
  /\ GoTo(t, "activate")
  /\ UNCHANGED <<queues, tcbs, arrived, switching, IF_, blocking, flags, it>>

(* Fault: a yielding thread is queued while its stack is in use.           *)
ActivateAndSchedule(c, t) ==
  /\ At(c, t, "activate")
  /\ activeThreads' = [activeThreads EXCEPT ![locals[t].core_id] = locals[t].next_tcb]
  /\ GoTo(t, "switch")
  /\ IF call[t] \in CanReturn THEN schedule(locals[t].me) ELSE UNCHANGED readyQ
  /\ UNCHANGED <<zombies, parked, tcbs, arrived, stack, source, IF_, blocking,
                 no_preempt, flags, it>>

Activate(c, t) ==
  /\ At(c, t, "activate")
  /\ activeThreads' = [activeThreads EXCEPT ![locals[t].core_id] = locals[t].next_tcb]
  /\ GoTo(t, "switch")
  /\ UNCHANGED <<queues, tcbs, arrived, stack, source, IF_, blocking, no_preempt,
                 flags, it>>

(* gheith_contextSwitch up to the call of the handler.  The locals of      *)
(* block() are dead from here on.                                          *)
Switch(c, t) ==
  LET me == locals[t].me
      next_tcb == locals[t].next_tcb IN
  /\ At(c, t, "switch")
  /\ flags' = [flags EXCEPT ![me] = IF_[c]]
  /\ SetIF(c, FALSE)
  /\ no_preempt' = [no_preempt EXCEPT ![me] = FALSE, ![next_tcb] = FALSE]
  /\ stack' = [stack EXCEPT ![c] = next_tcb]
  /\ source' = [source EXCEPT ![c] = me]
  /\ locals' = [locals EXCEPT ![t] = NoLocals]
  /\ GoTo(t, "resume")
  /\ UNCHANGED <<queues, tcbs, arrived, activeThreads, call, ret, it>>

(* The handler, on the target's stack: the lambdas of yield and stop, and  *)
(* those of the semaphore (park) and the condition (park, or schedule if   *)
(* there was a notification in the meantime).                              *)
Handler(c) ==
  LET me == source[c] IN
  /\ me # None
  /\ \/ /\ call[me] \in CanReturn
        /\ schedule(me)
        /\ UNCHANGED <<zombies, parked>>
     \/ /\ call[me] = "stop"
        /\ zombies' = IF isIdle(me) THEN zombies ELSE Append(zombies, me)
        /\ UNCHANGED <<readyQ, parked>>
     \/ /\ call[me] = "wait"
        /\ parked' = parked \cup {me}
        /\ UNCHANGED <<readyQ, zombies>>
     \/ /\ call[me] = "wait"
        /\ schedule(me)
        /\ UNCHANGED <<zombies, parked>>
  /\ source' = [source EXCEPT ![c] = None]
  /\ UNCHANGED <<tcbs, arrived, activeThreads, stack, IF_, pc, blocking, no_preempt,
                 flags, it>>

(* Fault: after a wait interrupts stay as they were when it began.         *)
ResumeWithSavedFlags(c, t) ==
  /\ At(c, t, "resume")
  /\ SetIF(c, flags[t])
  /\ Return(t)
  /\ UNCHANGED <<queues, tcbs, arrived, switching, call, locals, no_preempt, flags, it>>

(* popf and the way back to the caller of block(), which after a timer     *)
(* interrupt is an iret and in a semaphore an sti.                         *)
Resume(c, t) ==
  /\ At(c, t, "resume")
  /\ SetIF(c, flags[t] \/ call[t] \in {"tick", "wait"})
  /\ Return(t)
  /\ UNCHANGED <<queues, tcbs, arrived, switching, call, locals, no_preempt, flags, it>>

-----------------------------------------------------------------------------

(* The workers in the middle of thread(), preempted there or not.          *)
Spawning == {u \in tcbs : {pc[u], ret[u]} \cap {"clean", "delete", "create"} # {}}

(* BOUND: a thread calls thread() when a block is free for the new TCB.    *)
Spawn(c, t) ==
  /\ At(c, t, "work") /\ t \in Workers
  /\ Cardinality(tcbs) + Cardinality(Spawning) < Cardinality(Workers)
  /\ GoTo(t, "clean")
  /\ UNCHANGED <<queues, tcbs, arrived, switching, IF_, blocking, no_preempt, flags, it>>

(* Fault: the queue is emptied and the TCBs are forgotten.                 *)
RemoveAndForget(c, t) ==
  /\ At(c, t, "clean")
  /\ zombies # <<>>
  /\ zombies' = Tail(zombies)
  /\ UNCHANGED <<readyQ, parked, tcbs, arrived, switching, IF_, pc, blocking, no_preempt,
                 flags, it>>

(* delete_zombies, in thread() and in the reaper.                          *)
RemoveZombie(c, t) ==
  /\ At(c, t, "clean")
  /\ zombies # <<>>
  /\ it' = [it EXCEPT ![t] = Head(zombies)]
  /\ zombies' = Tail(zombies)
  /\ GoTo(t, "delete")
  /\ UNCHANGED <<readyQ, parked, tcbs, arrived, switching, IF_, blocking, no_preempt,
                 flags>>

NoZombie(c, t) ==
  /\ At(c, t, "clean")
  /\ zombies = <<>>
  /\ GoTo(t, IF t = Reaper THEN "work" ELSE "create")
  /\ UNCHANGED <<queues, tcbs, arrived, switching, IF_, blocking, no_preempt, flags, it>>

Delete(c, t) ==
  /\ At(c, t, "delete")
  /\ tcbs' = tcbs \ {it[t]}
  /\ it' = [it EXCEPT ![t] = None]
  /\ GoTo(t, "clean")
  /\ UNCHANGED <<queues, arrived, switching, IF_, blocking, no_preempt, flags>>

(* new TCBImpl and schedule: the stack is laid out so that the first       *)
(* switch to it pops EFLAGS with IF set and returns into entry().          *)
Create(c, t) ==
  /\ At(c, t, "create")
  /\ \E w \in Workers \ tcbs :
       /\ tcbs' = tcbs \cup {w}
       /\ pc' = [pc EXCEPT ![w] = "resume", ![t] = "work"]
       /\ call' = [call EXCEPT ![w] = "start"]
       /\ ret' = [ret EXCEPT ![w] = "work"]
       /\ flags' = [flags EXCEPT ![w] = TRUE]
       /\ no_preempt' = [no_preempt EXCEPT ![w] = FALSE]
       /\ Ready(w)
  /\ UNCHANGED <<zombies, parked, arrived, switching, IF_, locals, it>>

-----------------------------------------------------------------------------

(* The reaper's loop and thread(), where the timer may come in.            *)
ReaperStep(c, t) ==
  \/ Yield(c, t) \/ RemoveZombie(c, t) \/ NoZombie(c, t) \/ Delete(c, t) \/ Create(c, t)

(* What the kernel does of its own accord once a core is there.            *)
KernelStep(c, t) ==
  \/ Arrive(c, t) \/ IdleStop(c, t) \/ ReaperStep(c, t)
  \/ Dequeue(c, t) \/ ReturnAtOnce(c, t) \/ FallBackToIdle(c, t)
  \/ Claim(c, t) \/ Activate(c, t) \/ Switch(c, t) \/ Handler(c) \/ Resume(c, t)

(* What the code of a thread may do.                                       *)
GiveUp(c, t) == Wait(c, t) \/ Stop(c, t)

Step(c, t) ==
  KernelStep(c, t) \/ GiveUp(c, t) \/ Wake(c, t) \/ Spawn(c, t) \/ Timer(c, t)

Next == \E c \in Cores : Step(c, stack[c])

(* A core goes on executing, and no thread computes for ever without       *)
(* waiting or stopping.  The timer need not tick, but it does not tick     *)
(* between every two steps of a thread either.                             *)
Fairness ==
  /\ \A c \in Cores : /\ WF_vars(KernelStep(c, stack[c]))
                     /\ SF_vars(GiveUp(c, stack[c]))
  /\ \A t \in Workers \cup {Reaper} :
       SF_vars(\E c \in Cores : stack[c] = t /\ ReaperStep(c, t))

Spec == Init /\ [][Next]_vars /\ Fairness

-----------------------------------------------------------------------------

(* The TCBs that a core has in hand: the one whose stack it is on, the one *)
(* its handler has yet to give away, and the one it took from the queue.   *)
Held(c) == {stack[c], source[c], locals[stack[c]].next_tcb}

(* Where a thread can be found.                                            *)
Places(t) ==
  {<<"ready", i>> : i \in {j \in DOMAIN readyQ : readyQ[j] = t}}
    \cup {<<"zombie", i>> : i \in {j \in DOMAIN zombies : zombies[j] = t}}
    \cup {<<"parked", p>> : p \in parked \cap {t}}
    \cup {<<"core", c>> : c \in {d \in Cores : t \in Held(d)}}
    \cup {<<"deleter", u>> : u \in {v \in Threads_ : it[v] = t}}

(* No thread is lost and none is in two hands: a TCB that exists is in one *)
(* queue, with one core or with the one thread about to delete it, and     *)
(* nobody refers to a deleted one.  This is what queueing a thread only    *)
(* after the switch away from its stack (threads.h:76-80) is for.          *)
OnePlace ==
  \A t \in Workers \cup {Reaper} :
    /\ \A p, q \in Places(t) : p = q
    /\ Places(t) # {} <=> t \in tcbs \cup {Reaper}

(* "Why is this safe?" (threads.h:118).  If the timer handler of a core    *)
(* would yield, then the active thread is the one whose stack the handler  *)
(* runs on, and that thread is in its own code, outside block().           *)
PreemptedOnlyOutsideBlock ==
  \A c \in Cores :
    LET t == activeThreads[c] IN
    IF_[c] /\ ~isIdle(t) /\ ~no_preempt[t] =>
      source[c] = None /\ stack[c] = t /\ pc[t] \in OwnCode

(* Idle threads do not hop between cores, and the ASSERTs of an idle       *)
(* thread that looks for work (threads.h:106-109) hold.                    *)
IdleStaysHome ==
  \A c \in Cores :
    LET t == stack[c] IN
    isIdle(t) =>
      /\ t = c
      /\ pc[t] = "remove" =>
           IF_[c] /\ locals[t].core_id = c /\ locals[t].me = t /\ activeThreads[c] = t

(* A thread that is back in its own code has interrupts on, whatever the   *)
(* switches in between saved and restored (ASSERTs at threads.cc:91 and    *)
(* condition.h:87).                                                        *)
InterruptsOnInOwnCode ==
  \A c \in Cores : source[c] = None /\ pc[stack[c]] \in OwnCode => IF_[c]

(* A thread that called stop() is not resumed (ASSERT at threads.cc:115).  *)
StoppedNeverResumes ==
  \A c \in Cores :
    LET t == stack[c] IN
    source[c] = None /\ pc[t] = "resume" /\ call[t] = "stop" => isIdle(t)

(* The promise to the rest of the kernel.  A core serves a thread until    *)
(* the handler has given it away.                                          *)
Lifecycle ==
  INSTANCE ThreadLifecycle WITH
    live <- tcbs,
    ready <- readyQ,
    waiting <- parked,
    exited <- {w \in tcbs : (\E i \in DOMAIN zombies : zombies[i] = w)
                              \/ \E t \in Threads_ : it[t] = w},
    on <- [c \in Cores |-> IF source[c] = None THEN stack[c] ELSE source[c]],
    chosen <- [c \in Cores |-> IF source[c] = None THEN locals[stack[c]].next_tcb
                                                 ELSE stack[c]]

ImplementsLifecycle == Lifecycle!Spec

(* Every thread that wants a core gets one, although no core looks at      *)
(* anything but the head of the queue and the timer may be silent.         *)
EveryReadyThreadRuns ==
  \A t \in Workers \cup {Reaper} :
    (\E i \in DOMAIN readyQ : readyQ[i] = t) ~> (\E c \in Cores : stack[c] = t)

(* The memory of a thread that stopped is given back.                      *)
EveryZombieIsDeleted ==
  \A w \in Workers : (\E i \in DOMAIN zombies : zombies[i] = w) ~> (w \notin tcbs)

(* Outside block() a thread can be preempted: the switch is to "clear the  *)
(* no_preempt flags" once the target context is established                *)
(* (context.s:34), and nothing sets them but block().                      *)
PreemptibleInOwnCode ==
  \A c \in Cores :
    source[c] = None /\ pc[stack[c]] \in OwnCode => ~no_preempt[stack[c]]

=============================================================================
