------------------------------ MODULE Condition ------------------------------
(***************************************************************************)
(* The Mesa-style condition variable of kernel/condition.h.                *)
(*                                                                         *)
(* wait() does not keep its lock over the context switch.  It notes the    *)
(* epoch, gives the lock up with interrupts on, and leaves it to the       *)
(* handler, on the next thread's stack, to take the lock again and see     *)
(* from the epoch whether there was a notification in between.  The        *)
(* monitor that uses the condition supplies the other steps.               *)
(***************************************************************************)
EXTENDS Dispatcher

VARIABLES
  taken, was,  \* the InterruptSafeLock of the monitor
  epoch,       \* Condition::epoch
  queue,
  old_epoch    \* per thread, the local of wait()

lockVars == <<taken, was>>
conditionVars == <<epoch, queue, old_epoch>>

ConditionSteps == {"wait", "block", "back", "relock", "notify"}

(* The steps of the condition that a thread takes with the lock.           *)
ConditionLocked == {"wait", "notify"}

ConditionTypeOK ==
  /\ taken \in BOOLEAN /\ was \in BOOLEAN
  /\ epoch \in Nat
  /\ queue \in Seq(Threads)
  /\ old_epoch \in [Threads -> Nat]

ConditionInit ==
  /\ taken = FALSE /\ was = FALSE
  /\ epoch = 0
  /\ queue = <<>>
  /\ old_epoch = [t \in Threads |-> 0]

-----------------------------------------------------------------------------

(* Fault: unlock() leaves interrupts as they are.                          *)
UnlockOnly(c) ==
  /\ taken' = FALSE
  /\ UNCHANGED <<was, IF_>>

(* lock() when the exchange succeeds, and unlock().                        *)
lock(c) ==
  /\ ~taken
  /\ taken' = TRUE
  /\ was' = ~IF_[c]
  /\ SetIF(c, FALSE)

unlock(c) ==
  /\ taken' = FALSE
  /\ SetIF(c, IF_[c] \/ ~was)
  /\ UNCHANGED was

(* wait() up to the call of block().                                       *)
Wait(c, t) ==
  /\ At(c, t, "wait")
  /\ old_epoch' = [old_epoch EXCEPT ![t] = epoch]
  /\ unlock(c)
  /\ GoTo(t, "block")
  /\ UNCHANGED <<epoch, queue, readyQ, cores, flags>>

Block(c, t) ==
  /\ At(c, t, "block")
  /\ block(c, t, "back")
  /\ UNCHANGED <<lockVars, conditionVars>>

HandlerLock(c) ==
  /\ phase[c] = "handler"
  /\ lock(c)
  /\ phase' = [phase EXCEPT ![c] = "locked"]
  /\ UNCHANGED <<conditionVars, readyQ, on, source, flags, pc>>

(* Fault: the thread is queued whatever happened in between.               *)
QueueAnyway(c) ==
  /\ phase[c] = "locked"
  /\ queue' = Append(queue, source[c])
  /\ HandlerReturns(c)
  /\ unlock(c)
  /\ UNCHANGED <<epoch, old_epoch, readyQ, on, flags, pc>>

Queue(c) ==
  /\ phase[c] = "locked"
  /\ epoch = old_epoch[source[c]]
  /\ queue' = Append(queue, source[c])
  /\ HandlerReturns(c)
  /\ unlock(c)
  /\ UNCHANGED <<epoch, old_epoch, readyQ, on, flags, pc>>

(* There was a notification in the meantime.                               *)
DoNotQueue(c) ==
  /\ phase[c] = "locked"
  /\ epoch # old_epoch[source[c]]
  /\ unlock(c)
  /\ phase' = [phase EXCEPT ![c] = "schedule"]
  /\ UNCHANGED <<conditionVars, readyQ, on, source, flags, pc>>

Schedule(c) ==
  /\ phase[c] = "schedule"
  /\ schedule(source[c])
  /\ HandlerReturns(c)
  /\ UNCHANGED <<lockVars, conditionVars, on, IF_, flags, pc>>

(* Back in wait(), with the lock taken again: the caller checks again.     *)
Relock(c, t, check) ==
  /\ At(c, t, "back")
  /\ lock(c)
  /\ GoTo(t, check)
  /\ UNCHANGED <<conditionVars, readyQ, cores, flags>>

(* notifyAll(): the waiters are scheduled one by one.                      *)
StartNotify(t) ==
  /\ epoch' = epoch + 1
  /\ GoTo(t, "notify")

(* Fault: notifyOne() in place of notifyAll().                             *)
NotifyOnly(c, t) ==
  /\ At(c, t, "notify")
  /\ queue # <<>>
  /\ schedule(Head(queue))
  /\ queue' = Tail(queue)
  /\ GoTo(t, "unlock")
  /\ UNCHANGED <<lockVars, epoch, old_epoch, cores, IF_, flags>>

Notify(c, t) ==
  /\ At(c, t, "notify")
  /\ queue # <<>>
  /\ schedule(Head(queue))
  /\ queue' = Tail(queue)
  /\ UNCHANGED <<lockVars, epoch, old_epoch, cores, IF_, flags, pc>>

Notified(c, t, after) ==
  /\ At(c, t, "notify")
  /\ queue = <<>>
  /\ GoTo(t, after)
  /\ UNCHANGED <<lockVars, conditionVars, readyQ, cores, IF_, flags>>

-----------------------------------------------------------------------------

(* The steps of a thread in the condition; after wait() the monitor is at  *)
(* the step check, after notifyAll() at the step after.                    *)
ConditionStep(c, t, check, after) ==
  \/ Wait(c, t) \/ Block(c, t) \/ Relock(c, t, check)
  \/ Notify(c, t) \/ Notified(c, t, after)

HandlerStep(c) == HandlerLock(c) \/ Queue(c) \/ DoNotQueue(c) \/ Schedule(c)

=============================================================================
