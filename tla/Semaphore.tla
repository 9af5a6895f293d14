------------------------------ MODULE Semaphore ------------------------------
(***************************************************************************)
(* The counting semaphore of kernel/semaphore.h and, with one permit, the  *)
(* BlockingLock of blocking_lock.h, as threads use it on a few cores.      *)
(*                                                                         *)
(* down() keeps the semaphore's ISL (atomic.h:234-270) over the call of    *)
(* block(), with interrupts disabled, and the handler that runs on the     *)
(* next thread's stack releases it.  up() takes a thread out of the wait   *)
(* queue under the lock and schedules it after the lock is free, so that a *)
(* thread can be in neither queue for a while.                             *)
(***************************************************************************)
EXTENDS Dispatcher

CONSTANTS
  Initial,    \* the count that the semaphore is made with
  MaxSignals  \* BOUND: the ups of threads that hold no permit

ASSUME SemaphoreAssumption ==
  /\ IsFiniteSet(Threads) /\ None \notin Threads
  /\ Initial \in Nat /\ MaxSignals \in Nat

VARIABLES
  count, taken, waiting,  \* the fields of the semaphore
  was,       \* per thread, the local of that name
  next,      \* per thread, the local of up()
  callerIF,  \* per thread, EFLAGS.IF as its own code wants it
  holds,     \* the threads that down() has let in and that owe an up()
  signals    \* how many ups were called without holding a permit

sem == <<count, taken, waiting>>
history == <<callerIF, holds, signals>>
vars == <<sched, sem, was, next, history>>

Steps == {"out", "down", "test", "leave", "block", "back",
          "up", "take", "unlock", "schedule"}

(* The steps that a thread takes with the semaphore's lock.                *)
Locked == {"test", "leave", "block", "take", "unlock"}

TypeOK ==
  /\ SchedTypeOK({"handler"}, Steps)
  /\ count \in Nat
  /\ taken \in BOOLEAN
  /\ waiting \in Seq(Threads)
  /\ was \in [Threads -> BOOLEAN]
  /\ next \in [Threads -> Threads \cup {None}]
  /\ callerIF \in [Threads -> BOOLEAN]
  /\ holds \in SUBSET Threads
  /\ signals \in Nat

Init ==
  /\ SchedInit
  /\ count = Initial /\ taken = FALSE /\ waiting = <<>>
  /\ was = [t \in Threads |-> FALSE]
  /\ next = [t \in Threads |-> None]
  /\ callerIF = [t \in Threads |-> TRUE]
  /\ holds = {}
  /\ signals = 0

-----------------------------------------------------------------------------

(* ISL::lock() when the exchange succeeds; an attempt that fails leaves    *)
(* everything as it was.                                                   *)
Lock(c, t, step) ==
  /\ ~taken
  /\ taken' = TRUE
  /\ was' = [was EXCEPT ![t] = ~IF_[c]]
  /\ SetIF(c, FALSE)
  /\ GoTo(t, step)

(* The local is dead after this.                                           *)
RestoreIF(c, t) ==
  /\ SetIF(c, ~was[t])
  /\ was' = [was EXCEPT ![t] = FALSE]

(* ISL::unlock(was): a cli or an sti.                                      *)
Unlock(c, t) ==
  /\ taken' = FALSE
  /\ RestoreIF(c, t)

ToggleIF(c, t) ==
  /\ At(c, t, "out")
  /\ SetIF(c, ~IF_[c])
  /\ callerIF' = [callerIF EXCEPT ![t] = ~IF_[c]]
  /\ UNCHANGED <<sem, readyQ, cores, pc, was, next, flags, holds, signals>>

CallDown(c, t) ==
  /\ At(c, t, "out") /\ t \notin holds
  /\ GoTo(t, "down")
  /\ UNCHANGED <<sem, readyQ, cores, IF_, was, next, flags, history>>

DownLock(c, t) ==
  /\ At(c, t, "down")
  /\ Lock(c, t, "test")
  /\ UNCHANGED <<count, waiting, readyQ, cores, next, flags, history>>

(* Fault: no permit is taken.                                              *)
TestWithoutDecrement(c, t) ==
  /\ At(c, t, "test")
  /\ holds' = IF count > 0 THEN holds \cup {t} ELSE holds
  /\ GoTo(t, IF count > 0 THEN "leave" ELSE "block")
  /\ UNCHANGED <<sem, readyQ, cores, IF_, was, next, flags, callerIF, signals>>

Test(c, t) ==
  /\ At(c, t, "test")
  /\ \/ /\ count > 0
        /\ count' = count - 1
        /\ holds' = holds \cup {t}
        /\ GoTo(t, "leave")
     \/ /\ count = 0
        /\ GoTo(t, "block")
        /\ UNCHANGED <<count, holds>>
  /\ UNCHANGED <<taken, waiting, readyQ, cores, IF_, was, next, flags, callerIF, signals>>

Leave(c, t) ==
  /\ At(c, t, "leave")
  /\ Unlock(c, t)
  /\ GoTo(t, "out")
  /\ UNCHANGED <<count, waiting, readyQ, cores, next, flags, history>>

Block(c, t) ==
  /\ At(c, t, "block")
  /\ block(c, t, "back")
  /\ UNCHANGED <<sem, was, next, history>>

Handler(c) ==
  /\ phase[c] = "handler"
  /\ waiting' = Append(waiting, source[c])
  /\ taken' = FALSE
  /\ SetIF(c, FALSE)
  /\ HandlerReturns(c)
  /\ UNCHANGED <<count, readyQ, on, pc, was, next, flags, history>>

(* Fault: interrupts stay as the switch left them.                         *)
BackAsSwitched(c, t) ==
  /\ At(c, t, "back")
  /\ was' = [was EXCEPT ![t] = FALSE]
  /\ holds' = holds \cup {t}
  /\ GoTo(t, "out")
  /\ UNCHANGED <<sem, readyQ, cores, IF_, next, flags, callerIF, signals>>

(* A permit was passed on to the thread: nothing is checked again.         *)
Back(c, t) ==
  /\ At(c, t, "back")
  /\ RestoreIF(c, t)
  /\ holds' = holds \cup {t}
  /\ GoTo(t, "out")
  /\ UNCHANGED <<sem, readyQ, cores, next, flags, callerIF, signals>>

CallUp(c, t) ==
  /\ At(c, t, "out")
  /\ t \in holds \/ signals < MaxSignals
  /\ signals' = IF t \in holds THEN signals ELSE signals + 1
  /\ GoTo(t, "up")
  /\ UNCHANGED <<sem, readyQ, cores, IF_, was, next, flags, callerIF, holds>>

UpLock(c, t) ==
  /\ At(c, t, "up")
  /\ Lock(c, t, "take")
  /\ UNCHANGED <<count, waiting, readyQ, cores, next, flags, history>>

(* Faults: a waiter is woken and the permit is counted too; the waiter     *)
(* stays in the queue; the last waiter is woken first.                     *)
TakeAndCount(c, t) ==
  /\ At(c, t, "take")
  /\ count' = count + 1
  /\ next' = [next EXCEPT ![t] = IF waiting = <<>> THEN None ELSE Head(waiting)]
  /\ waiting' = IF waiting = <<>> THEN <<>> ELSE Tail(waiting)
  /\ holds' = holds \ {t}
  /\ GoTo(t, "unlock")
  /\ UNCHANGED <<taken, readyQ, cores, IF_, was, flags, callerIF, signals>>

TakeNoRemove(c, t) ==
  /\ At(c, t, "take")
  /\ count' = IF waiting = <<>> THEN count + 1 ELSE count
  /\ next' = [next EXCEPT ![t] = IF waiting = <<>> THEN None ELSE Head(waiting)]
  /\ holds' = holds \ {t}
  /\ GoTo(t, "unlock")
  /\ UNCHANGED <<taken, waiting, readyQ, cores, IF_, was, flags, callerIF, signals>>

TakeLast(c, t) ==
  LET n == Len(waiting) IN
  /\ At(c, t, "take")
  /\ count' = IF n = 0 THEN count + 1 ELSE count
  /\ next' = [next EXCEPT ![t] = IF n = 0 THEN None ELSE waiting[n]]
  /\ waiting' = IF n = 0 THEN <<>> ELSE SubSeq(waiting, 1, n - 1)
  /\ holds' = holds \ {t}
  /\ GoTo(t, "unlock")
  /\ UNCHANGED <<taken, readyQ, cores, IF_, was, flags, callerIF, signals>>

Take(c, t) ==
  /\ At(c, t, "take")
  /\ \/ /\ waiting = <<>>
        /\ count' = count + 1
        /\ UNCHANGED <<waiting, next>>
     \/ /\ waiting # <<>>
        /\ next' = [next EXCEPT ![t] = Head(waiting)]
        /\ waiting' = Tail(waiting)
        /\ UNCHANGED count
  /\ holds' = holds \ {t}
  /\ GoTo(t, "unlock")
  /\ UNCHANGED <<taken, readyQ, cores, IF_, was, flags, callerIF, signals>>

UpUnlock(c, t) ==
  /\ At(c, t, "unlock")
  /\ Unlock(c, t)
  /\ GoTo(t, IF next[t] = None THEN "out" ELSE "schedule")
  /\ UNCHANGED <<count, waiting, readyQ, cores, next, flags, history>>

Schedule(c, t) ==
  /\ At(c, t, "schedule")
  /\ schedule(next[t])
  /\ next' = [next EXCEPT ![t] = None]
  /\ GoTo(t, "out")
  /\ UNCHANGED <<sem, cores, IF_, was, flags, history>>

-----------------------------------------------------------------------------

SemaphoreStep(c, t) ==
  \/ DownLock(c, t) \/ Test(c, t) \/ Leave(c, t) \/ Block(c, t) \/ Back(c, t)
  \/ UpLock(c, t) \/ Take(c, t) \/ UpUnlock(c, t) \/ Schedule(c, t)

CoreStep(c, t) ==
  \/ Handler(c)
  \/ (Popf(c, t) \/ Dispatch(c, t)) /\ UNCHANGED <<sem, was, next, history>>

PreemptStep(c, t) == Preempt(c, t) /\ UNCHANGED <<sem, was, next, history>>
RestStep(c, t) == Rest(c, t) /\ UNCHANGED <<sem, was, next, history>>

Step(c, t) ==
  \/ SemaphoreStep(c, t) \/ CoreStep(c, t) \/ PreemptStep(c, t) \/ RestStep(c, t)
  \/ CallDown(c, t) \/ CallUp(c, t) \/ ToggleIF(c, t)

Next == \E c \in Cores : Step(c, on[c])

(* A core goes on with a switch.  A thread that gets a core again and      *)
(* again goes on in down() and up(), and gives its permit back: the timer  *)
(* does not tick between every two steps.  No thread keeps a core for ever *)
(* while others want it.                                                   *)
Fairness ==
  /\ \A c \in Cores : WF_vars(CoreStep(c, on[c])) /\ SF_vars(RestStep(c, on[c]))
  /\ \A t \in Threads :
       SF_vars(\E c \in Cores :
                 on[c] = t /\ (SemaphoreStep(c, t) \/ (t \in holds /\ CallUp(c, t))))

Spec == Init /\ [][Next]_vars /\ Fairness

-----------------------------------------------------------------------------

(* Permits that up() passed on to a thread that is not back in down() yet. *)
Granted ==
  {t \in Threads : /\ pc[t] = "back"
                   /\ \A i \in DOMAIN waiting : waiting[i] # t
                   /\ \A c \in Cores : source[c] # t}

(* The semaphore keeps the promise of CountingSemaphore.                   *)
Permits == INSTANCE CountingSemaphore WITH
             value <- count + Cardinality(Granted), holders <- holds

ImplementsCountingSemaphore == Permits!Spec

(* No wake-up is lost: while there are permits, nobody waits for one.      *)
(* down() tests the count and queues itself under one lock (semaphore.h    *)
(* :22-38), although the queueing is done on another thread's stack.       *)
NobodyWaitsForAPermit == count > 0 => waiting = <<>>

(* The holder of the lock runs and cannot be interrupted, so that nobody   *)
(* spins for it on the holder's core; down() and up() leave interrupts as  *)
(* their caller had them, also after a switch away with the lock held.     *)
RestoresInterrupts ==
  /\ taken => \E c \in Cores :
                ~IF_[c] /\ (phase[c] = "handler" \/ (on[c] # None /\ pc[on[c]] \in Locked))
  /\ \A c \in Cores :
       on[c] # None /\ phase[c] = "run" /\ pc[on[c]] = "out" => IF_[c] = callerIF[on[c]]

(* The state is well typed, and of a thread there is one: in a queue, on a *)
(* core, about to be queued by a handler (semaphore.h:31), or taken out of *)
(* the wait queue and not scheduled yet.                                   *)
OneThreadOnePlace ==
  /\ TypeOK
  /\ \A t \in Threads :
       Cardinality(SchedPlaces(t) \cup Queued(t, waiting)
                     \cup {<<"next", u>> : u \in {v \in Threads : next[v] = t}}) = 1

(* Every waiting thread is let in, in spite of newcomers that find the     *)
(* lock first: up() passes its permit on and does not offer it again.      *)
EveryWaiterIsLetIn ==
  \A t \in Threads : (\E i \in DOMAIN waiting : waiting[i] = t) ~> (t \in holds)

=============================================================================
