-------------------------- MODULE InterruptSafeLock --------------------------
(***************************************************************************)
(* The spin lock of kernel/atomic.h that disables interrupts while it is   *)
(* held.  It protects the ready queue, the zombie queue, the frame list,   *)
(* the disk and the console, and both thread code and the timer interrupt  *)
(* handler take it.                                                        *)
(*                                                                         *)
(* Every core runs one thread context and, when an interrupt is delivered, *)
(* an irq context above it: the thread stands still until the handler      *)
(* returns.  A context goes through the steps of lock() and unlock() that  *)
(* another context can come between.                                       *)
(***************************************************************************)
CONSTANT Cores

VARIABLES
  taken,        \* the Atomic<bool> that the exchange operates on
  was,          \* the field of the lock in which lock() leaves wasDisabled
  IF_,          \* EFLAGS.IF of each core: interrupts are delivered
  pc,           \* the step each context is at
  wasDisabled,  \* the local of that name in lock() and in unlock()
  callerIF      \* EFLAGS.IF as the thread code around the lock left it

vars == <<taken, was, IF_, pc, wasDisabled, callerIF>>

Levels == {"thread", "irq"}
Contexts == Cores \X Levels

Core(x) == x[1]
IsIrq(x) == x[2] = "irq"

Steps == {"out", "lock", "exchange", "record", "backoff",
          "held", "release", "restore", "iret"}

(* The steps between a successful exchange and the store that undoes it.   *)
Critical == {"record", "held", "release"}

TypeOK ==
  /\ taken \in BOOLEAN
  /\ was \in BOOLEAN
  /\ IF_ \in [Cores -> BOOLEAN]
  /\ pc \in [Contexts -> Steps]
  /\ wasDisabled \in [Contexts -> BOOLEAN]
  /\ callerIF \in [Cores -> BOOLEAN]

Init ==
  /\ taken = FALSE
  /\ was = FALSE
  /\ IF_ = [c \in Cores |-> TRUE]
  /\ pc = [x \in Contexts |-> "out"]
  /\ wasDisabled = [x \in Contexts |-> FALSE]
  /\ callerIF = [c \in Cores |-> TRUE]

-----------------------------------------------------------------------------

(* The context that the core executes: the handler, once there is one.     *)
Executing(x) == IsIrq(x) \/ pc[<<Core(x), "irq">>] = "out"

At(x, step) == Executing(x) /\ pc[x] = step
GoTo(x, step) == pc' = [pc EXCEPT ![x] = step]

SetIF(x, b) == IF_' = [IF_ EXCEPT ![Core(x)] = b]

(* Interrupts::restore(wasDisabled): an sti or nothing.                    *)
RestoreIF(x) == SetIF(x, IF_[Core(x)] \/ ~wasDisabled[x])

(* The thread switches interrupts off or on around its calls, as it does   *)
(* when it already holds another lock.                                     *)
ToggleByCaller(x) ==
  /\ ~IsIrq(x) /\ At(x, "out")
  /\ SetIF(x, ~IF_[Core(x)])
  /\ callerIF' = [callerIF EXCEPT ![Core(x)] = ~IF_[Core(x)]]
  /\ UNCHANGED <<taken, was, pc, wasDisabled>>

Call(x) ==
  /\ ~IsIrq(x) /\ At(x, "out")
  /\ GoTo(x, "lock")
  /\ UNCHANGED <<taken, was, IF_, wasDisabled, callerIF>>

(* Fault: lock() spins with interrupts as it found them.                   *)
DisableNothing(x) ==
  /\ At(x, "lock")
  /\ wasDisabled' = [wasDisabled EXCEPT ![x] = ~IF_[Core(x)]]
  /\ GoTo(x, "exchange")
  /\ UNCHANGED <<taken, was, IF_, callerIF>>

Disable(x) ==
  /\ At(x, "lock")
  /\ wasDisabled' = [wasDisabled EXCEPT ![x] = ~IF_[Core(x)]]
  /\ SetIF(x, FALSE)
  /\ GoTo(x, "exchange")
  /\ UNCHANGED <<taken, was, callerIF>>

(* Fault: the old value is not looked at.                                  *)
ExchangeUnchecked(x) ==
  /\ At(x, "exchange")
  /\ taken' = TRUE
  /\ GoTo(x, "record")
  /\ UNCHANGED <<was, IF_, wasDisabled, callerIF>>

Exchange(x) ==
  /\ At(x, "exchange")
  /\ taken' = TRUE
  /\ GoTo(x, IF taken THEN "backoff" ELSE "record")
  /\ UNCHANGED <<was, IF_, wasDisabled, callerIF>>

Record(x) ==
  /\ At(x, "record")
  /\ was' = wasDisabled[x]
  /\ GoTo(x, "held")
  /\ UNCHANGED <<taken, IF_, wasDisabled, callerIF>>

(* The exchange found the lock taken: interrupts are let in again before   *)
(* the next attempt.                                                       *)
Backoff(x) ==
  /\ At(x, "backoff")
  /\ RestoreIF(x)
  /\ GoTo(x, "lock")
  /\ UNCHANGED <<taken, was, wasDisabled, callerIF>>

(* unlock() copies the field while it still owns the lock.                 *)
ReadWas(x) ==
  /\ At(x, "held")
  /\ wasDisabled' = [wasDisabled EXCEPT ![x] = was]
  /\ GoTo(x, "release")
  /\ UNCHANGED <<taken, was, IF_, callerIF>>

Release(x) ==
  /\ At(x, "release")
  /\ taken' = FALSE
  /\ GoTo(x, "restore")
  /\ UNCHANGED <<was, IF_, wasDisabled, callerIF>>

(* Fault: the field is read again after the lock was given away.           *)
RestoreFromField(x) ==
  /\ At(x, "restore")
  /\ SetIF(x, IF_[Core(x)] \/ ~was)
  /\ GoTo(x, IF IsIrq(x) THEN "iret" ELSE "out")
  /\ UNCHANGED <<taken, was, wasDisabled, callerIF>>

Restore(x) ==
  /\ At(x, "restore")
  /\ RestoreIF(x)
  /\ GoTo(x, IF IsIrq(x) THEN "iret" ELSE "out")
  /\ UNCHANGED <<taken, was, wasDisabled, callerIF>>

(* An interrupt gate: the handler starts with interrupts disabled and      *)
(* takes the lock (the timer handler does, through yield and the ready     *)
(* queue).                                                                 *)
Interrupt(x) ==
  /\ IsIrq(x) /\ pc[x] = "out"
  /\ IF_[Core(x)]
  /\ SetIF(x, FALSE)
  /\ GoTo(x, "lock")
  /\ UNCHANGED <<taken, was, wasDisabled, callerIF>>

(* iret pops the EFLAGS of the interrupted thread.                         *)
Iret(x) ==
  /\ At(x, "iret")
  /\ SetIF(x, TRUE)
  /\ GoTo(x, "out")
  /\ UNCHANGED <<taken, was, wasDisabled, callerIF>>

Step(x) ==
  \/ Disable(x) \/ Exchange(x) \/ Record(x) \/ Backoff(x)
  \/ ReadWas(x) \/ Release(x) \/ Restore(x) \/ Iret(x)

Next ==
  \E x \in Contexts : ToggleByCaller(x) \/ Call(x) \/ Interrupt(x) \/ Step(x)

(* A core goes on executing what it has started; nobody has to call lock() *)
(* and no interrupt has to come.                                           *)
Fairness == \A x \in Contexts : WF_vars(Step(x))

Spec == Init /\ [][Next]_vars /\ Fairness

-----------------------------------------------------------------------------

(* At most one context, over all cores and both levels, is between a       *)
(* successful exchange and the store of unlock().                          *)
MutualExclusion ==
  \A x, y \in Contexts : pc[x] \in Critical /\ pc[y] \in Critical => x = y

(* A handler never waits for a lock that the thread below it holds: that   *)
(* thread cannot run until the handler is done.                            *)
NoSelfDeadlock ==
  \A c \in Cores : pc[<<c, "irq">>] # "out" => pc[<<c, "thread">>] \notin Critical

(* Outside lock() and unlock() the thread finds EFLAGS.IF as it left it,   *)
(* although the value travels through a field that every core writes.      *)
RestoresInterrupts ==
  \A c \in Cores :
    pc[<<c, "thread">>] = "out" /\ pc[<<c, "irq">>] = "out" => IF_[c] = callerIF[c]

(* No interrupt is delivered on top of a handler.                          *)
HandlersDoNotNest ==
  \A c \in Cores : pc[<<c, "irq">>] # "out" => ~IF_[c]

(* Whoever holds the lock gives it back.                                   *)
AlwaysReleased == taken ~> ~taken

=============================================================================
