--------------------------- MODULE LibraryProofs ---------------------------
(***************************************************************************)
(* Proofs about what the rest of the kernel calls: its locks, the console  *)
(* and the heap.                                                           *)
(*                                                                         *)
(* The first part is about the lock of kernel/atomic.h, for any set of     *)
(* cores, and then about that of Debug, which keeps the lines on the       *)
(* console apart until a thread panics.  Mutual exclusion alone is not     *)
(* inductive: the exchange finds the lock free only if nobody is between   *)
(* it and unlock(), which is half of TakenIffCritical.  The interrupt flag *)
(* needs two more facts: a handler exists only over a thread that was      *)
(* outside or about to disable interrupts (HandlerOverOpenThread), and the *)
(* value that travels through the field `was` is the owner's               *)
(* (FieldIsOwners).                                                        *)
(*                                                                         *)
(* The second part is about the numbers that printf writes, of any size:   *)
(* the digits that convert() makes of a number, and the field around them. *)
(*                                                                         *)
(* The third part is about the heap, for an array of any length and any    *)
(* calls.  The invariant is Good, the shape that tags and links have, and  *)
(* Owned, where the pieces are.  A list that leads back as it leads on     *)
(* could still run in circles; Linked therefore has a stamp on each block  *)
(* that rises along the list.  One lemma per operation on the words says   *)
(* what it writes, one per part of a call that the heap stays sound, and   *)
(* ListIs and StartsAre say that the walks of the code and of the          *)
(* properties find exactly what the invariant speaks of.                   *)
(***************************************************************************)
EXTENDS InterruptSafeLock, Console, Heap, FiniteSetTheorems, WellFoundedInduction, TLAPS

(* The thread has not begun an attempt, so that interrupts are as its      *)
(* caller left them.                                                       *)
Open == {"out", "lock"}

(* The lock is marked taken exactly while one context owns it.             *)
TakenIffCritical == taken <=> \E x \in Contexts : pc[x] \in Critical

(* A handler stands over a thread that could be interrupted, with          *)
(* interrupts off.                                                         *)
HandlerOverOpenThread ==
  \A c \in Cores :
    pc[<<c, "irq">>] # "out" =>
      ~IF_[c] /\ callerIF[c] /\ pc[<<c, "thread">>] \in Open

(* Without a handler, EFLAGS.IF is the caller's outside an attempt and     *)
(* clear inside one.                                                       *)
FlagFollowsThread ==
  \A c \in Cores :
    pc[<<c, "irq">>] = "out" =>
      IF_[c] = (pc[<<c, "thread">>] \in Open /\ callerIF[c])

(* What interrupts were when the context began its attempt.                *)
Entered(x) == IF IsIrq(x) THEN TRUE ELSE ~callerIF[Core(x)]

LocalIsCallers ==
  \A x \in Contexts :
    pc[x] \in {"exchange", "record", "backoff", "release", "restore"}
      => wasDisabled[x] = Entered(x)

FieldIsOwners == \A x \in Contexts : pc[x] = "held" => was = Entered(x)

ThreadNeverReturnsFromInterrupt == \A c \in Cores : pc[<<c, "thread">>] # "iret"

IInv ==
  /\ TypeOK
  /\ TakenIffCritical
  /\ MutualExclusion
  /\ HandlerOverOpenThread
  /\ FlagFollowsThread
  /\ LocalIsCallers
  /\ FieldIsOwners
  /\ ThreadNeverReturnsFromInterrupt

-----------------------------------------------------------------------------

(* A context is a core and a level.                                        *)
LEMMA ContextShape ==
  ASSUME NEW x \in Contexts
  PROVE  /\ Core(x) \in Cores
         /\ x = <<Core(x), "irq">> \/ x = <<Core(x), "thread">>
         /\ IsIrq(x) <=> x = <<Core(x), "irq">>
         /\ \A c \in Cores : <<c, "irq">> \in Contexts /\ <<c, "thread">> \in Contexts
         /\ \A c \in Cores : /\ Core(<<c, "irq">>) = c /\ Core(<<c, "thread">>) = c
                             /\ IsIrq(<<c, "irq">>) /\ ~IsIrq(<<c, "thread">>)
BY DEF Contexts, Levels, Core, IsIrq

(* The type invariant of the lock (atomic.h:200-205).                      *)
LEMMA TypeStep == TypeOK /\ [Next]_vars => TypeOK'
<1> SUFFICES ASSUME TypeOK, [Next]_vars PROVE TypeOK'
  OBVIOUS
<1> USE DEF TypeOK, SetIF, GoTo, RestoreIF, Steps
<1>1. CASE UNCHANGED vars
  BY <1>1 DEF vars
<1>2. ASSUME NEW x \in Contexts,
             ToggleByCaller(x) \/ Call(x) \/ Interrupt(x) \/ Step(x)
      PROVE  TypeOK'
  <2> Core(x) \in Cores
    BY ContextShape
  <2>1. CASE ToggleByCaller(x)
    BY <2>1 DEF ToggleByCaller
  <2>2. CASE Call(x)
    BY <2>2 DEF Call
  <2>3. CASE Interrupt(x)
    BY <2>3 DEF Interrupt
  <2>4. CASE Step(x)
    BY <2>4 DEF Step, Disable, Exchange, Record, Backoff, ReadWas, Release,
                Restore, Iret
  <2>5. QED
    BY <1>2, <2>1, <2>2, <2>3, <2>4
<1>3. QED
  BY <1>1, <1>2 DEF Next

(* Initially nobody is inside, and interrupts are on everywhere.           *)
LEMMA InitIInv == Init => IInv
<1> SUFFICES ASSUME Init PROVE IInv
  OBVIOUS
<1> USE DEF Init
<1>1. \A x \in Contexts : pc[x] = "out"
  OBVIOUS
<1>2. TypeOK
  BY DEF TypeOK, Steps
<1>3. TakenIffCritical /\ MutualExclusion
  BY <1>1 DEF TakenIffCritical, MutualExclusion, Critical
<1>4. HandlerOverOpenThread /\ FlagFollowsThread /\ ThreadNeverReturnsFromInterrupt
  BY <1>1 DEF HandlerOverOpenThread, FlagFollowsThread, Open,
              ThreadNeverReturnsFromInterrupt, Contexts, Levels
<1>5. LocalIsCallers /\ FieldIsOwners
  BY <1>1 DEF LocalIsCallers, FieldIsOwners
<1>6. QED
  BY <1>2, <1>3, <1>4, <1>5 DEF IInv

(* Whoever enters finds nobody there, and whoever leaves was alone.        *)
LEMMA ExclusionStep ==
  IInv /\ [Next]_vars => TakenIffCritical' /\ MutualExclusion'
<1> SUFFICES ASSUME IInv, [Next]_vars
             PROVE  TakenIffCritical' /\ MutualExclusion'
  OBVIOUS
<1> USE DEF IInv, TakenIffCritical, MutualExclusion
<1>1. CASE UNCHANGED vars
  BY <1>1 DEF vars
<1>2. ASSUME NEW x \in Contexts,
             taken' = taken,
             pc[x] \in Critical <=> pc'[x] \in Critical,
             \A y \in Contexts : y # x => pc'[y] = pc[y]
      PROVE  TakenIffCritical' /\ MutualExclusion'
  BY <1>2
<1>3. ASSUME NEW x \in Contexts,
             ToggleByCaller(x) \/ Call(x) \/ Interrupt(x) \/ Step(x)
      PROVE  TakenIffCritical' /\ MutualExclusion'
  <2> USE DEF TypeOK, At, GoTo, Critical
  <2>1. CASE ToggleByCaller(x)
    BY <1>2, <2>1 DEF ToggleByCaller
  <2>2. CASE Call(x)
    BY <1>2, <2>2 DEF Call
  <2>3. CASE Interrupt(x)
    BY <1>2, <2>3 DEF Interrupt
  <2>4. CASE Disable(x)
    BY <1>2, <2>4 DEF Disable
  <2>5. CASE Exchange(x)
    <3>1. CASE taken
      BY <1>2, <2>5, <3>1 DEF Exchange
    <3>2. CASE ~taken
      BY <2>5, <3>2 DEF Exchange
    <3>3. QED
      BY <3>1, <3>2
  <2>6. CASE Record(x)
    BY <1>2, <2>6 DEF Record
  <2>7. CASE Backoff(x)
    BY <1>2, <2>7 DEF Backoff
  <2>8. CASE ReadWas(x)
    BY <1>2, <2>8 DEF ReadWas
  <2>9. CASE Release(x)
    BY <2>9 DEF Release
  <2>10. CASE Restore(x)
    BY <1>2, <2>10 DEF Restore
  <2>11. CASE Iret(x)
    BY <1>2, <2>11 DEF Iret
  <2>12. QED
    BY <1>3, <2>1, <2>2, <2>3, <2>4, <2>5, <2>6, <2>7, <2>8, <2>9, <2>10, <2>11
       DEF Step
<1>4. QED
  BY <1>1, <1>3 DEF Next

(* EFLAGS.IF of a core follows the thread, or is clear under a handler.    *)
LEMMA FlagStep ==
  IInv /\ [Next]_vars =>
    HandlerOverOpenThread' /\ FlagFollowsThread' /\ ThreadNeverReturnsFromInterrupt'
<1> SUFFICES ASSUME IInv, [Next]_vars, NEW c \in Cores
             PROVE  /\ pc'[<<c, "irq">>] # "out" =>
                         ~IF_'[c] /\ callerIF'[c] /\ pc'[<<c, "thread">>] \in Open
                    /\ pc'[<<c, "irq">>] = "out" =>
                         IF_'[c] = (pc'[<<c, "thread">>] \in Open /\ callerIF'[c])
                    /\ pc'[<<c, "thread">>] # "iret"
  BY DEF HandlerOverOpenThread, FlagFollowsThread, ThreadNeverReturnsFromInterrupt
<1> DEFINE t == <<c, "thread">>
           i == <<c, "irq">>
           Goal == /\ pc'[i] # "out" => ~IF_'[c] /\ callerIF'[c] /\ pc'[t] \in Open
                   /\ pc'[i] = "out" => IF_'[c] = (pc'[t] \in Open /\ callerIF'[c])
                   /\ pc'[t] # "iret"
<1>1. /\ t \in Contexts /\ i \in Contexts /\ t # i
      /\ ~IsIrq(t) /\ IsIrq(i) /\ Core(t) = c /\ Core(i) = c
  BY DEF Contexts, Levels, Core, IsIrq
<1>2. /\ pc[i] # "out" => ~IF_[c] /\ callerIF[c] /\ pc[t] \in Open
      /\ pc[i] = "out" => IF_[c] = (pc[t] \in Open /\ callerIF[c])
      /\ pc[t] # "iret"
  BY DEF IInv, HandlerOverOpenThread, FlagFollowsThread, ThreadNeverReturnsFromInterrupt
<1>3. \A x \in Contexts :
        pc[x] \in {"exchange", "record", "backoff", "release", "restore"}
          => wasDisabled[x] = Entered(x)
  BY DEF IInv, LocalIsCallers
<1>4. TypeOK
  BY DEF IInv
<1> HIDE DEF t, i
<1>5. CASE UNCHANGED vars
  BY <1>2, <1>5 DEF vars, t, i
<1>6. ASSUME NEW x \in Contexts,
             ToggleByCaller(x) \/ Call(x) \/ Interrupt(x) \/ Step(x)
      PROVE  Goal
  <2> USE DEF TypeOK, At, Executing, GoTo, SetIF, RestoreIF, Open, Entered
  <2>1. CASE x = t
    <3> USE <1>1, <1>2, <1>4, <2>1
    <3>0. pc[i] # "out" => ~Executing(t)
      BY DEF t, i, Executing, Core, IsIrq
    <3>1. CASE ToggleByCaller(x)
      BY <3>0, <3>1 DEF ToggleByCaller
    <3>2. CASE Call(x)
      BY <3>0, <3>2 DEF Call
    <3>3. CASE Interrupt(x)
      BY <3>3 DEF Interrupt
    <3>4. CASE Disable(x)
      BY <3>0, <3>4 DEF Disable
    <3>5. CASE Exchange(x)
      BY <3>0, <3>5 DEF Exchange
    <3>6. CASE Record(x)
      BY <3>0, <3>6 DEF Record
    <3>7. CASE Backoff(x)
      BY <1>3, <3>0, <3>7 DEF Backoff
    <3>8. CASE ReadWas(x)
      BY <3>0, <3>8 DEF ReadWas
    <3>9. CASE Release(x)
      BY <3>0, <3>9 DEF Release
    <3>10. CASE Restore(x)
      BY <1>3, <3>0, <3>10 DEF Restore
    <3>11. CASE Iret(x)
      BY <3>0, <3>11 DEF Iret
    <3>12. QED
      BY <1>6, <3>1, <3>2, <3>3, <3>4, <3>5, <3>6, <3>7, <3>8, <3>9, <3>10, <3>11
         DEF Step
  <2>2. CASE x = i
    <3> USE <1>1, <1>2, <1>4, <2>2
    <3>1. CASE ToggleByCaller(x) \/ Call(x)
      BY <3>1 DEF ToggleByCaller, Call
    <3>2. CASE Interrupt(x)
      BY <3>2 DEF Interrupt
    <3>3. CASE Disable(x) \/ Exchange(x) \/ Record(x) \/ ReadWas(x) \/ Release(x)
      BY <3>3 DEF Disable, Exchange, Record, ReadWas, Release
    <3>4. CASE Backoff(x) \/ Restore(x)
      BY <1>3, <3>4 DEF Backoff, Restore
    <3>5. CASE Iret(x)
      BY <3>5 DEF Iret
    <3>6. QED
      BY <1>6, <3>1, <3>2, <3>3, <3>4, <3>5 DEF Step
  <2>3. CASE x # t /\ x # i
    <3>1. Core(x) # c
      BY <2>3, ContextShape DEF t, i
    <3>2. /\ pc'[t] = pc[t] /\ pc'[i] = pc[i]
          /\ IF_'[c] = IF_[c] /\ callerIF'[c] = callerIF[c]
      BY <1>1, <1>4, <1>6, <2>3, <3>1, ContextShape
         DEF ToggleByCaller, Call, Interrupt, Step, Disable, Exchange, Record,
             Backoff, ReadWas, Release, Restore, Iret
    <3>3. QED
      BY <1>2, <3>2
  <2>4. QED
    BY <2>1, <2>2, <2>3
<1>7. QED
  BY <1>5, <1>6 DEF Next, t, i

(* The local of lock() and unlock() keeps the flag of its own caller, also  *)
(* through the field that every core writes.                                *)
LEMMA LocalStep == IInv /\ [Next]_vars => LocalIsCallers' /\ FieldIsOwners'
<1> SUFFICES ASSUME IInv, [Next]_vars, NEW y \in Contexts
             PROVE  /\ pc'[y] \in {"exchange", "record", "backoff", "release", "restore"}
                         => wasDisabled'[y] = Entered(y)'
                    /\ pc'[y] = "held" => was' = Entered(y)'
  BY DEF LocalIsCallers, FieldIsOwners
<1> DEFINE Busy == {"exchange", "record", "backoff", "release", "restore"}
           Goal == /\ pc'[y] \in Busy => wasDisabled'[y] = Entered(y)'
                   /\ pc'[y] = "held" => was' = Entered(y)'
<1>1. /\ pc[y] \in Busy => wasDisabled[y] = Entered(y)
      /\ pc[y] = "held" => was = Entered(y)
      /\ TypeOK
  BY DEF IInv, LocalIsCallers, FieldIsOwners
<1>2. CASE UNCHANGED vars
  BY <1>1, <1>2 DEF vars, Entered
<1>3. ASSUME NEW x \in Contexts,
             ToggleByCaller(x) \/ Call(x) \/ Interrupt(x) \/ Step(x)
      PROVE  Goal
  <2> USE DEF TypeOK, At, GoTo, SetIF
  <2>0. Core(x) \in Cores /\ Core(y) \in Cores
    BY ContextShape
  <2>1. CASE ToggleByCaller(x)
    <3>1. CASE Core(y) = Core(x)
      <4>1. IsIrq(y) => pc[y] = "out"
        BY <2>1, <3>1, ContextShape DEF ToggleByCaller, Executing
      <4>2. ~IsIrq(y) => y = x
        BY <2>1, <3>1, ContextShape DEF ToggleByCaller
      <4>3. pc'[y] = "out"
        BY <2>1, <4>1, <4>2 DEF ToggleByCaller
      <4>4. QED
        BY <4>3
    <3>2. CASE Core(y) # Core(x)
      BY <1>1, <2>0, <2>1, <3>2 DEF ToggleByCaller, Entered
    <3>3. QED
      BY <3>1, <3>2
  <2>2. CASE Call(x)
    BY <1>1, <2>2 DEF Call, Entered
  <2>3. CASE Interrupt(x)
    BY <1>1, <2>3 DEF Interrupt, Entered
  <2>4. CASE Disable(x)
    <3>1. IF_[Core(x)] = ~Entered(x)
      <4>1. CASE IsIrq(x)
        BY <2>0, <2>4, <4>1, ContextShape DEF IInv, HandlerOverOpenThread, Disable, Entered
      <4>2. CASE ~IsIrq(x)
        BY <2>0, <2>4, <4>2, ContextShape
           DEF IInv, FlagFollowsThread, Disable, Entered, Executing, Open
      <4>3. QED
        BY <4>1, <4>2
    <3>2. QED
      BY <1>1, <2>0, <2>4, <3>1 DEF Disable, Entered
  <2>5. CASE Exchange(x)
    BY <1>1, <2>5 DEF Exchange, Entered
  <2>6. CASE Record(x)
    <3>1. pc[y] = "held" => y = x
      BY <2>6 DEF IInv, MutualExclusion, Critical, Record
    <3>2. QED
      BY <1>1, <2>6, <3>1 DEF Record, Entered
  <2>7. CASE Backoff(x)
    BY <1>1, <2>7 DEF Backoff, Entered
  <2>8. CASE ReadWas(x)
    BY <1>1, <2>8 DEF ReadWas, Entered
  <2>9. CASE Release(x)
    BY <1>1, <2>9 DEF Release, Entered
  <2>10. CASE Restore(x)
    BY <1>1, <2>10 DEF Restore, Entered
  <2>11. CASE Iret(x)
    BY <1>1, <2>11 DEF Iret, Entered
  <2>12. QED
    BY <1>3, <2>1, <2>2, <2>3, <2>4, <2>5, <2>6, <2>7, <2>8, <2>9, <2>10, <2>11
       DEF Step
<1>4. QED
  BY <1>2, <1>3 DEF Next

-----------------------------------------------------------------------------

(* What holds of the lock in every state.                                  *)
THEOREM LockInvariance == Spec => []IInv
<1>1. IInv /\ [Next]_vars => IInv'
  BY TypeStep, ExclusionStep, FlagStep, LocalStep DEF IInv
<1>2. QED
  BY <1>1, InitIInv, PTL DEF Spec

(* The type invariant, for any set of cores.                                *)
THEOREM TypeCorrect == Spec => []TypeOK
BY LockInvariance, PTL DEF IInv

(* LockGuard's critical sections exclude each other over all cores and over *)
(* thread and handler code.                                                 *)
THEOREM Exclusion == Spec => []MutualExclusion
BY LockInvariance, PTL DEF IInv

(* A core never spins in a handler for a lock its own thread holds.         *)
THEOREM NoCoreDeadlocksItself == Spec => []NoSelfDeadlock
<1>1. IInv => NoSelfDeadlock
  BY DEF IInv, HandlerOverOpenThread, NoSelfDeadlock, Open, Critical
<1>2. QED
  BY <1>1, LockInvariance, PTL

(* lock() and unlock() leave EFLAGS.IF as the caller set it.                *)
THEOREM FlagIsRestored == Spec => []RestoresInterrupts
<1>1. IInv => RestoresInterrupts
  BY DEF IInv, TypeOK, FlagFollowsThread, RestoresInterrupts, Open
<1>2. QED
  BY <1>1, LockInvariance, PTL

(* A handler is never interrupted.                                          *)
THEOREM NoNesting == Spec => []HandlersDoNotNest
<1>1. IInv => HandlersDoNotNest
  BY DEF IInv, HandlerOverOpenThread, HandlersDoNotNest
<1>2. QED
  BY <1>1, LockInvariance, PTL

-----------------------------------------------------------------------------
(* The console, with any threads and programs and whatever they print.     *)

(* The characters have places 1, 2, ...                                    *)
IsSequence == \E S : console \in Seq(S)

LinesTyped ==
  /\ nr \in [Callers -> Nat] /\ place \in [Callers -> {"out", "lock", "dopr", "off"}]
  /\ DOMAIN console = 1..Len(console) /\ Len(console) \in Nat
  /\ IsSequence

(* Debug's lock does its work.                                             *)
OnePrinter ==
  \A c, d \in Threads : place[c] = "dopr" => debugTaken /\ (place[d] = "dopr" => c = d)

(* A character is of a call that has begun, and has got the lock.          *)
Begun ==
  \A i \in DOMAIN console :
    console[i].by \in Threads =>
      /\ console[i].nr <= nr[console[i].by]
      /\ console[i].nr \in Nat
      /\ place[console[i].by] = "lock" => console[i].nr < nr[console[i].by]

(* The i-th character is of the line that its thread is printing.          *)
OfLineInProgress(i) ==
  /\ console[i].by \in Threads
  /\ place[console[i].by] = "dopr" /\ console[i].nr = nr[console[i].by]

(* What is on the console of a line in progress is at its end.             *)
AtTheEnd ==
  \A i, j \in DOMAIN console :
    i < j /\ OfLineInProgress(i) => console[j].by = console[i].by /\ console[j].nr = console[i].nr

Whole ==
  \A i, j, k \in DOMAIN console :
    i < j /\ j < k /\ console[i].by \in Threads
      /\ console[i].by = console[k].by /\ console[i].nr = console[k].nr
    => console[j].by = console[i].by /\ console[j].nr = console[i].nr

Quiet == LinesTyped /\ OnePrinter /\ Begun /\ AtTheEnd /\ Whole

LinesIInv == panicked = {} => Quiet

-----------------------------------------------------------------------------

(* Nobody prints at the start.                                             *)
LEMMA LinesInitially == ConsoleInit => LinesIInv
<1>1. SUFFICES ASSUME ConsoleInit PROVE Quiet
  BY DEF LinesIInv
<1>2. /\ console = <<>> /\ nr = [c \in Callers |-> 0] /\ place = [c \in Callers |-> "out"]
      /\ debugTaken = FALSE
  BY <1>1 DEF ConsoleInit
<1>3. console \in Seq({}) /\ Len(console) = 0 /\ DOMAIN console = 1..0
  BY <1>2
<1>4. LinesTyped
  <2>1. IsSequence
    BY <1>3 DEF IsSequence
  <2> QED BY <1>2, <1>3, <2>1 DEF LinesTyped
<1>5. OnePrinter
  BY <1>2 DEF OnePrinter, Callers
<1>6. Begun /\ AtTheEnd /\ Whole
  BY <1>3 DEF Begun, AtTheEnd, Whole
<1> QED BY <1>4, <1>5, <1>6 DEF Quiet

(* Steps that print nothing and begin no call.                             *)
LEMMA NothingPrinted ==
  ASSUME Quiet, NEW c \in Callers, place' = place, UNCHANGED <<console, debugTaken, nr>>
  PROVE  Quiet'
BY DEF Quiet, LinesTyped, IsSequence, OnePrinter, Begun, OfLineInProgress, AtTheEnd, Whole

(* A call begins,                                                          *)
LEMMA PrintfKeepsQuiet ==
  ASSUME Quiet, panicked = {}, NEW c \in Callers, printf(c)
  PROVE  Quiet'
<1> USE DEF Quiet
<1>1. /\ nr' = [nr EXCEPT ![c] = @ + 1]
      /\ place' = [place EXCEPT ![c] = IF c \in Threads THEN "lock" ELSE "dopr"]
      /\ UNCHANGED <<console, debugTaken>>
  BY DEF printf, GoOn, InKernel
<1>2. LinesTyped'
  BY <1>1 DEF LinesTyped, IsSequence
<1>3. \A d \in Threads : d \in Callers /\ (place'[d] = "dopr" => d # c /\ place[d] = "dopr")
  BY <1>1 DEF LinesTyped, Callers
<1>4. OnePrinter'
  BY <1>1, <1>3 DEF OnePrinter
<1>5. Begun'
  BY <1>1, <1>3 DEF Begun, LinesTyped
<1>6. ASSUME NEW i \in DOMAIN console, OfLineInProgress(i)'
      PROVE  OfLineInProgress(i)
  BY <1>1, <1>3, <1>6 DEF OfLineInProgress, LinesTyped
<1>7. AtTheEnd' /\ Whole'
  BY <1>1, <1>6 DEF AtTheEnd, Whole
<1> QED BY <1>2, <1>4, <1>5, <1>7

(* gets the lock,                                                          *)
LEMMA LockKeepsQuiet ==
  ASSUME Quiet, NEW c \in Callers, Lock(c)
  PROVE  Quiet'
<1> USE DEF Quiet
<1>1. /\ place[c] = "lock" /\ ~debugTaken /\ debugTaken' = TRUE
      /\ place' = [place EXCEPT ![c] = "dopr"]
      /\ UNCHANGED <<console, nr>>
  BY DEF Lock, GoOn
<1>2. LinesTyped'
  BY <1>1 DEF LinesTyped, IsSequence
<1>3. \A d \in Threads : d \in Callers /\ (place'[d] = "dopr" => d = c)
  BY <1>1 DEF LinesTyped, Callers, OnePrinter
<1>4. OnePrinter'
  BY <1>1, <1>3 DEF OnePrinter
<1>5. Begun'
  BY <1>1, <1>3 DEF Begun, LinesTyped
<1>6. ASSUME NEW i \in DOMAIN console PROVE ~OfLineInProgress(i)'
  BY <1>1, <1>3 DEF OfLineInProgress, Begun, LinesTyped
<1>7. AtTheEnd' /\ Whole'
  BY <1>1, <1>6 DEF AtTheEnd, Whole
<1> QED BY <1>2, <1>4, <1>5, <1>7

(* and ends.                                                               *)
LEMMA UnlockKeepsQuiet ==
  ASSUME Quiet, panicked = {}, NEW c \in Callers, Unlock(c)
  PROVE  Quiet'
<1> USE DEF Quiet
<1>1. /\ place[c] = "dopr"
      /\ debugTaken' = IF c \in Threads THEN FALSE ELSE debugTaken
      /\ place' = [place EXCEPT ![c] = IF Head(todo[c]).kind = "shutdown" THEN "off" ELSE "out"]
      /\ UNCHANGED <<console, nr>>
  BY DEF Unlock, GoOn, InKernel
<1>2. LinesTyped'
  BY <1>1 DEF LinesTyped, IsSequence
<1>3. \A d \in Threads :
        /\ d \in Callers
        /\ place'[d] = "dopr" => d # c /\ place[d] = "dopr"
        /\ place'[d] = "lock" => place[d] = "lock"
  BY <1>1 DEF LinesTyped, Callers
<1>4. OnePrinter'
  BY <1>1, <1>3 DEF OnePrinter
<1>5. Begun'
  BY <1>1, <1>3 DEF Begun, LinesTyped
<1>6. ASSUME NEW i \in DOMAIN console, OfLineInProgress(i)'
      PROVE  OfLineInProgress(i)
  BY <1>1, <1>3, <1>6 DEF OfLineInProgress
<1>7. AtTheEnd' /\ Whole'
  BY <1>1, <1>6 DEF AtTheEnd, Whole
<1> QED BY <1>2, <1>4, <1>5, <1>7

(* Whoever prints a character is either the one thread that has the lock,  *)
(* or a program, and then no line is in progress.                          *)
LEMMA PrintingKeepsQuiet ==
  ASSUME Quiet, panicked = {}, NEW c \in Callers, dopr_outch(c)
  PROVE  Quiet'
<1> USE DEF Quiet
<1> DEFINE x == [by |-> c, nr |-> nr[c], ch |-> Head(at[c].out)]
           n == Len(console)
<1>1. /\ place[c] = "dopr" /\ (c \in Threads \/ ~debugTaken)
      /\ console' = Append(console, x)
      /\ UNCHANGED <<debugTaken, nr, place>>
  BY DEF dopr_outch, InKernel
<1>2. n \in Nat /\ DOMAIN console = 1..n /\ nr[c] \in Nat
  BY DEF LinesTyped
<1>3. PICK S : console \in Seq(S)
  BY DEF LinesTyped, IsSequence
<1>4. console \in Seq(S \cup {x})
  BY <1>3
<1>5. /\ console' \in Seq(S \cup {x})
      /\ Len(console') = n + 1 /\ DOMAIN console' = 1..(n + 1)
      /\ \A i \in 1..n : console'[i] = console[i]
      /\ console'[n + 1] = x
  <2> HIDE DEF x
  <2> QED BY <1>1, <1>4
<1> x.by = c /\ x.nr = nr[c]
  OBVIOUS
<1> HIDE DEF x
<1>6. LinesTyped'
  <2>1. IsSequence'
    BY <1>5 DEF IsSequence
  <2> QED BY <1>1, <1>2, <1>5, <2>1 DEF LinesTyped
<1>7. OnePrinter'
  BY <1>1 DEF OnePrinter
<1>8. Begun'
  BY <1>1, <1>2, <1>5 DEF Begun
<1>9. ASSUME NEW i \in 1..n, OfLineInProgress(i)
      PROVE  console[i].by = c /\ console[i].nr = nr[c]
  BY <1>1, <1>2, <1>9 DEF OfLineInProgress, OnePrinter
<1>10. AtTheEnd'
  BY <1>1, <1>2, <1>5, <1>9 DEF AtTheEnd, OfLineInProgress
<1>11. ASSUME NEW i \in 1..n, c \in Threads, console[i].by = c, console[i].nr = nr[c]
       PROVE  OfLineInProgress(i)
  BY <1>1, <1>11 DEF OfLineInProgress
<1>12. Whole'
  BY <1>1, <1>2, <1>5, <1>11 DEF Whole, AtTheEnd
<1> QED BY <1>6, <1>7, <1>8, <1>10, <1>12

(* A step keeps the invariant: one case per action.                        *)
LEMMA LinesInductive == LinesIInv /\ [ConsoleNext]_consoleVars => LinesIInv'
<1> SUFFICES ASSUME LinesIInv, [ConsoleNext]_consoleVars, panicked' = {} PROVE Quiet'
  BY DEF LinesIInv
<1>1. CASE UNCHANGED consoleVars
  BY <1>1 DEF consoleVars, LinesIInv, Quiet, LinesTyped, IsSequence, OnePrinter, Begun,
              OfLineInProgress, AtTheEnd, Whole
<1>2. ASSUME NEW c \in Callers, Proceed(c) PROVE Quiet'
  <2>1. CASE printf(c)
    BY <2>1, PrintfKeepsQuiet DEF printf, LinesIInv
  <2>2. CASE panic(c) \/ pageFault(c)
    BY <2>2 DEF panic, pageFault, vpanic
  <2>3. CASE Lock(c)
    BY <2>3, LockKeepsQuiet DEF Lock, LinesIInv
  <2>4. CASE \/ ReadDefault(c) \/ ReadFlags(c) \/ ReadMin(c) \/ ReadDot(c)
             \/ ReadMax(c) \/ ReadMod(c) \/ ReadConv(c)
    BY <2>4, NothingPrinted
       DEF LinesIInv, Reading, ReadDefault, ReadFlags, ReadMin, ReadDot, ReadMax,
           ReadMod, ReadConv
  <2>5. CASE dopr_outch(c)
    BY <2>5, PrintingKeepsQuiet DEF dopr_outch, LinesIInv
  <2>6. CASE Unlock(c)
    BY <2>6, UnlockKeepsQuiet DEF Unlock, LinesIInv
  <2>7. CASE TurnOff(c)
    BY <2>7, NothingPrinted DEF TurnOff, LinesIInv
  <2> QED BY <1>2, <2>1, <2>2, <2>3, <2>4, <2>5, <2>6, <2>7 DEF Proceed
<1> QED BY <1>1, <1>2 DEF ConsoleNext

(* Unless a thread panics, what a thread in the kernel prints with one     *)
(* call is not torn apart: the lock of Debug (debug.cc:22) is enough,      *)
(* although programs print without a lock of their own.                    *)
THEOREM KernelLinesStayWhole == ConsoleSpec => []LinesStayWhole
<1>1. LinesIInv => LinesStayWhole
  BY DEF LinesIInv, Quiet, Whole, LinesStayWhole
<1> QED BY <1>1, LinesInitially, LinesInductive, PTL DEF ConsoleSpec

-----------------------------------------------------------------------------
(* A set of numbers that is not empty has a least one: the least for which *)
(* something fails stands for an induction.                                *)
LEMMA Least ==
  ASSUME NEW T \in SUBSET Nat, T # {}
  PROVE  \E x \in T : \A y \in T : x <= y
<1> DEFINE R == OpToRel(<, Nat)
<1>1. IsWellFoundedOn(R, Nat)
  BY NatLessThanWellFounded
<1>2. \E x \in T : \A y \in T : ~(<<y, x>> \in R)
  <2> HIDE DEF R
  <2> QED BY <1>1, WFMin
<1>3. \A x, y \in Nat : y < x => <<y, x>> \in R
  BY DEF OpToRel
<1>4. PICK x \in T : \A y \in T : ~(<<y, x>> \in R)
  BY <1>2
<1>5. \A y \in T : ~(y < x)
  <2> HIDE DEF R
  <2> QED BY <1>3, <1>4
<1> QED BY <1>5

-----------------------------------------------------------------------------
(* The digits of a number.                                                 *)

Bases == {8, 10, 16}

(* When s is read from left to right, p has the value after each digit;    *)
(* no zero is in front that is not needed.                                 *)
ReadAs(p, s, base, symbols) ==
  /\ p \in [0..Len(s) -> Nat] /\ p[0] = 0
  /\ Len(s) > 1 => p[1] # 0
  /\ \A k \in 1..Len(s) : \E d \in 0..(base - 1) :
       s[k] = symbols[d + 1] /\ p[k] = base * p[k - 1] + d

(* s are the digits of u.                                                  *)
Denotes(s, u, base, symbols) ==
  /\ Len(s) \in Nat /\ Len(s) >= 1
  /\ \E p : ReadAs(p, s, base, symbols) /\ p[Len(s)] = u

(* The function that convert() builds its result with.                     *)
Conversions(f, base, symbols, n) ==
  f = [v \in 0..n |-> IF v < base THEN <<symbols[v + 1]>>
                      ELSE Append(f[v \div base], symbols[(v % base) + 1])]

(* A number, its quotient and its remainder.                               *)
LEMMA Division ==
  ASSUME NEW base \in Bases, NEW v \in Nat
  PROVE  /\ v \div base \in Nat /\ v % base \in 0..(base - 1)
         /\ v = base * (v \div base) + (v % base)
         /\ v >= base => 0 < v \div base /\ v \div base < v
<1>1. CASE base = 8
  <2>1. v \div 8 \in Nat /\ v % 8 \in 0..(8 - 1) /\ v = 8 * (v \div 8) + (v % 8)
    OBVIOUS
  <2>2. v >= 8 => 0 < v \div 8 /\ v \div 8 < v
    OBVIOUS
  <2> QED BY <1>1, <2>1, <2>2
<1>2. CASE base = 10
  <2>1. v \div 10 \in Nat /\ v % 10 \in 0..(10 - 1) /\ v = 10 * (v \div 10) + (v % 10)
    OBVIOUS
  <2>2. v >= 10 => 0 < v \div 10 /\ v \div 10 < v
    OBVIOUS
  <2> QED BY <1>2, <2>1, <2>2
<1>3. CASE base = 16
  <2>1. v \div 16 \in Nat /\ v % 16 \in 0..(16 - 1) /\ v = 16 * (v \div 16) + (v % 16)
    OBVIOUS
  <2>2. v >= 16 => 0 < v \div 16 /\ v \div 16 < v
    OBVIOUS
  <2> QED BY <1>3, <2>1, <2>2
<1> QED BY <1>1, <1>2, <1>3 DEF Bases

(* There is such a function, for numbers of any size.                      *)
LEMMA ConversionsExist ==
  ASSUME NEW base \in Bases, NEW symbols, NEW n \in Nat
  PROVE  \E f : Conversions(f, base, symbols, n)
<1> DEFINE T == {m \in Nat : ~\E f : Conversions(f, base, symbols, m)}
           Unfold(f, v) == IF v < base THEN <<symbols[v + 1]>>
                           ELSE Append(f[v \div base], symbols[(v % base) + 1])
<1>1. SUFFICES ASSUME T # {} PROVE FALSE
  OBVIOUS
<1>2. PICK m \in T : \A k \in T : m <= k
  BY <1>1, Least
<1>3. \E f : \A v \in 0..(m - 1) : f[v] = Unfold(f, v)
  <2>1. CASE m = 0
    BY <2>1
  <2>2. CASE m # 0
    <3>1. m - 1 \in Nat /\ ~(m - 1 \in T)
      BY <1>2, <2>2
    <3>2. PICK f : Conversions(f, base, symbols, m - 1)
      BY <3>1
    <3>3. \A v \in 0..(m - 1) : f[v] = Unfold(f, v)
      BY <3>2, Zenon DEF Conversions
    <3> QED BY <3>3
  <2> QED BY <2>1, <2>2
<1>4. PICK f : \A v \in 0..(m - 1) : f[v] = Unfold(f, v)
  BY <1>3
<1> DEFINE g == [v \in 0..m |-> IF v = m THEN Unfold(f, m) ELSE f[v]]
<1>5. ASSUME NEW v \in 0..m PROVE g[v] = Unfold(g, v)
  <2>1. Unfold(g, v) = Unfold(f, v)
    <3>1. CASE v < base
      BY <3>1
    <3>2. CASE ~(v < base)
      <4>1. base \in Nat
        BY DEF Bases
      <4>2. v \div base \in Nat /\ v \div base < v
        BY <3>2, <4>1, Division
      <4> DEFINE q == v \div base
      <4>3. g[q] = f[q]
        <5> HIDE DEF Unfold, q
        <5>1. q \in 0..m /\ q # m
          BY <4>2, <1>2 DEF q
        <5> QED BY <5>1
      <4> HIDE DEF g
      <4> QED BY <3>2, <4>3
    <3> QED BY <3>1, <3>2
  <2>2. g[v] = Unfold(f, v)
    <3> HIDE DEF Unfold
    <3>1. v # m => v \in 0..(m - 1)
      BY <1>2
    <3> QED BY <1>4, <3>1
  <2> QED BY <2>1, <2>2
<1>6. Conversions(g, base, symbols, m)
  <2>1. g = [v \in 0..m |-> g[v]]
    OBVIOUS
  <2> HIDE DEF g
  <2>2. [v \in 0..m |-> g[v]] = [v \in 0..m |-> Unfold(g, v)]
    BY <1>5, Zenon
  <2> QED BY <2>1, <2>2, Zenon DEF Conversions
<1> QED BY <1>2, <1>6

(* One more digit.                                                         *)
LEMMA OneMoreDigit ==
  ASSUME NEW base \in Bases, NEW C, NEW symbols, NEW t \in Seq(C), NEW u \in Nat, u > 0,
         Denotes(t, u, base, symbols), NEW d \in 0..(base - 1), symbols[d + 1] \in C
  PROVE  Denotes(Append(t, symbols[d + 1]), base * u + d, base, symbols)
<1> DEFINE s == Append(t, symbols[d + 1])
           n == Len(t)
           v == base * u + d
<1>1. PICK p :
        /\ p \in [0..n -> Nat]
        /\ p[0] = 0 /\ p[n] = u /\ (n > 1 => p[1] # 0)
        /\ \A k \in 1..n : \E e \in 0..(base - 1) : t[k] = symbols[e + 1] /\ p[k] = base * p[k - 1] + e
  BY DEF Denotes, ReadAs
<1>2. n \in Nat /\ n >= 1
  BY DEF Denotes
<1>3. v \in Nat
  <2>1. base = 8 \/ base = 10 \/ base = 16
    BY DEF Bases
  <2> QED BY <2>1
<1>4. Len(s) = n + 1 /\ s[n + 1] = symbols[d + 1] /\ \A k \in 1..n : s[k] = t[k]
  OBVIOUS
<1> DEFINE q == [k \in 0..(n + 1) |-> IF k = n + 1 THEN v ELSE p[k]]
<1>5. q \in [0..(n + 1) -> Nat] /\ q[0] = 0 /\ q[n + 1] = v /\ q[n] = u /\ q[1] # 0
      /\ \A k \in 0..n : q[k] = p[k]
  <2> HIDE DEF v, n
  <2>1. n = 1 => p[1] # 0
    BY <1>1
  <2>2. \A k \in 0..n : k # n + 1 /\ k \in 0..(n + 1)
    BY <1>2
  <2>3. q \in [0..(n + 1) -> Nat]
    <3>1. p \in [0..n -> Nat]
      BY <1>1
    <3>2. \A k \in 0..(n + 1) : k = n + 1 \/ k \in 0..n
      BY <1>2
    <3> QED BY <1>3, <3>1, <3>2
  <2>4. \A k \in 0..n : q[k] = p[k]
    BY <2>2
  <2>5. q[n + 1] = v
    BY <1>2
  <2> HIDE DEF q
  <2>6. q[0] = 0 /\ q[n] = u /\ q[1] # 0
    <3>1. 0 \in 0..n /\ n \in 0..n /\ 1 \in 0..n
      BY <1>2
    <3>2. p[1] # 0
      BY <1>1, <1>2, <2>1
    <3> QED BY <1>1, <2>4, <3>1, <3>2
  <2> QED BY <2>3, <2>4, <2>5, <2>6
<1>6. ASSUME NEW k \in 1..(n + 1)
      PROVE  \E e \in 0..(base - 1) : s[k] = symbols[e + 1] /\ q[k] = base * q[k - 1] + e
  <2>1. CASE k = n + 1
    <3>1. q[k] = base * q[k - 1] + d
      <4>1. k - 1 = n
        BY <1>2, <2>1
      <4> QED BY <1>5, <2>1, <4>1
    <3> QED BY <1>4, <2>1, <3>1
  <2>2. CASE k # n + 1
    <3>1. k \in 1..n /\ k - 1 \in 0..n /\ k \in 0..n
      BY <1>2, <2>2
    <3> HIDE DEF s, q, n
    <3> QED BY <1>1, <1>4, <1>5, <3>1
  <2> QED BY <2>1, <2>2
<1> HIDE DEF s, q, v
<1>7. Denotes(s, v, base, symbols)
  <2>1. ReadAs(q, s, base, symbols)
    <3> HIDE DEF n
    <3> QED BY <1>2, <1>4, <1>5, <1>6 DEF ReadAs
  <2>2. Len(s) \in Nat /\ Len(s) >= 1 /\ q[Len(s)] = v
    <3> HIDE DEF n
    <3> QED BY <1>2, <1>4, <1>5
  <2> QED BY <2>1, <2>2, Zenon DEF Denotes
<1> QED BY <1>7 DEF s, v

(* A single digit.                                                         *)
LEMMA OneDigit ==
  ASSUME NEW base \in Bases, NEW symbols, NEW d \in 0..(base - 1)
  PROVE  Denotes(<<symbols[d + 1]>>, d, base, symbols)
<1> DEFINE s == <<symbols[d + 1]>>
           p == [k \in 0..1 |-> IF k = 0 THEN 0 ELSE d]
<1>1. base \in Nat /\ d \in Nat
  BY DEF Bases
<1>2. Len(s) = 1 /\ s[1] = symbols[d + 1]
  OBVIOUS
<1>3. p \in [0..1 -> Nat] /\ p[0] = 0 /\ p[1] = d
  BY <1>1
<1>4. ASSUME NEW k \in 1..1
      PROVE  \E e \in 0..(base - 1) : s[k] = symbols[e + 1] /\ p[k] = base * p[k - 1] + e
  <2>1. k = 1 /\ k - 1 = 0
    OBVIOUS
  <2>2. p[k] = base * p[k - 1] + d
    BY <1>1, <1>3, <2>1
  <2> QED BY <1>2, <2>1, <2>2
<1> HIDE DEF s, p
<1>5. Denotes(s, d, base, symbols)
  <2>1. ReadAs(p, s, base, symbols)
    BY <1>2, <1>3, <1>4 DEF ReadAs
  <2>2. Len(s) \in Nat /\ Len(s) >= 1 /\ p[Len(s)] = d
    BY <1>2, <1>3
  <2> QED BY <2>1, <2>2, Zenon DEF Denotes
<1> QED BY <1>5 DEF s

(* convert() of fmtint() writes the digits of any number, no more than     *)
(* needed.                                                                 *)
THEOREM ConversionIsExact ==
  ASSUME NEW base \in Bases, NEW C, NEW symbols, \A d \in 0..(base - 1) : symbols[d + 1] \in C,
         NEW u \in Nat
  PROVE  /\ convert(u, base, symbols) \in Seq(C)
         /\ Denotes(convert(u, base, symbols), u, base, symbols)
<1> DEFINE from == CHOOSE f : Conversions(f, base, symbols, u)
<1>1. convert(u, base, symbols) = from[u]
  BY Zenon DEF convert, Conversions
<1>2. Conversions(from, base, symbols, u)
  <2>1. \E f : Conversions(f, base, symbols, u)
    BY ConversionsExist
  <2> QED BY <2>1, Zenon
<1> HIDE DEF from
<1>3. \A v \in 0..u : from[v] = IF v < base THEN <<symbols[v + 1]>>
                                ELSE Append(from[v \div base], symbols[(v % base) + 1])
  BY <1>2, Zenon DEF Conversions
<1> DEFINE Right(v) == from[v] \in Seq(C) /\ Denotes(from[v], v, base, symbols)
           T == {v \in 0..u : ~Right(v)}
<1>4. T = {}
  <2> SUFFICES ASSUME T # {} PROVE FALSE
    OBVIOUS
  <2>1. PICK v \in T : \A k \in T : v <= k
    <3>1. T \in SUBSET Nat
      OBVIOUS
    <3> HIDE DEF T
    <3> QED BY <3>1, Least
  <2>2. v \in 0..u /\ v \in Nat /\ base \in Nat
    BY DEF Bases
  <2>3. CASE v < base
    <3>1. from[v] = <<symbols[v + 1]>>
      BY <1>3, <2>2, <2>3
    <3>2. v \in 0..(base - 1)
      BY <2>2, <2>3
    <3>3. Denotes(<<symbols[v + 1]>>, v, base, symbols)
      <4> HIDE DEF T
      <4> QED BY <3>2, OneDigit
    <3>4. symbols[v + 1] \in C
      BY <3>2
    <3>5. from[v] \in Seq(C)
      BY <3>1, <3>4
    <3>6. Right(v)
      BY <3>1, <3>3, <3>5
    <3> QED BY <2>1, <3>6
  <2>4. CASE ~(v < base)
    <3> DEFINE q == v \div base
               d == v % base
    <3>1. q \in Nat /\ d \in 0..(base - 1) /\ v = base * q + d /\ 0 < q /\ q < v
      <4>1. /\ q \in Nat /\ d \in 0..(base - 1) /\ v = base * q + d
            /\ v >= base => 0 < q /\ q < v
        <5> HIDE DEF T
        <5> QED BY <2>2, Division
      <4>2. v >= base
        BY <2>2, <2>4
      <4> HIDE DEF q, d, T
      <4> QED BY <4>1, <4>2
    <3>2. from[v] = Append(from[q], symbols[d + 1])
      BY <1>3, <2>2, <2>4
    <3> HIDE DEF q, d
    <3>3. Right(q)
      <4>1. q \in 0..u /\ ~(q \in T)
        <5>1. q \in 0..u
          BY <2>2, <3>1
        <5>2. q \in T => v <= q
          BY <2>1
        <5> HIDE DEF T
        <5> QED BY <2>2, <3>1, <5>1, <5>2
      <4> QED BY <4>1
    <3>4. symbols[d + 1] \in C
      BY <3>1
    <3>5. Denotes(Append(from[q], symbols[d + 1]), base * q + d, base, symbols)
      BY <3>1, <3>3, <3>4, OneMoreDigit
    <3>6. Append(from[q], symbols[d + 1]) \in Seq(C)
      BY <3>3, <3>4
    <3>7. Right(v)
      BY <3>1, <3>2, <3>5, <3>6
    <3> QED BY <2>1, <3>7
  <2> QED BY <2>3, <2>4
<1>5. Right(u)
  <2>1. u \in 0..u
    OBVIOUS
  <2> QED BY <1>4, <2>1
<1> QED BY <1>1, <1>5

-----------------------------------------------------------------------------
(* The field of a number.                                                  *)

(* A character n times.                                                    *)
LEMMA Repeated ==
  ASSUME NEW Chars, NEW char \in Chars, NEW n \in Int
  PROVE  /\ Repeat(char, n) \in Seq(Chars) /\ Len(Repeat(char, n)) = MaxOf(n, 0)
         /\ \A k \in 1..Len(Repeat(char, n)) : Repeat(char, n)[k] = char
<1>1. CASE n >= 0
  <2>1. n \in Nat
    BY <1>1
  <2> QED BY <1>1, <2>1 DEF Repeat, MaxOf
<1>2. CASE ~(n >= 0)
  <2>1. 1..n = {} /\ 1..0 = {}
    BY <1>2
  <2>2. Repeat(char, n) = [k \in 1..0 |-> char]
    BY <2>1 DEF Repeat
  <2>3. [k \in 1..0 |-> char] \in Seq(Chars) /\ Len([k \in 1..0 |-> char]) = 0
    OBVIOUS
  <2> QED BY <1>2, <2>1, <2>2, <2>3 DEF MaxOf
<1> QED BY <1>1, <1>2

(* Two sequences, one behind the other.                                    *)
LEMMA Joined ==
  ASSUME NEW C, NEW s \in Seq(C), NEW t \in Seq(C)
  PROVE  s \o t \in Seq(C) /\ Len(s \o t) = Len(s) + Len(t)
OBVIOUS

(* What numbers are made of.                                               *)
Chars == {Lower[k] : k \in 1..16} \cup {Upper[k] : k \in 1..16} \cup {"-", "+", " ", "0"}

SymbolsOf(flags) == IF "up" \in flags THEN Upper ELSE Lower

(* How a value below zero is taken.                                        *)
Magnitude(value, flags) ==
  IF "unsigned" \in flags THEN value % W ELSE IF value < 0 THEN -value ELSE value

(* The sign is one of them, or nothing.                                    *)
LEMMA SignIsChars ==
  ASSUME NEW value \in Int, NEW flags
  PROVE  sign(value, flags) \in Seq(Chars) /\ Len(sign(value, flags)) \in Nat
<1>1. "-" \in Chars /\ "+" \in Chars /\ " " \in Chars
  BY DEF Chars
<1> HIDE DEF Chars
<1>2. sign(value, flags) \in {<<>>, <<"-">>, <<"+">>, <<" ">>}
  BY DEF sign
<1>3. \A c \in Chars : <<c>> \in Seq(Chars) /\ Len(<<c>>) \in Nat
  OBVIOUS
<1>4. <<>> \in Seq(Chars) /\ Len(<<>>) \in Nat
  OBVIOUS
<1> QED BY <1>1, <1>2, <1>3, <1>4

(* What the widths come to.                                                *)
LEMMA Widths ==
  ASSUME NEW min \in Int, NEW max \in Int, NEW d \in Nat, NEW g \in Nat, NEW filled \in BOOLEAN,
         filled => max < 0
  PROVE  LET spad == space(min, MaxOf(max, d), g)
             zn == MaxOf(max - d, IF filled THEN spad ELSE 0)
             sn == IF filled THEN 0 ELSE spad IN
         /\ zn \in Nat /\ sn \in Nat /\ zn + d >= max
         /\ ~filled => zn + d = MaxOf(max, d)
         /\ g + zn + d + sn = MaxOf(min, g + MaxOf(max, d))
BY DEF space, MaxOf

(* A number comes out with its sign, at least as many digits as the        *)
(* precision asks for, and as many spaces or zeros as the width does; its  *)
(* digits are those of the value.                                          *)
THEOREM NumbersFillTheirField ==
  ASSUME NEW value \in Int, NEW base \in Bases, NEW min \in Int, NEW max \in Int, NEW flags,
         "0" \in flags => "-" \notin flags /\ max < 0
  PROVE  \E digits, zeros, spaces \in Seq(Chars) :
           LET signed == sign(value, flags)
               s == fmtint(value, base, min, max, flags) IN
           /\ Denotes(digits, Magnitude(value, flags), base, SymbolsOf(flags))
           /\ \A k \in 1..Len(zeros) : zeros[k] = "0"
           /\ \A k \in 1..Len(spaces) : spaces[k] = " "
           /\ s = IF "-" \in flags THEN signed \o zeros \o digits \o spaces
                  ELSE spaces \o (signed \o zeros \o digits)
           /\ Len(zeros) + Len(digits) >= max
           /\ IF "0" \in flags THEN spaces = <<>>
              ELSE Len(zeros) + Len(digits) = MaxOf(max, Len(digits))
           /\ Len(s) = MaxOf(min, Len(signed) + MaxOf(max, Len(digits)))
<1> DEFINE u == Magnitude(value, flags)
           symbols == SymbolsOf(flags)
           digits == convert(u, base, symbols)
           signed == sign(value, flags)
           filled == "0" \in flags
           spad == space(min, MaxOf(max, Len(digits)), Len(signed))
           zn == MaxOf(max - Len(digits), IF filled THEN spad ELSE 0)
           sn == IF filled THEN 0 ELSE spad
           zeros == Repeat("0", zn)
           spaces == Repeat(" ", sn)
           number == signed \o zeros \o digits
           s == fmtint(value, base, min, max, flags)
<1>1. s = IF "-" \in flags THEN number \o spaces ELSE spaces \o number
  BY DEF fmtint, Magnitude, SymbolsOf
<1>2. u \in Nat
  <2>1. value % W \in Nat
    BY FormatAssumption
  <2> QED BY <2>1 DEF Magnitude
<1>3. \A d \in 0..(base - 1) : symbols[d + 1] \in Chars
  <2>1. \A k \in 1..16 : symbols[k] \in Chars
    BY DEF SymbolsOf, Chars
  <2>2. \A d \in 0..(base - 1) : d + 1 \in 1..16
    BY DEF Bases
  <2> QED BY <2>1, <2>2
<1> HIDE DEF u, symbols, s
<1>4. digits \in Seq(Chars) /\ Denotes(digits, u, base, symbols) /\ Len(digits) \in Nat
  <2> HIDE DEF Chars
  <2>1. digits \in Seq(Chars) /\ Denotes(digits, u, base, symbols)
    BY <1>2, <1>3, ConversionIsExact
  <2> HIDE DEF digits
  <2>2. Len(digits) \in Nat
    BY <2>1
  <2> QED BY <2>1, <2>2
<1>5. signed \in Seq(Chars) /\ Len(signed) \in Nat
  BY SignIsChars
<1> HIDE DEF digits, signed
<1>6. /\ zn \in Nat /\ sn \in Nat /\ zn + Len(digits) >= max
      /\ ~filled => zn + Len(digits) = MaxOf(max, Len(digits))
      /\ Len(signed) + zn + Len(digits) + sn = MaxOf(min, Len(signed) + MaxOf(max, Len(digits)))
  <2>1. filled \in BOOLEAN /\ (filled => max < 0)
    OBVIOUS
  <2> HIDE DEF filled
  <2> QED BY <1>4, <1>5, <2>1, Widths
<1>7. filled => sn = 0
  OBVIOUS
<1> HIDE DEF zn, sn, spad
<1>8. /\ zeros \in Seq(Chars) /\ Len(zeros) = zn /\ \A k \in 1..Len(zeros) : zeros[k] = "0"
      /\ spaces \in Seq(Chars) /\ Len(spaces) = sn /\ \A k \in 1..Len(spaces) : spaces[k] = " "
  <2>1. "0" \in Chars /\ " " \in Chars
    BY DEF Chars
  <2>2. MaxOf(zn, 0) = zn /\ MaxOf(sn, 0) = sn /\ zn \in Int /\ sn \in Int
    BY <1>6 DEF MaxOf
  <2>3. /\ zeros \in Seq(Chars) /\ Len(zeros) = zn /\ \A k \in 1..Len(zeros) : zeros[k] = "0"
    <3> DEFINE char == "0"
    <3>1. char \in Chars
      BY <2>1
    <3> HIDE DEF char
    <3>2. LET r == Repeat(char, zn) IN
          r \in Seq(Chars) /\ Len(r) = zn /\ \A k \in 1..Len(r) : r[k] = char
      BY <2>2, <3>1, Repeated
    <3> QED BY <3>2 DEF char
  <2>4. /\ spaces \in Seq(Chars) /\ Len(spaces) = sn /\ \A k \in 1..Len(spaces) : spaces[k] = " "
    <3> DEFINE char == " "
    <3>1. char \in Chars
      BY <2>1
    <3> HIDE DEF char
    <3>2. LET r == Repeat(char, sn) IN
          r \in Seq(Chars) /\ Len(r) = sn /\ \A k \in 1..Len(r) : r[k] = char
      BY <2>2, <3>1, Repeated
    <3> QED BY <3>2 DEF char
  <2> QED BY <2>3, <2>4
<1> HIDE DEF zeros, spaces
<1>9. Len(s) = Len(signed) + zn + Len(digits) + sn
  <2>1. number \in Seq(Chars) /\ Len(number) = Len(signed) + zn + Len(digits)
    <3>1. signed \o zeros \in Seq(Chars) /\ Len(signed \o zeros) = Len(signed) + Len(zeros)
      BY <1>5, <1>8, Joined
    <3>2. number \in Seq(Chars) /\ Len(number) = Len(signed \o zeros) + Len(digits)
      BY <1>4, <3>1, Joined
    <3> HIDE DEF number
    <3> QED BY <1>8, <3>1, <3>2
  <2> HIDE DEF number
  <2>2. Len(number \o spaces) = Len(number) + Len(spaces) /\ Len(spaces \o number) = Len(spaces) + Len(number)
    BY <2>1, <1>8, Joined
  <2>3. Len(s) = Len(number) + sn
    <3>1. Len(number) \in Nat /\ sn \in Nat
      BY <1>4, <1>5, <1>6, <2>1
    <3>2. s = number \o spaces \/ s = spaces \o number
      BY <1>1 DEF number
    <3>3. Len(spaces) = sn
      BY <1>8
    <3>4. Len(spaces) + Len(number) = Len(number) + sn /\ Len(number) + Len(spaces) = Len(number) + sn
      BY <3>1, <3>3
    <3> QED BY <2>2, <3>2, <3>4, Zenon
  <2> QED BY <2>1, <2>3
<1>10. filled => spaces = <<>>
  <2>1. \A t \in Seq(Chars) : Len(t) = 0 => t = <<>>
    OBVIOUS
  <2> HIDE DEF Chars, filled
  <2> QED BY <1>7, <1>8, <2>1
<1> HIDE DEF filled
<1>11. /\ s = IF "-" \in flags THEN signed \o zeros \o digits \o spaces
              ELSE spaces \o (signed \o zeros \o digits)
       /\ Len(zeros) + Len(digits) >= max
       /\ IF filled THEN spaces = <<>> ELSE Len(zeros) + Len(digits) = MaxOf(max, Len(digits))
       /\ Len(s) = MaxOf(min, Len(signed) + MaxOf(max, Len(digits)))
  BY <1>1, <1>6, <1>8, <1>9, <1>10
<1>12. /\ Denotes(digits, u, base, symbols)
       /\ \A k \in 1..Len(zeros) : zeros[k] = "0"
       /\ \A k \in 1..Len(spaces) : spaces[k] = " "
  BY <1>4, <1>8
<1> QED BY <1>4, <1>8, <1>11, <1>12 DEF u, symbols, signed, filled, s

-----------------------------------------------------------------------------
(* The heap.                                                               *)

(* A set of numbers that is bounded has a greatest one.                    *)
LEMMA Greatest ==
  ASSUME NEW T \in SUBSET Nat, T # {}, NEW n \in Nat, \A y \in T : y <= n
  PROVE  \E x \in T : \A y \in T : y <= x
<1> DEFINE U == {k \in Nat : \E y \in T : k = n - y}
<1>1. U # {}
  <2>1. PICK y \in T : TRUE
    OBVIOUS
  <2>2. n - y \in Nat
    OBVIOUS
  <2> QED BY <2>2
<1>2. PICK k \in U : \A j \in U : k <= j
  BY <1>1, Least
<1>3. PICK x \in T : k = n - x
  BY <1>2
<1>4. \A y \in T : n - y \in U
  OBVIOUS
<1>5. \A y \in T : k <= n - y
  BY <1>2, <1>4
<1> QED BY <1>3, <1>5

-----------------------------------------------------------------------------

(* The block that closes the array.                                        *)
End == Len4 - 2

(* The array and the first of the list.                                    *)
HeapType == [array : [Index -> Int], avail : Index]

(* The blocks that fill the array, with their sizes at both ends.          *)
Tiles(h, S) ==
  /\ 2 \in S /\ S \subseteq 2..(Len4 - 6)
  /\ h.array[0] = -2 /\ h.array[1] = -2 /\ h.array[End] = -2 /\ h.array[End + 1] = -2
  /\ \A i \in S : /\ size(h, i) >= 4 /\ right(h, i) \in S \cup {End}
                  /\ h.array[footerFromHeader(h, i)] = h.array[i]
  /\ \A i, j \in S : i < j => right(h, i) <= j

FreeOf(h, S) == {i \in S : isAvail(h, i)}

(* The list links the blocks F.  A block has a stamp that is lower than    *)
(* that of the next one, so that it does not run in circles.               *)
LinksOf(h, F, stamp, f) ==
  /\ next(h, f) \in F \cup {0} /\ prev(h, f) \in F \cup {0}
  /\ next(h, f) # 0 => prev(h, next(h, f)) = f /\ stamp[f] < stamp[next(h, f)]
  /\ prev(h, f) # 0 => next(h, prev(h, f)) = f
  /\ prev(h, f) = 0 <=> h.avail = f

Linked(h, F, stamp) ==
  /\ F \subseteq 2..(Len4 - 6)
  /\ \A f, g \in F : f < g => f + 4 <= g
  /\ stamp \in [Index -> Nat]
  /\ h.avail \in F \cup {0}
  /\ \A f \in F : LinksOf(h, F, stamp, f)

(* The words that hold links.                                              *)
IsLink(F, j) == \E f \in F : j = f + 1 \/ j = f + 2

-----------------------------------------------------------------------------

(* What the assumption says of the places in the array.                    *)
LEMMA Sizes ==
  /\ Len4 \in Nat /\ Len4 >= 8 /\ Index = 0..(Len4 - 1) /\ End \in Nat /\ End >= 6
  /\ End + 1 = Len4 - 1 /\ Len4 - 6 \in Nat
  /\ SizeW \in Nat /\ SizeW % 4 = 0 /\ SizeW >= 4 * Len4
BY HeapAssumption DEF Index, End

(* What is in the array after a store.                                     *)
LEMMA Store ==
  ASSUME NEW h \in HeapType, NEW j \in Index, NEW x \in Int, NEW g, g = [h EXCEPT !.array[j] = x]
  PROVE  /\ g \in HeapType /\ g.avail = h.avail
         /\ \A k \in Index : g.array[k] = IF k = j THEN x ELSE h.array[k]
BY DEF HeapType

(* What is there after the first of the list is set.                       *)
LEMMA SetAvail ==
  ASSUME NEW h \in HeapType, NEW x \in Index, NEW g, g = [h EXCEPT !.avail = x]
  PROVE  g \in HeapType /\ g.avail = x /\ g.array = h.array
BY DEF HeapType

(* What remove() writes: two links.                                        *)
LEMMA Removed ==
  ASSUME NEW h \in HeapType, NEW F, NEW stamp, Linked(h, F, stamp), NEW i \in F
  PROVE  LET g == remove(h, i)
             pn == prev(h, i)
             nx == next(h, i) IN
         /\ g \in HeapType
         /\ g.avail = IF pn = 0 THEN nx ELSE h.avail
         /\ \A j \in Index : g.array[j] = IF pn # 0 /\ j = pn + 1 THEN nx
                                          ELSE IF nx # 0 /\ j = nx + 2 THEN pn ELSE h.array[j]
<1> DEFINE pn == prev(h, i)
           nx == next(h, i)
           u == IF pn = 0 THEN [h EXCEPT !.avail = nx] ELSE [h EXCEPT !.array[pn + 1] = nx]
           g == IF nx = 0 THEN u ELSE [u EXCEPT !.array[nx + 2] = pn]
<1>1. g = remove(h, i)
  BY DEF remove, setNext, setPrev
<1>2. /\ pn \in F \cup {0} /\ nx \in F \cup {0} /\ pn \in Index /\ nx \in Index
      /\ (pn # 0 => pn + 1 \in Index) /\ (nx # 0 => nx + 2 \in Index)
      /\ (pn # 0 /\ nx # 0 => pn + 1 # nx + 2)
      /\ pn \in Int /\ nx \in Int
  <2>1. /\ F \subseteq 2..(Len4 - 6) /\ LinksOf(h, F, stamp, i)
        /\ \A f, e \in F : f < e => f + 4 <= e
    BY DEF Linked
  <2>2. pn \in F \cup {0} /\ nx \in F \cup {0}
    BY <2>1 DEF LinksOf
  <2> HIDE DEF pn, nx
  <2> QED BY <2>1, <2>2, Sizes
<1> HIDE DEF pn, nx
<1>3. /\ u \in HeapType
      /\ u.avail = IF pn = 0 THEN nx ELSE h.avail
      /\ \A j \in Index : u.array[j] = IF pn # 0 /\ j = pn + 1 THEN nx ELSE h.array[j]
  <2>1. CASE pn = 0
    BY <2>1, <1>2, SetAvail
  <2>2. CASE pn # 0
    <3> DEFINE j0 == pn + 1
    <3>1. j0 \in Index /\ nx \in Int
      BY <1>2, <2>2
    <3>2. u = [h EXCEPT !.array[j0] = nx]
      BY <2>2
    <3> HIDE DEF j0, u
    <3>3. u \in HeapType /\ u.avail = h.avail
          /\ \A k \in Index : u.array[k] = IF k = j0 THEN nx ELSE h.array[k]
      BY <3>1, <3>2, Store
    <3> QED BY <2>2, <3>3 DEF j0
  <2> QED BY <2>1, <2>2
<1>4. /\ g \in HeapType /\ g.avail = u.avail
      /\ \A j \in Index : g.array[j] = IF nx # 0 /\ j = nx + 2 THEN pn ELSE u.array[j]
  <2> HIDE DEF u
  <2>1. CASE nx = 0
    BY <2>1, <1>3
  <2>2. CASE nx # 0
    BY <2>2, <1>2, <1>3, Store
  <2> QED BY <2>1, <2>2
<1> HIDE DEF u, g
<1>5. /\ g \in HeapType
      /\ g.avail = IF pn = 0 THEN nx ELSE h.avail
      /\ \A j \in Index : g.array[j] = IF pn # 0 /\ j = pn + 1 THEN nx
                                          ELSE IF nx # 0 /\ j = nx + 2 THEN pn ELSE h.array[j]
  BY <1>2, <1>3, <1>4
<1> QED BY <1>1, <1>5 DEF pn, nx

(* remove() takes a block out of the list and changes links only.          *)
LEMMA RemoveUnlinks ==
  ASSUME NEW h \in HeapType, NEW F, NEW stamp, Linked(h, F, stamp), NEW i \in F
  PROVE  /\ remove(h, i) \in HeapType
         /\ Linked(remove(h, i), F \ {i}, stamp)
         /\ \A j \in Index : IsLink(F, j) \/ remove(h, i).array[j] = h.array[j]
<1> DEFINE g == remove(h, i)
           pn == prev(h, i)
           nx == next(h, i)
<1>1. /\ g \in HeapType
      /\ g.avail = IF pn = 0 THEN nx ELSE h.avail
      /\ \A j \in Index : g.array[j] = IF pn # 0 /\ j = pn + 1 THEN nx
                                       ELSE IF nx # 0 /\ j = nx + 2 THEN pn ELSE h.array[j]
  BY Removed
<1>2. /\ F \subseteq 2..(Len4 - 6) /\ stamp \in [Index -> Nat] /\ h.avail \in F \cup {0}
      /\ \A f, e \in F : f < e => f + 4 <= e
      /\ \A f \in F : f + 1 \in Index /\ f + 2 \in Index /\ f \in Index /\ f # 0
  BY Sizes DEF Linked
<1>3. LinksOf(h, F, stamp, i) /\ \A f \in F : LinksOf(h, F, stamp, f)
  BY DEF Linked
<1>4. pn \in F \cup {0} /\ nx \in F \cup {0}
  BY <1>3 DEF LinksOf
<1> HIDE DEF g
<1>5. \A f \in F : /\ next(g, f) = IF pn # 0 /\ f = pn THEN nx ELSE next(h, f)
                   /\ prev(g, f) = IF nx # 0 /\ f = nx THEN pn ELSE prev(h, f)
  <2> SUFFICES ASSUME NEW f \in F
               PROVE  /\ next(g, f) = IF pn # 0 /\ f = pn THEN nx ELSE next(h, f)
                      /\ prev(g, f) = IF nx # 0 /\ f = nx THEN pn ELSE prev(h, f)
    OBVIOUS
  <2> HIDE DEF pn, nx
  <2>1. /\ (pn # 0 => (f + 1 = pn + 1 <=> f = pn) /\ f + 2 # pn + 1)
        /\ (nx # 0 => (f + 2 = nx + 2 <=> f = nx) /\ f + 1 # nx + 2)
    BY <1>2, <1>4
  <2> QED BY <1>1, <1>2, <2>1 DEF next, prev
<1>6. i # pn /\ i # nx
  BY <1>2, <1>3 DEF LinksOf
<1>7. g.avail \in (F \ {i}) \cup {0}
  BY <1>1, <1>2, <1>3, <1>4, <1>6 DEF LinksOf
<1>8. ASSUME NEW f \in F \ {i}
      PROVE  LinksOf(g, F \ {i}, stamp, f)
  <2>1. LinksOf(h, F, stamp, f) /\ LinksOf(h, F, stamp, i)
    BY <1>3
  <2>2. next(g, f) \in (F \ {i}) \cup {0} /\ prev(g, f) \in (F \ {i}) \cup {0}
    BY <1>2, <1>3, <1>4, <1>5, <1>6, <2>1 DEF LinksOf
  <2>3. next(g, f) # 0 => prev(g, next(g, f)) = f /\ stamp[f] < stamp[next(g, f)]
    <3>1. CASE pn # 0 /\ f = pn
      <4>1. stamp[pn] \in Nat /\ stamp[i] \in Nat /\ stamp[pn] < stamp[i]
        BY <1>2, <1>3, <1>4, <3>1 DEF LinksOf
      <4>2. nx # 0 => stamp[nx] \in Nat /\ stamp[i] < stamp[nx]
        BY <1>2, <1>3, <1>4 DEF LinksOf
      <4> HIDE DEF pn, nx
      <4> QED BY <1>2, <1>4, <1>5, <3>1, <4>1, <4>2
    <3>2. CASE ~(pn # 0 /\ f = pn)
      <4>1. next(g, f) = next(h, f)
        BY <1>5, <3>2
      <4>2. next(h, f) # nx \/ next(h, f) = 0
        BY <1>2, <1>3, <1>4, <2>1 DEF LinksOf
      <4> QED BY <1>5, <2>1, <4>1, <4>2 DEF LinksOf
    <3> QED BY <3>1, <3>2
  <2>4. prev(g, f) # 0 => next(g, prev(g, f)) = f
    <3>1. CASE nx # 0 /\ f = nx
      BY <1>2, <1>4, <1>5, <3>1
    <3>2. CASE ~(nx # 0 /\ f = nx)
      <4>1. prev(g, f) = prev(h, f)
        BY <1>5, <3>2
      <4>2. prev(h, f) # pn \/ prev(h, f) = 0
        BY <1>2, <1>3, <1>4, <2>1 DEF LinksOf
      <4> QED BY <1>5, <2>1, <4>1, <4>2 DEF LinksOf
    <3> QED BY <3>1, <3>2
  <2>5. prev(g, f) = 0 <=> g.avail = f
    BY <1>1, <1>2, <1>3, <1>4, <1>5, <2>1 DEF LinksOf
  <2> QED BY <2>2, <2>3, <2>4, <2>5 DEF LinksOf
<1>9. Linked(g, F \ {i}, stamp)
  BY <1>2, <1>7, <1>8 DEF Linked
<1>10. \A j \in Index : IsLink(F, j) \/ g.array[j] = h.array[j]
  BY <1>1, <1>4 DEF IsLink
<1> QED BY <1>1, <1>9, <1>10 DEF g

(* Stores elsewhere leave the list as it is.                               *)
LEMMA StaysLinked ==
  ASSUME NEW h, NEW g, NEW F, NEW stamp, Linked(h, F, stamp), g.avail = h.avail,
         \A j \in Index : IsLink(F, j) => g.array[j] = h.array[j]
  PROVE  Linked(g, F, stamp)
<1>1. \A f \in F : f + 1 \in Index /\ f + 2 \in Index /\ IsLink(F, f + 1) /\ IsLink(F, f + 2)
  BY Sizes DEF Linked, IsLink
<1>2. \A f \in F : next(g, f) = next(h, f) /\ prev(g, f) = prev(h, f)
  BY <1>1 DEF next, prev
<1> QED BY <1>2, ZenonT(60) DEF Linked, LinksOf

TagOn(h, g, i, n, tag) ==
  \A k \in Index : g.array[k] = IF k = i \/ k = i + n - 1 THEN tag ELSE h.array[k]

(* A block gets its size at both ends.                                     *)
LEMMA Tagged ==
  ASSUME NEW h \in HeapType, NEW i \in Index, NEW n \in Int, i + n - 1 \in Index, NEW tag \in Int
  PROVE  /\ Tag(h, i, n, tag) \in HeapType /\ Tag(h, i, n, tag).avail = h.avail
         /\ TagOn(h, Tag(h, i, n, tag), i, n, tag)
<1> DEFINE a == [h EXCEPT !.array[i] = tag]
           g == [a EXCEPT !.array[i + n - 1] = tag]
<1>1. a \in HeapType /\ a.avail = h.avail
      /\ \A k \in Index : a.array[k] = IF k = i THEN tag ELSE h.array[k]
  BY Store
<1>2. Tag(h, i, n, tag) = g
  BY DEF Tag, HeapType
<1>3. g \in HeapType /\ g.avail = a.avail
      /\ \A k \in Index : g.array[k] = IF k = i + n - 1 THEN tag ELSE a.array[k]
  <2> DEFINE j == i + n - 1
  <2> HIDE DEF a, j
  <2>1. [a EXCEPT !.array[j] = tag] = g
    BY DEF j
  <2>2. j \in Index
    BY DEF j
  <2>3. /\ [a EXCEPT !.array[j] = tag] \in HeapType /\ [a EXCEPT !.array[j] = tag].avail = a.avail
        /\ \A k \in Index : [a EXCEPT !.array[j] = tag].array[k] = IF k = j THEN tag ELSE a.array[k]
    BY <1>1, <2>2, Store
  <2> QED BY <2>1, <2>3 DEF j
<1> HIDE DEF a, g
<1>4. TagOn(h, g, i, n, tag)
  BY <1>1, <1>3 DEF TagOn
<1> QED BY <1>1, <1>2, <1>3, <1>4

(* The place for a block among others.                                     *)
Fits(F, i, n) ==
  /\ i \in Int /\ n \in Int /\ n >= 4 /\ 2 <= i /\ i + n <= End
  /\ \A f \in F : f + 4 <= i \/ i + n <= f

(* What makeAvail() writes: the sizes and the links of the block, and the  *)
(* link back of the block that was the first.                              *)
LEMMA MadeAvail ==
  ASSUME NEW h \in HeapType, NEW F, NEW stamp, Linked(h, F, stamp), NEW i, NEW n, Fits(F, i, n)
  PROVE  LET g == makeAvail(h, i, n) IN
         /\ g \in HeapType /\ g.avail = i
         /\ \A k \in Index : g.array[k] =
              IF k = i \/ k = i + n - 1 THEN n ELSE IF k = i + 1 THEN h.avail
              ELSE IF k = i + 2 THEN 0
              ELSE IF h.avail # 0 /\ k = h.avail + 2 THEN i ELSE h.array[k]
<1> DEFINE a == Tag(h, i, n, n)
           b == [a EXCEPT !.array[i + 1] = h.avail]
           c == [b EXCEPT !.array[i + 2] = 0]
           d == IF h.avail = 0 THEN c ELSE [c EXCEPT !.array[h.avail + 2] = i]
           g == [d EXCEPT !.avail = i]
<1>1. g = makeAvail(h, i, n)
  BY DEF makeAvail, setNext, setPrev
<1>2. /\ i \in Index /\ i + 1 \in Index /\ i + 2 \in Index /\ i + n - 1 \in Index /\ n \in Int
      /\ i \in Int /\ i + n - 1 >= i + 3 /\ h.avail \in Int
      /\ h.avail # 0 => h.avail + 2 \in Index /\ (h.avail + 4 <= i \/ i + n <= h.avail)
  BY Sizes DEF Linked, Fits, HeapType
<1>3. /\ a \in HeapType /\ a.avail = h.avail
      /\ \A k \in Index : a.array[k] = IF k = i \/ k = i + n - 1 THEN n ELSE h.array[k]
  BY <1>2, Tagged DEF TagOn
<1> HIDE DEF a
<1>4. /\ b \in HeapType
      /\ \A k \in Index : b.array[k] = IF k = i + 1 THEN h.avail ELSE a.array[k]
  BY <1>2, <1>3, Store
<1> HIDE DEF b
<1>5. /\ c \in HeapType
      /\ \A k \in Index : c.array[k] = IF k = i + 2 THEN 0 ELSE b.array[k]
  <2>1. i + 2 \in Index /\ b \in HeapType /\ 0 \in Int
    BY <1>2, <1>4
  <2> QED BY <2>1, Store
<1> HIDE DEF c
<1>6. /\ d \in HeapType
      /\ \A k \in Index : d.array[k] = IF h.avail # 0 /\ k = h.avail + 2 THEN i ELSE c.array[k]
  <2>1. CASE h.avail = 0
    BY <1>5, <2>1
  <2>2. CASE h.avail # 0
    BY <1>2, <1>5, <2>2, Store
  <2> QED BY <2>1, <2>2
<1> HIDE DEF d
<1>7. g \in HeapType /\ g.avail = i /\ g.array = d.array
  BY <1>2, <1>6, SetAvail
<1> HIDE DEF g
<1>8. \A k \in Index : g.array[k] =
              IF k = i \/ k = i + n - 1 THEN n ELSE IF k = i + 1 THEN h.avail
              ELSE IF k = i + 2 THEN 0
              ELSE IF h.avail # 0 /\ k = h.avail + 2 THEN i ELSE h.array[k]
  BY <1>2, <1>3, <1>4, <1>5, <1>6, <1>7
<1> QED BY <1>1, <1>7, <1>8

(* makeAvail() puts a block in front of the list.                          *)
LEMMA MakeAvailLinks ==
  ASSUME NEW h \in HeapType, NEW F, NEW stamp, Linked(h, F, stamp), NEW i, NEW n, Fits(F, i, n)
  PROVE  \E stamps : Linked(makeAvail(h, i, n), F \cup {i}, stamps)
<1> DEFINE g == makeAvail(h, i, n)
           a == h.avail
           G == F \cup {i}
           stamps == [k \in Index |-> IF k = i THEN 0 ELSE stamp[k] + 1]
<1>1. /\ g \in HeapType /\ g.avail = i
      /\ \A k \in Index : g.array[k] =
              IF k = i \/ k = i + n - 1 THEN n ELSE IF k = i + 1 THEN a
              ELSE IF k = i + 2 THEN 0
              ELSE IF a # 0 /\ k = a + 2 THEN i ELSE h.array[k]
  BY MadeAvail
<1>2. /\ F \subseteq 2..(Len4 - 6) /\ stamp \in [Index -> Nat] /\ a \in F \cup {0}
      /\ \A f, e \in F : f < e => f + 4 <= e
      /\ \A f \in F : f + 1 \in Index /\ f + 2 \in Index /\ f \in Index /\ f # 0
      /\ \A f \in F : LinksOf(h, F, stamp, f)
  BY Sizes DEF Linked
<1>3. /\ i \in 2..(Len4 - 6) /\ i \in Index /\ i + 1 \in Index /\ i + 2 \in Index
      /\ i + n - 1 \in Index /\ i + n - 1 >= i + 3 /\ n \in Int
      /\ \A f \in F : f + 4 <= i \/ i + n <= f
  BY Sizes DEF Fits
<1> HIDE DEF g
<1>4. next(g, i) = a /\ prev(g, i) = 0
  BY <1>1, <1>3 DEF next, prev
<1>5. \A f \in F : next(g, f) = next(h, f) /\ prev(g, f) = IF f = a THEN i ELSE prev(h, f)
  <2> SUFFICES ASSUME NEW f \in F
               PROVE  next(g, f) = next(h, f) /\ prev(g, f) = IF f = a THEN i ELSE prev(h, f)
    OBVIOUS
  <2> HIDE DEF a
  <2>1. a # 0 => (f + 2 = a + 2 <=> f = a) /\ f + 1 # a + 2
    BY <1>2
  <2>2. \A k \in {f + 1, f + 2} : k # i /\ k # i + n - 1 /\ k # i + 1 /\ k # i + 2
    BY <1>2, <1>3
  <2> QED BY <1>1, <1>2, <2>1, <2>2 DEF next, prev
<1>6. stamps \in [Index -> Nat] /\ (\A f \in F : f # i /\ stamps[f] = stamp[f] + 1 /\ stamp[f] \in Nat)
      /\ (a # 0 => stamps[i] < stamps[a])
  <2> HIDE DEF a
  <2>1. a # 0 => a \in F /\ a \in Index /\ stamp[a] \in Nat
    BY <1>2
  <2>2. \A f \in F : f # i
    BY <1>2, <1>3
  <2> QED BY <1>2, <1>3, <2>1, <2>2
<1> HIDE DEF stamps
<1>7. LinksOf(g, G, stamps, i)
  <2>1. a # 0 => prev(g, a) = i
    BY <1>2, <1>5
  <2> HIDE DEF a
  <2> QED BY <1>1, <1>2, <1>3, <1>4, <1>6, <2>1 DEF LinksOf
<1>8. ASSUME NEW f \in F
      PROVE  LinksOf(g, G, stamps, f)
  <2>1. LinksOf(h, F, stamp, f) /\ (prev(h, f) = 0 <=> a = f)
    BY <1>2 DEF LinksOf
  <2>2. next(g, f) = next(h, f) /\ prev(g, f) = IF f = a THEN i ELSE prev(h, f)
    BY <1>5
  <2>3. next(h, f) # 0 => next(h, f) # a
    BY <1>2, <2>1 DEF LinksOf
  <2>4. next(g, f) # 0 => prev(g, next(g, f)) = f /\ stamps[f] < stamps[next(g, f)]
    <3> SUFFICES ASSUME next(g, f) # 0
                 PROVE  prev(g, next(g, f)) = f /\ stamps[f] < stamps[next(g, f)]
      OBVIOUS
    <3> DEFINE x == next(h, f)
    <3>1. x \in F /\ x # a /\ prev(h, x) = f /\ stamp[f] < stamp[x] /\ next(g, f) = x
      BY <2>1, <2>2, <2>3 DEF LinksOf
    <3> HIDE DEF x
    <3>2. prev(g, x) = f
      BY <1>5, <3>1
    <3>3. stamps[f] = stamp[f] + 1 /\ stamps[x] = stamp[x] + 1 /\ stamp[f] \in Nat /\ stamp[x] \in Nat
      BY <1>6, <3>1
    <3> QED BY <3>1, <3>2, <3>3
  <2>5. prev(g, f) # 0 => next(g, prev(g, f)) = f
    BY <1>4, <1>5, <2>1, <2>2 DEF LinksOf
  <2>6. prev(g, f) # 0 /\ f # i
    BY <1>2, <1>3, <1>6, <2>1, <2>2
  <2> HIDE DEF a
  <2> QED BY <1>1, <2>1, <2>2, <2>4, <2>5, <2>6, <1>3 DEF LinksOf
<1>9. Linked(g, G, stamps)
  <2>1. \A f, e \in G : f < e => f + 4 <= e
    BY <1>2, <1>3
  <2> QED BY <1>1, <1>2, <1>3, <1>6, <1>7, <1>8, <2>1 DEF Linked
<1> QED BY <1>9 DEF g

(* It writes the sizes and links only.                                     *)
LEMMA MakeAvailWords ==
  ASSUME NEW h \in HeapType, NEW F, NEW stamp, Linked(h, F, stamp), NEW i, NEW n, Fits(F, i, n)
  PROVE  LET g == makeAvail(h, i, n) IN
         \A k \in Index : IsLink(F \cup {i}, k) \/ k = i \/ k = i + n - 1 \/ g.array[k] = h.array[k]
<1> DEFINE g == makeAvail(h, i, n)
           a == h.avail
<1>1. /\ g \in HeapType
      /\ \A k \in Index : g.array[k] =
              IF k = i \/ k = i + n - 1 THEN n ELSE IF k = i + 1 THEN a
              ELSE IF k = i + 2 THEN 0
              ELSE IF a # 0 /\ k = a + 2 THEN i ELSE h.array[k]
  BY MadeAvail
<1>2. a \in F \cup {0}
  BY DEF Linked
<1> HIDE DEF g
<1>3. \A k \in Index : IsLink(F \cup {i}, k) \/ k = i \/ k = i + n - 1 \/ g.array[k] = h.array[k]
  BY <1>1, <1>2 DEF IsLink
<1> QED BY <1>3 DEF g

-----------------------------------------------------------------------------
(* The blocks.                                                             *)

(* The first and the last word of a block are in the array.                *)
LEMMA BlockWords ==
  ASSUME NEW h \in HeapType, NEW S, Tiles(h, S), NEW i \in S
  PROVE  /\ i \in 2..(Len4 - 6) /\ i \in Index /\ h.array[i] \in Int
         /\ size(h, i) \in Int /\ size(h, i) >= 4
         /\ right(h, i) = i + size(h, i) /\ right(h, i) \in Int /\ right(h, i) <= End
         /\ footerFromHeader(h, i) = i + size(h, i) - 1 /\ i + size(h, i) - 1 \in Index
         /\ h.array[i + size(h, i) - 1] = h.array[i]
         /\ isTaken(h, i) \/ isAvail(h, i)
         /\ size(h, i) = IF isAvail(h, i) THEN h.array[i] ELSE -h.array[i]
         /\ \A j \in S : i < j => i + size(h, i) <= j
<1>1. /\ i \in 2..(Len4 - 6) /\ size(h, i) >= 4 /\ right(h, i) \in S \cup {End}
      /\ h.array[footerFromHeader(h, i)] = h.array[i]
      /\ \A j \in S : i < j => right(h, i) <= j
      /\ \A j \in S : j \in 2..(Len4 - 6)
  BY DEF Tiles
<1>2. i \in Index /\ h.array[i] \in Int
  BY <1>1, Sizes DEF HeapType
<1>3. right(h, i) = i + size(h, i) /\ footerFromHeader(h, i) = i + size(h, i) - 1
  BY DEF right, footerFromHeader
<1>4. size(h, i) \in Int
  BY <1>2 DEF size
<1>5. right(h, i) \in Int /\ right(h, i) <= End
  <2> DEFINE r == right(h, i)
  <2>1. r \in S \cup {End} /\ (\A j \in S : j \in 2..(Len4 - 6))
    BY <1>1
  <2> HIDE DEF r
  <2>2. r \in Int /\ r <= End
    BY <2>1, Sizes
  <2> QED BY <2>2 DEF r
<1>6. i + size(h, i) - 1 \in Index
  BY <1>1, <1>3, <1>4, <1>5, Sizes
<1>7. /\ isTaken(h, i) \/ isAvail(h, i)
      /\ size(h, i) = IF isAvail(h, i) THEN h.array[i] ELSE -h.array[i]
  BY <1>1, <1>2 DEF size, isTaken, isAvail
<1> QED BY <1>1, <1>2, <1>3, <1>4, <1>5, <1>6, <1>7

(* Blocks are apart, and the first and the last word of one is no link.    *)
LEMMA NoLinks ==
  ASSUME NEW h \in HeapType, NEW S, Tiles(h, S), NEW F \in SUBSET S
  PROVE  /\ F \subseteq 2..(Len4 - 6)
         /\ \A f, g \in F : f < g => f + 4 <= g
         /\ \A i \in S : ~IsLink(F, i) /\ ~IsLink(F, i + size(h, i) - 1)
         /\ ~IsLink(F, 0) /\ ~IsLink(F, 1) /\ ~IsLink(F, End) /\ ~IsLink(F, End + 1)
<1>1. \A i \in S : /\ i \in 2..(Len4 - 6) /\ size(h, i) \in Int /\ size(h, i) >= 4
                   /\ i + size(h, i) <= End
                   /\ \A j \in S : i < j => i + size(h, i) <= j
  BY BlockWords
<1>2. \A f, g \in F : f < g => f + 4 <= g
  BY <1>1
<1>3. ASSUME NEW i \in S PROVE ~IsLink(F, i) /\ ~IsLink(F, i + size(h, i) - 1)
  BY <1>1 DEF IsLink
<1>4. ~IsLink(F, 0) /\ ~IsLink(F, 1) /\ ~IsLink(F, End) /\ ~IsLink(F, End + 1)
  BY <1>1, Sizes DEF IsLink
<1> QED BY <1>1, <1>2, <1>3, <1>4

(* The words within a block that is not of F are no links.                 *)
LEMMA NoLinksWithin ==
  ASSUME NEW h \in HeapType, NEW S, Tiles(h, S), NEW F \in SUBSET S, NEW i \in S, i \notin F,
         NEW k \in i..(i + size(h, i) - 1)
  PROVE  ~IsLink(F, k)
<1>1. \A j \in S : /\ j \in 2..(Len4 - 6) /\ size(h, j) \in Int /\ size(h, j) >= 4
                   /\ \A g \in S : j < g => j + size(h, j) <= g
  BY BlockWords
<1> QED BY <1>1 DEF IsLink

(* A block begins where another one ends.                                  *)
LEMMA Before ==
  ASSUME NEW h \in HeapType, NEW S, Tiles(h, S), NEW j \in S, j # 2
  PROVE  \E i \in S : i + size(h, i) = j /\ i < j
<1> DEFINE T == {i \in S : i < j}
<1>0. 2 \in S /\ S \subseteq 2..(Len4 - 6) /\ \A i \in S : right(h, i) \in S \cup {End}
  BY DEF Tiles
<1>1. 2 \in T /\ T \in SUBSET Nat /\ (\A y \in T : y <= Len4) /\ Len4 \in Nat
  <2>1. Len4 \in Nat /\ \A y \in S : y \in Nat /\ y <= Len4
    BY <1>0, Sizes
  <2>2. 2 < j
    BY <1>0, <2>1
  <2> QED BY <1>0, <2>1, <2>2
<1>2. PICK i \in T : \A y \in T : y <= i
  <2> HIDE DEF T
  <2> QED BY <1>1, Greatest
<1>3. /\ i + size(h, i) <= j /\ i + size(h, i) \in S \cup {End} /\ i + size(h, i) > i
      /\ i + size(h, i) \in Int /\ j \in Int /\ j < End
  <2>1. /\ i \in S /\ i < j /\ size(h, i) \in Int /\ size(h, i) >= 4 /\ i \in Int
        /\ right(h, i) = i + size(h, i) /\ i + size(h, i) <= j
    BY <1>2, BlockWords
  <2>2. j \in 2..(Len4 - 6)
    BY <1>0
  <2> QED BY <1>0, <2>1, <2>2, Sizes
<1>4. i + size(h, i) \in S /\ ~(i + size(h, i) \in T)
  BY <1>2, <1>3
<1> QED BY <1>3, <1>4

(* Tiling is about the words at the ends of the blocks.                    *)
LEMMA StaysTiled ==
  ASSUME NEW h \in HeapType, NEW g \in HeapType, NEW S, Tiles(h, S),
         \A i \in S : g.array[i] = h.array[i] /\ g.array[i + size(h, i) - 1] = h.array[i + size(h, i) - 1],
         \A k \in {0, 1, End, End + 1} : g.array[k] = h.array[k]
  PROVE  Tiles(g, S) /\ \A i \in S : size(g, i) = size(h, i)
<1>1. \A i \in S : size(g, i) = size(h, i) /\ right(g, i) = right(h, i)
  BY DEF size, right
<1>2. \A i \in S : g.array[footerFromHeader(g, i)] = g.array[i]
  BY <1>1, BlockWords DEF footerFromHeader
<1> QED BY <1>1, <1>2 DEF Tiles

-----------------------------------------------------------------------------
(* The heap.                                                               *)

(* No two free blocks touch.                                               *)
Separate(h, S) == \A i \in S : isAvail(h, i) => ~isAvail(h, right(h, i))

(* A sound heap: what its tags and links have to be.                       *)
Good(h, S, stamp) ==
  /\ h \in HeapType /\ Tiles(h, S) /\ Linked(h, FreeOf(h, S), stamp) /\ Separate(h, S)

(* The words of taken blocks, but for those in the range, are the same.    *)
TakenSame(h, g, S, range) ==
  \A j \in S \ range : isTaken(h, j) =>
    \A k \in j..(j + size(h, j) - 1) : g.array[k] = h.array[k]

(* Nothing but links is different in w.                                    *)
LinksOnly(h, w, F) == \A k \in Index : IsLink(F, k) \/ w.array[k] = h.array[k]

(* A store into the inner words of a taken block breaks nothing.           *)
LEMMA StoresWithin ==
  ASSUME NEW h, NEW S, NEW stamp, Good(h, S, stamp), NEW g \in HeapType, g.avail = h.avail,
         NEW i \in S, isTaken(h, i),
         \A k \in Index : (i < k /\ k < i + size(h, i) - 1) \/ g.array[k] = h.array[k]
  PROVE  /\ Good(g, S, stamp)
         /\ \A j \in S : size(g, j) = size(h, j) /\ (isTaken(g, j) <=> isTaken(h, j))
         /\ \A j \in S \ {i} : \A k \in j..(j + size(h, j) - 1) : g.array[k] = h.array[k]
<1> DEFINE F == FreeOf(h, S)
<1>1. h \in HeapType /\ Tiles(h, S) /\ Linked(h, F, stamp) /\ Separate(h, S) /\ F \in SUBSET S
  BY DEF Good, FreeOf
<1>2. i \notin F
  BY <1>1, BlockWords DEF FreeOf, isTaken, isAvail
<1>3. \A j \in S : /\ j \in Index /\ j + size(h, j) - 1 \in Index /\ j \in Int /\ size(h, j) \in Int
                   /\ size(h, j) >= 4 /\ j >= 2 /\ j + size(h, j) <= End
                   /\ \A e \in S : j < e => j + size(h, j) <= e
  BY <1>1, BlockWords
<1>4. ASSUME NEW j \in S
      PROVE  g.array[j] = h.array[j] /\ g.array[j + size(h, j) - 1] = h.array[j + size(h, j) - 1]
  BY <1>3
<1>5. \A k \in {0, 1, End, End + 1} : g.array[k] = h.array[k]
  BY <1>3, Sizes
<1>6. Tiles(g, S) /\ \A j \in S : size(g, j) = size(h, j)
  BY <1>1, <1>4, <1>5, StaysTiled
<1>7. \A j \in S : /\ isAvail(g, j) <=> isAvail(h, j)
                   /\ isTaken(g, j) <=> isTaken(h, j)
  BY <1>4 DEF isAvail, isTaken
<1>8. FreeOf(g, S) = F
  BY <1>7 DEF FreeOf
<1>9. \A k \in Index : IsLink(F, k) => g.array[k] = h.array[k]
  <2> SUFFICES ASSUME NEW k \in Index, IsLink(F, k), i < k, k < i + size(h, i) - 1 PROVE FALSE
    OBVIOUS
  <2>1. k \in i..(i + size(h, i) - 1)
    BY <1>3, Sizes
  <2> HIDE DEF F
  <2> QED BY <1>1, <1>2, <2>1, NoLinksWithin
<1>10. Linked(g, F, stamp)
  BY <1>1, <1>9, StaysLinked
<1>11. Separate(g, S)
  <2> SUFFICES ASSUME NEW j \in S, isAvail(g, j) PROVE ~isAvail(g, right(g, j))
    BY DEF Separate
  <2>1. right(g, j) = right(h, j) /\ right(h, j) \in S \cup {End} /\ ~isAvail(h, right(h, j))
    BY <1>1, <1>6, <1>7 DEF Separate, Tiles, right
  <2>2. CASE right(h, j) \in S
    BY <1>7, <2>1, <2>2
  <2>3. CASE right(h, j) = End
    BY <1>6, <2>1, <2>3 DEF Tiles, isAvail
  <2> QED BY <2>1, <2>2, <2>3
<1>12. ASSUME NEW j \in S \ {i}, NEW k \in j..(j + size(h, j) - 1)
       PROVE  g.array[k] = h.array[k]
  <2>1. /\ j \in Index /\ j + size(h, j) - 1 \in Index /\ j \in Int /\ size(h, j) \in Int
        /\ i \in Int /\ size(h, i) \in Int
    BY <1>3
  <2>2. j + size(h, j) <= i \/ i + size(h, i) <= j
    BY <1>3
  <2>3. k \in Index /\ ~(i < k /\ k < i + size(h, i) - 1)
    BY <2>1, <2>2, Sizes
  <2> QED BY <2>3
<1> QED BY <1>1, <1>6, <1>7, <1>8, <1>10, <1>11, <1>12 DEF Good

(* A free block is made of all words from a to b.                          *)
LEMMA Join ==
  ASSUME NEW h \in HeapType, NEW S, Tiles(h, S), Separate(h, S),
         NEW a \in S, NEW b \in S \cup {End}, a < b,
         NEW w \in HeapType, LinksOnly(h, w, FreeOf(h, S)),
         NEW stamp, Linked(w, {i \in FreeOf(h, S) : i < a \/ i >= b}, stamp),
         \A i \in FreeOf(h, S) : right(h, i) # a,
         ~isAvail(h, b)
  PROVE  LET g == makeAvail(w, a, b - a)
             T == {i \in S : i <= a \/ i >= b} IN
         /\ \E stamps : Good(g, T, stamps)
         /\ TakenSame(h, g, S, a..(b - 1))
<1> DEFINE F == FreeOf(h, S)
           F2 == {i \in F : i < a \/ i >= b}
           n == b - a
           g == makeAvail(w, a, n)
           T == {i \in S : i <= a \/ i >= b}
<1>1. \A j \in S : /\ j \in Index /\ j + size(h, j) - 1 \in Index /\ j \in Int /\ size(h, j) \in Int
                   /\ size(h, j) >= 4 /\ j \in 2..(Len4 - 6) /\ j + size(h, j) <= End
                   /\ right(h, j) = j + size(h, j)
                   /\ h.array[j + size(h, j) - 1] = h.array[j]
                   /\ \A e \in S : j < e => j + size(h, j) <= e
  BY BlockWords
<1>2. b \in Int /\ b <= End /\ n \in Int /\ n >= 4 /\ a \in Int /\ F \in SUBSET S /\ F2 \in SUBSET S
  <2>1. b \in Int /\ b <= End
    <3>1. ASSUME b \in S PROVE b \in Int /\ b <= End
      <4>1. b \in 2..(Len4 - 6)
        BY <1>1, <3>1
      <4> QED BY <4>1, Sizes DEF End
    <3>2. ASSUME b = End PROVE b \in Int /\ b <= End
      BY <3>2, Sizes
    <3> QED BY <3>1, <3>2
  <2>2. a + size(h, a) <= b
    BY <1>1
  <2> QED BY <1>1, <2>1, <2>2 DEF FreeOf
<1>3. Fits(F2, a, n) /\ Linked(w, F2, stamp)
  <2>1. a + n = b /\ 2 <= a
    BY <1>1, <1>2
  <2>2. ASSUME NEW f \in F2 PROVE f + 4 <= a \/ b <= f
    <3>1. f \in S /\ (f < a \/ f >= b)
      BY DEF FreeOf
    <3> QED BY <1>1, <1>2, <3>1
  <2> HIDE DEF n
  <2> QED BY <1>2, <2>1, <2>2 DEF Fits
<1>4. /\ g \in HeapType /\ g.array[a] = n /\ g.array[a + n - 1] = n
      /\ \A k \in Index : IsLink(F2 \cup {a}, k) \/ k = a \/ k = a + n - 1 \/ g.array[k] = w.array[k]
  <2>1. a \in Index /\ a + n - 1 \in Index
    BY <1>1, <1>2, Sizes
  <2> HIDE DEF F2, n
  <2>2. /\ g \in HeapType
        /\ \A k \in Index : g.array[k] =
             IF k = a \/ k = a + n - 1 THEN n ELSE IF k = a + 1 THEN w.avail
             ELSE IF k = a + 2 THEN 0
             ELSE IF w.avail # 0 /\ k = w.avail + 2 THEN a ELSE w.array[k]
    BY <1>3, MadeAvail
  <2>3. \A k \in Index : IsLink(F2 \cup {a}, k) \/ k = a \/ k = a + n - 1 \/ g.array[k] = w.array[k]
    BY <1>3, MakeAvailWords
  <2> QED BY <2>1, <2>2, <2>3
<1>5. PICK stamps : Linked(g, F2 \cup {a}, stamps)
  <2> HIDE DEF F2, n
  <2> QED BY <1>3, MakeAvailLinks
<1> HIDE DEF g
<1>6. \A k \in Index : \/ IsLink(F, k) \/ IsLink({a}, k) \/ k = a \/ k = b - 1
                       \/ g.array[k] = h.array[k]
  <2>1. \A k \in Index : IsLink(F2 \cup {a}, k) => IsLink(F, k) \/ IsLink({a}, k)
    BY DEF IsLink
  <2>2. a + n - 1 = b - 1
    BY <1>2
  <2> HIDE DEF F, F2, n
  <2> QED BY <1>4, <2>1, <2>2 DEF LinksOnly, F
<1>7. {a} \in SUBSET S
  OBVIOUS
<1>8. ASSUME NEW k \in Index, k # a, k # b - 1,
             (\E i \in S : k = i \/ k = i + size(h, i) - 1) \/ k \in {0, 1, End, End + 1}
      PROVE  g.array[k] = h.array[k]
  <2>1. ASSUME NEW G \in SUBSET S PROVE ~IsLink(G, k)
    BY <1>8, NoLinks
  <2>2. ~IsLink(F, k) /\ ~IsLink({a}, k)
    BY <1>2, <1>7, <2>1
  <2> QED BY <1>6, <1>8, <2>2
<1>9. ASSUME NEW i \in T, i # a
      PROVE  /\ i \in S /\ g.array[i] = h.array[i] /\ size(g, i) = size(h, i)
             /\ g.array[i + size(h, i) - 1] = h.array[i + size(h, i) - 1]
  <2>1. i \in S /\ i \in Index /\ i # b - 1
    BY <1>1, <1>2, <1>9
  <2>2. i + size(h, i) - 1 \in Index /\ i + size(h, i) - 1 # b - 1 /\ i + size(h, i) - 1 # a
    BY <1>1, <1>2, <1>9, <2>1
  <2>3. g.array[i] = h.array[i]
    BY <1>8, <1>9, <2>1
  <2>4. g.array[i + size(h, i) - 1] = h.array[i + size(h, i) - 1]
    BY <1>8, <2>1, <2>2
  <2> QED BY <2>1, <2>3, <2>4 DEF size
<1>10. size(g, a) = n /\ a \in T
  BY <1>2, <1>4 DEF size
<1>11. Tiles(g, T)
  <2>1. 2 \in T /\ T \subseteq 2..(Len4 - 6)
    <3>1. 2 \in S /\ 2 <= a
      BY <1>1, <1>2 DEF Tiles
    <3> QED BY <1>1, <3>1
  <2>2. g.array[0] = -2 /\ g.array[1] = -2 /\ g.array[End] = -2 /\ g.array[End + 1] = -2
    <3>1. \A k \in {0, 1, End, End + 1} : k \in Index /\ k # a /\ k # b - 1
      BY <1>1, <1>2, Sizes
    <3> QED BY <1>8, <3>1 DEF Tiles
  <2>3. ASSUME NEW i \in T
        PROVE  /\ size(g, i) >= 4 /\ right(g, i) \in T \cup {End}
               /\ g.array[footerFromHeader(g, i)] = g.array[i]
    <3>1. CASE i = a
      <4>1. right(g, a) = b /\ footerFromHeader(g, a) = a + n - 1
        BY <1>2, <1>10 DEF right, footerFromHeader
      <4>2. b \in T \cup {End}
        BY <1>2
      <4> QED BY <1>2, <1>4, <1>10, <3>1, <4>1, <4>2
    <3>2. CASE i # a
      <4>1. /\ i \in S /\ g.array[i] = h.array[i] /\ size(g, i) = size(h, i)
            /\ g.array[i + size(h, i) - 1] = h.array[i + size(h, i) - 1]
        BY <1>9, <3>2
      <4>2. right(g, i) = i + size(h, i) /\ i + size(h, i) \in S \cup {End}
        BY <1>1, <4>1 DEF right, Tiles
      <4>3. i < a => i + size(h, i) <= a
        BY <1>1, <4>1
      <4>4. i >= b => i + size(h, i) >= b
        BY <1>1, <1>2, <4>1
      <4>5. i < a \/ i >= b
        BY <1>1, <1>2, <3>2
      <4>6. i + size(h, i) \in T \cup {End}
        BY <4>2, <4>3, <4>4, <4>5
      <4> QED BY <1>1, <4>1, <4>2, <4>6 DEF footerFromHeader
    <3> QED BY <3>1, <3>2
  <2>4. ASSUME NEW i \in T, NEW j \in T, i < j
        PROVE  right(g, i) <= j
    <3>1. CASE i = a
      BY <1>1, <1>2, <1>10, <2>4, <3>1 DEF right
    <3>2. CASE i # a
      BY <1>1, <1>9, <2>4, <3>2 DEF right
    <3> QED BY <3>1, <3>2
  <2> QED BY <2>1, <2>2, <2>3, <2>4 DEF Tiles
<1>12. FreeOf(g, T) = F2 \cup {a}
  <2>1. isAvail(g, a)
    BY <1>2, <1>4 DEF isAvail
  <2>2. \A i \in T : i # a => (isAvail(g, i) <=> isAvail(h, i))
    BY <1>9 DEF isAvail
  <2>3. \A i \in T : i # a => (i < a \/ i >= b)
    BY <1>1, <1>2
  <2>4. \A i : i \in FreeOf(g, T) <=> i \in F2 \cup {a}
    <3>1. \A i : i \in F2 => i \in T /\ i # a /\ isAvail(h, i)
      BY <1>1, <1>2 DEF FreeOf
    <3>2. \A i \in T : i # a /\ isAvail(h, i) => i \in F2
      BY <2>3 DEF FreeOf
    <3> HIDE DEF T, F2
    <3> QED BY <1>10, <2>1, <2>2, <3>1, <3>2 DEF FreeOf
  <2> QED BY <2>4
<1>13. Separate(g, T)
  <2> SUFFICES ASSUME NEW i \in T, isAvail(g, i) PROVE ~isAvail(g, right(g, i))
    BY DEF Separate
  <2>1. right(g, i) \in T \cup {End}
    BY <1>11 DEF Tiles
  <2>2. ASSUME right(g, i) = End PROVE ~isAvail(g, right(g, i))
    BY <1>11, <2>2 DEF Tiles, isAvail
  <2>3. ASSUME right(g, i) \in T, i = a PROVE ~isAvail(g, right(g, i))
    <3>1. right(g, i) = b /\ b # a
      BY <1>2, <1>10, <2>3 DEF right
    <3> QED BY <1>9, <2>3, <3>1 DEF isAvail
  <2>4. ASSUME right(g, i) \in T, i # a PROVE ~isAvail(g, right(g, i))
    <3>1. i \in F /\ right(g, i) = right(h, i)
      BY <1>9, <2>4 DEF isAvail, right, FreeOf
    <3>2. right(h, i) # a /\ ~isAvail(h, right(h, i))
      BY <3>1 DEF FreeOf, Separate
    <3> QED BY <1>9, <2>4, <3>1, <3>2 DEF isAvail
  <2> QED BY <2>1, <2>2, <2>3, <2>4
<1>14. Good(g, T, stamps)
  BY <1>4, <1>5, <1>11, <1>12, <1>13 DEF Good
<1>15. TakenSame(h, g, S, a..(b - 1))
  <2> SUFFICES ASSUME NEW j \in S \ (a..(b - 1)), isTaken(h, j), NEW k \in j..(j + size(h, j) - 1)
               PROVE  g.array[k] = h.array[k]
    BY DEF TakenSame
  <2>1. j \notin F /\ j \notin {a}
    <3>1. a \in a..(b - 1)
      BY <1>2
    <3>2. h.array[j] \in Int
      BY BlockWords
    <3> QED BY <3>1, <3>2 DEF FreeOf, isTaken, isAvail
  <2>2. ~IsLink(F, k) /\ ~IsLink({a}, k)
    <3> HIDE DEF F
    <3> QED BY <1>2, <1>7, <2>1, NoLinksWithin
  <2>3. k \in Index /\ k # a /\ k # b - 1
    <3>1. j \in S /\ j \in Int /\ ~(a <= j /\ j <= b - 1)
      BY <1>1, <1>2
    <3>2. j < a => j + size(h, j) <= a
      BY <1>1, <3>1
    <3>3. size(h, j) \in Int /\ j + size(h, j) - 1 \in Index /\ j \in Index
      BY <1>1, <3>1
    <3>4. a \in Int /\ b \in Int /\ a < b
      BY <1>2
    <3> QED BY <3>1, <3>2, <3>3, <3>4, Sizes
  <2> QED BY <1>6, <2>2, <2>3
<1> QED BY <1>14, <1>15 DEF g

(* What is left of a block is the block before it, or nothing free.        *)
LEMMA Left ==
  ASSUME NEW h \in HeapType, NEW S, Tiles(h, S), NEW i \in S
  PROVE  /\ left(h, i) \in Index
         /\ isAvail(h, left(h, i)) => left(h, i) \in S /\ left(h, i) < i /\ right(h, left(h, i)) = i
         /\ \A x \in S : right(h, x) = i => x = left(h, i)
<1>1. \A j \in S : /\ j \in Index /\ j + size(h, j) - 1 \in Index /\ j \in Int /\ size(h, j) \in Int
                   /\ size(h, j) >= 4 /\ j \in 2..(Len4 - 6) /\ j + size(h, j) <= End
                   /\ right(h, j) = j + size(h, j)
                   /\ h.array[j + size(h, j) - 1] = h.array[j]
                   /\ \A e \in S : j < e => j + size(h, j) <= e
  BY BlockWords
<1>2. ASSUME NEW x \in S, right(h, x) = i
      PROVE  x = left(h, i)
  <2>1. x + size(h, x) = i
    BY <1>1, <1>2
  <2>2. i - 1 = x + size(h, x) - 1
    BY <1>1, <2>1
  <2>3. h.array[i - 1] = h.array[x]
    BY <1>1, <2>2
  <2>4. size(h, i - 1) = size(h, x)
    BY <2>3 DEF size
  <2>5. left(h, i) = i - 1 - size(h, x) + 1
    BY <2>4 DEF left, headerFromFooter
  <2> QED BY <1>1, <2>1, <2>5
<1>3. CASE i = 2
  <2>1. h.array[1] = -2 /\ h.array[0] = -2
    BY DEF Tiles
  <2>2. left(h, 2) = 0
    BY <2>1 DEF left, headerFromFooter, size
  <2>3. 0 \in Index /\ ~isAvail(h, 0)
    BY <2>1, Sizes DEF isAvail
  <2> QED BY <1>2, <1>3, <2>2, <2>3
<1>4. CASE i # 2
  <2>1. PICK x \in S : x + size(h, x) = i /\ x < i
    BY <1>4, Before
  <2>2. right(h, x) = i /\ x \in Index
    BY <1>1, <2>1
  <2>3. x = left(h, i)
    BY <1>2, <2>2
  <2> QED BY <1>2, <2>1, <2>2, <2>3
<1> QED BY <1>3, <1>4

(* free() makes the block and its free neighbours one free block.          *)
LEMMA Given ==
  ASSUME NEW h, NEW S, NEW stamp, Good(h, S, stamp), NEW i \in S, isTaken(h, i)
  PROVE  \E T, stamps :
           /\ Good(Give(h, i), T, stamps)
           /\ \A j \in S \ {i} : isTaken(h, j) =>
                j \in T /\ \A k \in j..(j + size(h, j) - 1) : Give(h, i).array[k] = h.array[k]
<1> DEFINE F == FreeOf(h, S)
           l == left(h, i)
           r == right(h, i)
           a == IF isAvail(h, l) THEN l ELSE i
           b == IF isAvail(h, r) THEN r + size(h, r) ELSE r
           w1 == IF isAvail(h, l) THEN remove(h, l) ELSE h
           F1 == IF isAvail(h, l) THEN F \ {l} ELSE F
           w == IF isAvail(h, r) THEN remove(w1, r) ELSE w1
           F2 == IF isAvail(h, r) THEN F1 \ {r} ELSE F1
           g == makeAvail(w, a, b - a)
<1>1. h \in HeapType /\ Tiles(h, S) /\ Linked(h, F, stamp) /\ Separate(h, S) /\ F \in SUBSET S
  BY DEF Good, FreeOf
<1>2. g = Give(h, i)
  BY DEF Give
<1>3. \A j \in S : /\ j \in Int /\ size(h, j) \in Int /\ size(h, j) >= 4 /\ j + size(h, j) <= End
                   /\ right(h, j) = j + size(h, j)
                   /\ \A e \in S : j < e => j + size(h, j) <= e
  BY <1>1, BlockWords
<1>4. /\ isAvail(h, l) => l \in F /\ l < i /\ right(h, l) = i
      /\ \A x \in F : right(h, x) = i => x = l /\ isAvail(h, l)
  <2> HIDE DEF l
  <2>1. /\ isAvail(h, l) => l \in S /\ l < i /\ right(h, l) = i
        /\ \A x \in S : right(h, x) = i => x = l
    BY <1>1, Left DEF l
  <2> QED BY <2>1 DEF FreeOf
<1>5. r \in S \cup {End} /\ (isAvail(h, r) => r \in F)
  <2>1. r \in S \cup {End} /\ ~isAvail(h, End)
    BY <1>1 DEF Tiles, isAvail
  <2> HIDE DEF r
  <2> QED BY <2>1 DEF FreeOf
<1>6. ~isAvail(h, i) /\ i \notin F
  BY <1>1, BlockWords DEF isAvail, isTaken, FreeOf
<1>7. b \in S \cup {End} /\ ~isAvail(h, b)
  <2>1. CASE isAvail(h, r)
    <3>1. r \in S /\ b = right(h, r)
      BY <1>5, <2>1 DEF FreeOf, right
    <3> HIDE DEF r, b
    <3> QED BY <1>1, <2>1, <3>1 DEF Separate, Tiles
  <2>2. CASE ~isAvail(h, r)
    BY <1>5, <2>2
  <2> QED BY <2>1, <2>2
<1>8. a \in S /\ \A x \in F : right(h, x) # a
  <2>1. CASE isAvail(h, l)
    <3>1. \A x \in F : ~isAvail(h, right(h, x))
      BY <1>1 DEF FreeOf, Separate
    <3> HIDE DEF l
    <3> QED BY <1>1, <1>4, <2>1, <3>1
  <2>2. CASE ~isAvail(h, l)
    BY <1>4, <2>2
  <2> QED BY <2>1, <2>2
<1>9. /\ r = i + size(h, i) /\ i < r /\ r <= b
      /\ \A x \in S : x < i \/ x = i \/ r <= x
      /\ \A x \in S : x <= r \/ b <= x
      /\ a <= i /\ \A x \in S : x < a \/ x = a \/ i <= x
      /\ \A x \in S \cup {End} : x \in Int
  <2>1. r = i + size(h, i) /\ i < r
    BY <1>3
  <2>2. \A x \in S \cup {End} : x \in Int
    BY <1>3, Sizes
  <2>3. r <= b /\ \A x \in S : x <= r \/ b <= x
    <3> HIDE DEF r
    <3>1. CASE isAvail(h, r)
      BY <1>3, <1>5, <1>1, <3>1
    <3>2. CASE ~isAvail(h, r)
      BY <1>3, <1>5, <2>2, <3>2
    <3> QED BY <3>1, <3>2
  <2>4. a <= i /\ \A x \in S : x < a \/ x = a \/ i <= x
    <3> HIDE DEF l
    <3>1. CASE isAvail(h, l)
      BY <1>1, <1>3, <1>4, <3>1
    <3>2. CASE ~isAvail(h, l)
      BY <1>3, <3>2
    <3> QED BY <3>1, <3>2
  <2> QED BY <1>3, <2>1, <2>2, <2>3, <2>4
<1>10. F2 = {x \in F : x < a \/ x >= b}
  <2>1. ASSUME NEW x \in F
        PROVE  x \in F2 <=> x < a \/ x >= b
    <3>1. x \in F2 <=> ~(isAvail(h, l) /\ x = l) /\ ~(isAvail(h, r) /\ x = r)
      OBVIOUS
    <3>2. x \in S /\ isAvail(h, x) /\ x # i
      BY <1>6 DEF FreeOf
    <3>3. isAvail(h, l) => a = l
      OBVIOUS
    <3>4. ~isAvail(h, l) => a = i
      OBVIOUS
    <3>5. isAvail(h, r) => r < b
      <4> HIDE DEF r
      <4> QED BY <1>1, <1>3, <1>5
    <3> HIDE DEF a, b, l, r, F2, F
    <3>6. x < i \/ r <= x
      BY <1>9, <3>2
    <3>7. x < a \/ x = a \/ i <= x
      BY <1>9, <3>2
    <3>8. x <= r \/ b <= x
      BY <1>9, <3>2
    <3>9. /\ x \in Int /\ i \in Int /\ a \in Int /\ b \in Int /\ r \in Int /\ i < r /\ r <= b /\ a <= i
      BY <1>5, <1>7, <1>8, <1>9, <3>2
    <3>10. x = r => isAvail(h, r)
      BY <3>2
    <3>11. ~isAvail(h, l) => x # a
      BY <3>2, <3>4
    <3> QED BY <3>1, <3>3, <3>5, <3>6, <3>7, <3>8, <3>9, <3>10, <3>11
  <2>2. F2 \subseteq F
    OBVIOUS
  <2> HIDE DEF F2, a, b, F
  <2> QED BY <2>1, <2>2
<1>11. /\ w1 \in HeapType /\ Linked(w1, F1, stamp)
       /\ \A j \in Index : IsLink(F, j) \/ w1.array[j] = h.array[j]
  <2> HIDE DEF l, F
  <2>1. CASE isAvail(h, l)
    BY <1>1, <1>4, <2>1, RemoveUnlinks
  <2>2. CASE ~isAvail(h, l)
    BY <1>1, <2>2
  <2> QED BY <2>1, <2>2
<1>12. /\ w \in HeapType /\ Linked(w, F2, stamp)
       /\ \A j \in Index : IsLink(F1, j) \/ w.array[j] = w1.array[j]
  <2>1. isAvail(h, r) => r \in F1
    <3>1. isAvail(h, l) => l # r
      <4>1. isAvail(h, l) => l < i /\ i < r /\ l \in Int /\ i \in Int /\ r \in Int
        BY <1>1, <1>3, <1>4, <1>5, <1>9
      <4> HIDE DEF l, r
      <4> QED BY <4>1
    <3> QED BY <1>5, <3>1
  <2> HIDE DEF w1, F1, r
  <2>2. CASE isAvail(h, r)
    BY <1>11, <2>1, <2>2, RemoveUnlinks
  <2>3. CASE ~isAvail(h, r)
    BY <1>11, <2>3
  <2> QED BY <2>2, <2>3
<1>13. LinksOnly(h, w, F)
  <2>1. \A j : IsLink(F1, j) => IsLink(F, j)
    BY DEF IsLink
  <2> HIDE DEF F1, F, w1, w
  <2> QED BY <1>11, <1>12, <2>1 DEF LinksOnly
<1>14. a < b /\ \A j \in S \ {i} : isTaken(h, j) => (j <= a \/ j >= b) /\ j \notin a..(b - 1)
  <2>1. a < b
    <3> HIDE DEF a, b, r
    <3> QED BY <1>7, <1>8, <1>9, <1>5
  <2>2. ASSUME NEW j \in S, j # i, isTaken(h, j)
        PROVE  (j <= a \/ j >= b) /\ j \notin a..(b - 1)
    <3>1. ~isAvail(h, j)
      BY <1>1, <2>2, BlockWords DEF isAvail, isTaken
    <3>2. j # a
      BY <2>2, <3>1
    <3>3. isAvail(h, r) => j # r
      BY <3>1
    <3>4. ~isAvail(h, r) => b = r
      OBVIOUS
    <3> HIDE DEF a, b, r
    <3>5. /\ j \in Int /\ i \in Int /\ a \in Int /\ b \in Int /\ r \in Int
          /\ j < i \/ r <= j
          /\ j < a \/ i <= j
          /\ j <= r \/ b <= j
      BY <1>5, <1>7, <1>8, <1>9, <2>2, <3>2
    <3>6. i < r /\ r <= b /\ a <= i
      BY <1>9
    <3> QED BY <2>2, <3>2, <3>3, <3>4, <3>5, <3>6
  <2> QED BY <2>1, <2>2
<1> DEFINE T == {j \in S : j <= a \/ j >= b}
<1>15. (\E stamps : Good(g, T, stamps)) /\ TakenSame(h, g, S, a..(b - 1))
  <2>1. Linked(w, {x \in FreeOf(h, S) : x < a \/ x >= b}, stamp)
    <3> HIDE DEF F2, w, a, b
    <3> QED BY <1>10, <1>12 DEF F
  <2>2. LinksOnly(h, w, FreeOf(h, S)) /\ \A x \in FreeOf(h, S) : right(h, x) # a
    BY <1>8, <1>13 DEF F
  <2> HIDE DEF w, a, b, F, F2
  <2> QED BY <1>1, <1>7, <1>8, <1>12, <1>14, <2>1, <2>2, Join
<1>16. PICK stamps : Good(g, T, stamps)
  BY <1>15
<1>17. \A j \in S \ {i} : isTaken(h, j) =>
         j \in T /\ \A k \in j..(j + size(h, j) - 1) : g.array[k] = h.array[k]
  <2> HIDE DEF a, b, g
  <2> QED BY <1>14, <1>15 DEF TakenSame
<1> HIDE DEF g, T
<1> QED BY <1>2, <1>16, <1>17

(* A free block it becomes a taken one of m words and, if more than m are  *)
(* left, a free one.                                                       *)
Divided(h, S, it, g, m, T) ==
  /\ m \in Int /\ 4 <= m
  /\ \/ m = size(h, it) /\ T = S
     \/ /\ m + 4 <= size(h, it) /\ T = S \cup {it + m}
        /\ \A k \in Index : k = it + m \/ k = it + size(h, it) - 1 => g.array[k] = size(h, it) - m
  /\ \A k \in Index : k = it \/ k = it + m - 1 => g.array[k] = -m
  /\ \A k \in Index : \/ k \in it..(it + size(h, it) - 1)
                      \/ IsLink(FreeOf(h, S), k) \/ g.array[k] = h.array[k]

(* A heap with a block divided so, and linked again, is sound.             *)
LEMMA Retiled ==
  ASSUME NEW h \in HeapType, NEW S, Tiles(h, S), Separate(h, S), NEW it \in FreeOf(h, S),
         NEW g \in HeapType, NEW m, NEW T, NEW stamps, Divided(h, S, it, g, m, T),
         Linked(g, (FreeOf(h, S) \ {it}) \cup (T \ S), stamps)
  PROVE  /\ Good(g, T, stamps) /\ S \subseteq T
         /\ isTaken(g, it) /\ size(g, it) >= m
         /\ TakenSame(h, g, S, {})
<1> DEFINE F == FreeOf(h, S)
           mx == size(h, it)
           e == it + m
<1> USE DEF Divided
<1>1. \A j \in S : /\ j \in Index /\ j + size(h, j) - 1 \in Index /\ j \in Int /\ size(h, j) \in Int
                   /\ size(h, j) >= 4 /\ j \in 2..(Len4 - 6) /\ j + size(h, j) <= End
                   /\ right(h, j) = j + size(h, j) /\ right(h, j) \in S \cup {End}
                   /\ h.array[j + size(h, j) - 1] = h.array[j]
                   /\ \A i \in S : j < i => j + size(h, j) <= i
  <2>1. \A j \in S : right(h, j) \in S \cup {End}
    BY DEF Tiles
  <2> QED BY <2>1, BlockWords
<1>2. it \in S /\ isAvail(h, it) /\ F \in SUBSET S
  BY DEF FreeOf
<1>3. /\ it \in Index /\ it + m - 1 \in Index /\ it \in Int /\ mx \in Int /\ m <= mx /\ it >= 2
      /\ it + mx <= End /\ it + mx \in S \cup {End} /\ e \in Int /\ it < e
      /\ \A j \in S : j < it \/ j = it \/ it + mx <= j
  <2> HIDE DEF e
  <2>1. e = it + m
    BY DEF e
  <2>2. it \in Int /\ mx \in Int /\ m <= mx
    BY <1>1, <1>2
  <2> HIDE DEF mx
  <2>3. it >= 2 /\ it \in Index /\ it + mx <= End /\ it + mx \in S \cup {End}
    BY <1>1, <1>2 DEF mx
  <2>4. \A j \in S : it < j => it + mx <= j
    BY <1>1, <1>2 DEF mx
  <2>5. it + m - 1 \in Index
    BY <2>2, <2>3, Sizes
  <2> QED BY <1>1, <2>1, <2>2, <2>3, <2>4, <2>5
<1>4. ASSUME NEW k \in Index, ~(k \in it..(it + mx - 1)),
             (\E i \in S : k = i \/ k = i + size(h, i) - 1) \/ k \in {0, 1, End, End + 1}
      PROVE  g.array[k] = h.array[k]
  <2>1. ASSUME NEW G \in SUBSET S PROVE ~IsLink(G, k)
    BY <1>4, NoLinks
  <2>2. ~IsLink(F, k)
    BY <1>2, <2>1
  <2> QED BY <1>4, <2>2
<1>5. ASSUME NEW j \in S, j # it
      PROVE  /\ g.array[j] = h.array[j] /\ size(g, j) = size(h, j)
             /\ g.array[j + size(h, j) - 1] = h.array[j + size(h, j) - 1]
  <2>1. j < it => j + size(h, j) <= it
    BY <1>1, <1>2
  <2>2. ~(j \in it..(it + mx - 1)) /\ ~(j + size(h, j) - 1 \in it..(it + mx - 1))
    <3> HIDE DEF mx
    <3>1. j < it \/ it + mx <= j
      BY <1>3, <1>5
    <3>2. j \in Int /\ size(h, j) \in Int /\ size(h, j) >= 4
      BY <1>1
    <3> QED BY <1>3, <2>1, <3>1, <3>2
  <2>3. g.array[j] = h.array[j]
    BY <1>1, <1>4, <2>2
  <2>4. g.array[j + size(h, j) - 1] = h.array[j + size(h, j) - 1]
    <3>1. j + size(h, j) - 1 \in Index
      BY <1>1
    <3> QED BY <1>4, <2>2, <3>1
  <2> QED BY <2>3, <2>4 DEF size
<1>6. g.array[0] = -2 /\ g.array[1] = -2 /\ g.array[End] = -2 /\ g.array[End + 1] = -2
  <2>1. \A k \in {0, 1, End, End + 1} : k \in Index /\ ~(k \in it..(it + mx - 1))
    <3> HIDE DEF mx
    <3> QED BY <1>3, Sizes
  <2> QED BY <1>4, <2>1 DEF Tiles
<1>7. /\ g.array[it] = -m /\ g.array[it + m - 1] = -m
      /\ size(g, it) = m /\ isTaken(g, it) /\ ~isAvail(g, it)
  <2>1. g.array[it] = -m /\ g.array[it + m - 1] = -m
    BY <1>3
  <2> QED BY <2>1 DEF size, isTaken, isAvail
<1>8. ASSUME m # mx
      PROVE  /\ T = S \cup {e} /\ e \notin S /\ m + 4 <= mx
             /\ g.array[e] = mx - m /\ g.array[it + mx - 1] = mx - m
             /\ size(g, e) = mx - m /\ isAvail(g, e)
  <2>1. T = S \cup {e} /\ m + 4 <= mx
    BY <1>8
  <2>2. e \in Index /\ it + mx - 1 \in Index /\ e \notin S
    <3> HIDE DEF mx
    <3>1. e = it + m
      OBVIOUS
    <3> HIDE DEF e
    <3> QED BY <1>3, <2>1, <3>1, Sizes
  <2>3. g.array[e] = mx - m /\ g.array[it + mx - 1] = mx - m
    BY <1>8, <2>2
  <2> HIDE DEF mx
  <2> QED BY <1>3, <2>1, <2>2, <2>3 DEF size, isAvail
<1>9. S \subseteq T /\ \A j \in T : j \in S \/ (j = e /\ m # mx)
  <2>1. CASE m = mx
    BY <1>3, <2>1
  <2>2. CASE m # mx
    BY <1>8, <2>2
  <2> QED BY <2>1, <2>2
<1>10. m = mx => T = S
  BY <1>3
<1> HIDE DEF e, mx, F
<1>11. e = it + m /\ mx = size(h, it)
  BY DEF e, mx
<1>12. right(g, it) \in T \cup {End} /\ right(g, it) = e
  <2>1. right(g, it) = e
    BY <1>7, <1>11 DEF right
  <2>2. CASE m = mx
    BY <1>3, <1>10, <1>11, <2>1, <2>2
  <2>3. CASE m # mx
    BY <1>8, <2>1, <2>3
  <2> QED BY <2>1, <2>2, <2>3
<1>13. ASSUME m # mx
       PROVE  right(g, e) = it + mx /\ footerFromHeader(g, e) = it + mx - 1
  BY <1>3, <1>8, <1>11, <1>13 DEF right, footerFromHeader
<1>14. Tiles(g, T)
  <2>1. 2 \in T /\ T \subseteq 2..(Len4 - 6)
    <3>1. m # mx => e \in 2..(Len4 - 6)
      BY <1>3, <1>8, <1>11, Sizes
    <3>2. 2 \in S
      BY DEF Tiles
    <3> QED BY <1>1, <1>9, <3>1, <3>2
  <2>2. ASSUME NEW i \in T
        PROVE  /\ size(g, i) >= 4 /\ right(g, i) \in T \cup {End}
               /\ g.array[footerFromHeader(g, i)] = g.array[i]
    <3>1. CASE i = it
      BY <1>7, <1>12, <3>1 DEF footerFromHeader
    <3>2. CASE i \in S /\ i # it
      <4>1. right(g, i) = right(h, i) /\ footerFromHeader(g, i) = i + size(h, i) - 1
        BY <1>5, <3>2 DEF right, footerFromHeader
      <4> QED BY <1>1, <1>5, <1>9, <3>2, <4>1
    <3>3. CASE i = e /\ m # mx
      BY <1>3, <1>8, <1>9, <1>13, <3>3
    <3> QED BY <1>9, <3>1, <3>2, <3>3
  <2>3. ASSUME NEW i \in T, NEW j \in T, i < j
        PROVE  right(g, i) <= j
    <3>1. CASE i = it
      <4>1. CASE j = e /\ m # mx
        BY <1>3, <1>12, <3>1, <4>1
      <4>2. CASE j \in S
        <5>1. it + mx <= j /\ j \in Int
          BY <1>1, <1>3, <2>3, <3>1, <4>2
        <5> QED BY <1>3, <1>11, <1>12, <3>1, <5>1
      <4> QED BY <1>9, <4>1, <4>2
    <3>2. CASE i \in S /\ i # it
      <4>1. right(g, i) = i + size(h, i) /\ i \in Int /\ size(h, i) \in Int
        BY <1>1, <1>5, <3>2 DEF right
      <4>2. CASE j \in S
        BY <1>1, <2>3, <3>2, <4>1, <4>2
      <4>3. CASE j = e /\ m # mx
        <5>1. i < it
          BY <1>3, <1>8, <1>11, <2>3, <3>2, <4>1, <4>3
        <5>2. i + size(h, i) <= it
          BY <1>1, <1>2, <3>2, <5>1
        <5> QED BY <1>3, <4>1, <4>3, <5>2
      <4> QED BY <1>9, <4>2, <4>3
    <3>3. CASE i = e /\ m # mx
      <4>1. j \in S
        BY <1>3, <1>9, <2>3, <3>3
      <4>2. it + mx <= j
        BY <1>1, <1>3, <2>3, <3>3, <4>1
      <4> QED BY <1>13, <3>3, <4>2
    <3> QED BY <1>9, <3>1, <3>2, <3>3
  <2> QED BY <1>6, <2>1, <2>2, <2>3 DEF Tiles
<1>15. \A i \in S : i # it => /\ isAvail(g, i) <=> isAvail(h, i)
                              /\ isTaken(g, i) <=> isTaken(h, i)
  BY <1>5 DEF isAvail, isTaken
<1>16. FreeOf(g, T) = (F \ {it}) \cup (T \ S)
  <2>1. \A i \in T \ S : isAvail(g, i)
    BY <1>8, <1>9
  <2> QED BY <1>7, <1>9, <1>15, <2>1 DEF FreeOf, F
<1>17. Separate(g, T)
  <2> SUFFICES ASSUME NEW i \in T, isAvail(g, i) PROVE ~isAvail(g, right(g, i))
    BY DEF Separate
  <2>1. ~isAvail(g, End)
    BY <1>6 DEF isAvail
  <2>2. CASE i \in S
    <3>1. i # it /\ isAvail(h, i)
      BY <1>7, <1>15, <2>2
    <3>2. right(g, i) = right(h, i) /\ right(h, i) \in S \cup {End} /\ ~isAvail(h, right(h, i))
      BY <1>1, <1>5, <2>2, <3>1 DEF Separate, right
    <3> QED BY <1>7, <1>15, <2>1, <3>2
  <2>3. CASE i = e /\ m # mx
    <3>1. right(g, i) = it + mx /\ right(h, it) = it + mx
      BY <1>11, <1>13, <2>3 DEF right
    <3>2. ~isAvail(h, it + mx) /\ it + mx \in S \cup {End} /\ it + mx # it
      BY <1>2, <1>3, <3>1 DEF Separate
    <3> QED BY <1>15, <2>1, <3>1, <3>2
  <2> QED BY <1>9, <2>2, <2>3
<1>18. TakenSame(h, g, S, {})
  <2> SUFFICES ASSUME NEW j \in S, isTaken(h, j), NEW k \in j..(j + size(h, j) - 1)
               PROVE  g.array[k] = h.array[k]
    BY DEF TakenSame
  <2>1. j \notin F /\ j # it
    <3>1. h.array[j] \in Int /\ h.array[it] \in Int
      BY <1>1, <1>3 DEF HeapType
    <3> QED BY <1>2, <3>1 DEF isTaken, isAvail, FreeOf, F
  <2>2. ~IsLink(F, k)
    BY <1>2, <2>1, NoLinksWithin
  <2>3. k \in Index /\ ~(k \in it..(it + mx - 1))
    <3>1. j < it => j + size(h, j) <= it
      BY <1>1, <1>2
    <3>2. j < it \/ it + mx <= j
      BY <1>3, <2>1
    <3>3. /\ j \in Int /\ size(h, j) \in Int /\ j >= 2 /\ j + size(h, j) <= End
          /\ it \in Int /\ mx \in Int
      BY <1>1, <1>3
    <3> HIDE DEF mx
    <3> QED BY <3>1, <3>2, <3>3, Sizes
  <2> QED BY <2>2, <2>3, <1>11 DEF F
<1>19. Linked(g, FreeOf(g, T), stamps)
  BY <1>16 DEF F
<1> QED BY <1>7, <1>9, <1>14, <1>17, <1>18, <1>19 DEF Good

(* malloc() takes a block, and what it does not need of it stays free.     *)
LEMMA Taken ==
  ASSUME NEW h, NEW S, NEW stamp, Good(h, S, stamp), NEW it \in FreeOf(h, S),
         NEW ints \in Int, 4 <= ints, ints <= size(h, it)
  PROVE  \E T, stamps :
           /\ Good(Take(h, it, ints), T, stamps) /\ S \subseteq T
           /\ isTaken(Take(h, it, ints), it) /\ size(Take(h, it, ints), it) >= ints
           /\ TakenSame(h, Take(h, it, ints), S, {})
<1> DEFINE F == FreeOf(h, S)
           F2 == F \ {it}
           mx == size(h, it)
           extra == mx - ints
           u == remove(h, it)
           e == it + ints
           m == IF extra >= 4 THEN ints ELSE mx
           T == IF extra >= 4 THEN S \cup {e} ELSE S
           v == Tag(u, it, m, -m)
           g == IF extra >= 4 THEN makeAvail(v, e, extra) ELSE v
<1>1. g = Take(h, it, ints)
  BY DEF Take, makeTaken
<1>2. h \in HeapType /\ Tiles(h, S) /\ Linked(h, F, stamp) /\ Separate(h, S) /\ F \in SUBSET S /\ it \in S
  BY DEF Good, FreeOf
<1>3. \A j \in S : /\ j \in Index /\ j \in Int /\ size(h, j) \in Int /\ size(h, j) >= 4
                   /\ j \in 2..(Len4 - 6) /\ j + size(h, j) <= End
                   /\ \A i \in S : j < i => j + size(h, j) <= i
  BY <1>2, BlockWords
<1>4. u \in HeapType /\ Linked(u, F2, stamp) /\ \A j \in Index : IsLink(F, j) \/ u.array[j] = h.array[j]
  <2> HIDE DEF F
  <2> QED BY <1>2, RemoveUnlinks DEF F
<1>5. /\ mx \in Int /\ extra \in Int /\ it \in Int /\ e = it + ints /\ extra = mx - ints
      /\ m \in Int /\ 4 <= m /\ m <= mx /\ (extra >= 4 => m = ints) /\ (~(extra >= 4) => m = mx)
      /\ it >= 2 /\ it + mx <= End /\ it \in Index
  <2>1. mx \in Int /\ it \in Int /\ mx >= 4 /\ it >= 2 /\ it + mx <= End /\ it \in Index
    BY <1>2, <1>3
  <2> HIDE DEF mx
  <2> QED BY <2>1
<1> HIDE DEF mx, extra, e, m
<1>6. it + m - 1 \in Index
  BY <1>5, Sizes
<1>7. /\ v \in HeapType /\ v.avail = u.avail
      /\ \A k \in Index : v.array[k] = IF k = it \/ k = it + m - 1 THEN -m ELSE u.array[k]
  <2> HIDE DEF u
  <2>1. -m \in Int
    BY <1>5
  <2>2. v \in HeapType /\ v.avail = u.avail /\ TagOn(u, v, it, m, -m)
    BY <1>4, <1>5, <1>6, <2>1, Tagged
  <2> HIDE DEF v
  <2> QED BY <2>2 DEF TagOn
<1> HIDE DEF u, v
<1>8. Linked(v, F2, stamp)
  <2>1. ASSUME NEW k \in Index, IsLink(F2, k)
        PROVE  v.array[k] = u.array[k]
    <3>1. F2 \in SUBSET S /\ it \notin F2
      BY <1>2
    <3> HIDE DEF F2
    <3>2. \A j \in it..(it + size(h, it) - 1) : ~IsLink(F2, j)
      BY <1>2, <3>1, NoLinksWithin
    <3>3. it \in it..(it + mx - 1) /\ it + m - 1 \in it..(it + mx - 1)
      BY <1>5
    <3>4. k # it /\ k # it + m - 1
      BY <2>1, <3>2, <3>3 DEF mx
    <3> QED BY <1>7, <3>4
  <2> HIDE DEF F2
  <2> QED BY <1>4, <1>7, <2>1, StaysLinked
<1>9. CASE extra >= 4
  <2> DEFINE d == makeAvail(v, e, extra)
  <2>1. d = g
    BY <1>9
  <2>2. Fits(F2, e, extra)
    <3>1. \A f \in F2 : f \in Int /\ (f + 4 <= it \/ it + mx <= f)
      <4>1. \A f \in F2 : f \in S /\ f # it
        BY <1>2
      <4> HIDE DEF F2
      <4>2. ASSUME NEW f \in F2 PROVE f + 4 <= it \/ it + mx <= f
        <5>1. f \in S /\ f # it
          BY <4>1
        <5>2. f < it => f + size(h, f) <= it
          BY <1>2, <1>3, <5>1
        <5>3. it < f => it + mx <= f
          BY <1>2, <1>3, <5>1 DEF mx
        <5> QED BY <1>3, <1>5, <5>1, <5>2, <5>3
      <4> QED BY <1>3, <4>1, <4>2
    <3> HIDE DEF F2
    <3>2. ASSUME NEW f \in F2 PROVE f + 4 <= e \/ e + extra <= f
      <4>1. f \in Int /\ (f + 4 <= it \/ it + mx <= f)
        BY <3>1
      <4> QED BY <1>5, <4>1
    <3>3. e \in Int /\ 2 <= e /\ e + extra <= End
      BY <1>5
    <3> QED BY <1>5, <1>9, <3>2, <3>3 DEF Fits
  <2> HIDE DEF F2
  <2>3. PICK stamps : Linked(d, F2 \cup {e}, stamps)
    BY <1>7, <1>8, <2>2, MakeAvailLinks
  <2>4. /\ d \in HeapType
        /\ \A k \in Index : d.array[k] =
             IF k = e \/ k = e + extra - 1 THEN extra ELSE IF k = e + 1 THEN v.avail
             ELSE IF k = e + 2 THEN 0
             ELSE IF v.avail # 0 /\ k = v.avail + 2 THEN e ELSE v.array[k]
    BY <1>7, <1>8, <2>2, MadeAvail
  <2>5. \A k \in Index : IsLink(F2 \cup {e}, k) \/ k = e \/ k = e + extra - 1 \/ d.array[k] = v.array[k]
    BY <1>7, <1>8, <2>2, MakeAvailWords
  <2> HIDE DEF d
  <2>6. ASSUME NEW k \in Index, ~(k \in it..(it + mx - 1)), ~IsLink(F, k)
        PROVE  d.array[k] = h.array[k]
    <3>1. ~IsLink(F2, k)
      BY <2>6 DEF IsLink, F2
    <3>2. k # e /\ k # e + extra - 1 /\ k # e + 1 /\ k # e + 2 /\ k # it /\ k # it + m - 1
      BY <1>5, <1>9, <2>6, Sizes DEF Index
    <3>3. ~IsLink(F2 \cup {e}, k)
      BY <3>1, <3>2 DEF IsLink
    <3>4. d.array[k] = v.array[k]
      BY <2>5, <3>2, <3>3
    <3>5. v.array[k] = u.array[k]
      BY <1>7, <3>2
    <3> QED BY <1>4, <2>6, <3>4, <3>5
  <2>7. \A k \in Index : k = it \/ k = it + m - 1 => d.array[k] = -m
    <3> SUFFICES ASSUME NEW k \in Index, k = it \/ k = it + m - 1 PROVE d.array[k] = -m
      OBVIOUS
    <3>1. v.array[k] = -m
      BY <1>7
    <3>2. k # e /\ k # e + extra - 1
      BY <1>5, <1>9
    <3>3. ~IsLink(F2 \cup {e}, k)
      <4>1. k # e + 1 /\ k # e + 2
        BY <1>5, <1>9
      <4>2. F2 \in SUBSET S /\ it \notin F2
        BY <1>2 DEF F2
      <4>3. k \in it..(it + mx - 1)
        BY <1>5
      <4>4. ~IsLink(F2, k)
        BY <1>2, <4>2, <4>3, NoLinksWithin DEF mx
      <4> QED BY <4>1, <4>4 DEF IsLink
    <3> QED BY <2>5, <3>1, <3>2, <3>3
  <2>8. \A k \in Index : k = it + m \/ k = it + mx - 1 => d.array[k] = mx - m
    BY <1>5, <1>9, <2>4
  <2>9. m + 4 <= mx /\ T = S \cup {it + m}
    BY <1>5, <1>9
  <2>10. T \ S = {e}
    <3>1. e \notin S
      BY <1>2, <1>3, <1>5, <1>9 DEF mx
    <3> QED BY <1>9, <3>1
  <2>11. Linked(d, (F \ {it}) \cup (T \ S), stamps)
    BY <2>3, <2>10 DEF F2
  <2>12. /\ Good(d, T, stamps) /\ S \subseteq T
         /\ isTaken(d, it) /\ size(d, it) >= m /\ TakenSame(h, d, S, {})
    <3>1. /\ m + 4 <= size(h, it) /\ T = S \cup {it + m}
          /\ \A k \in Index : k = it + m \/ k = it + size(h, it) - 1 => d.array[k] = size(h, it) - m
      BY <2>8, <2>9 DEF mx
    <3>2. /\ \A k \in Index : \/ k \in it..(it + size(h, it) - 1)
                               \/ IsLink(FreeOf(h, S), k) \/ d.array[k] = h.array[k]
          /\ Linked(d, (FreeOf(h, S) \ {it}) \cup (T \ S), stamps)
      BY <2>6, <2>11 DEF F, mx
    <3>3. d \in HeapType /\ m \in Int /\ 4 <= m
      BY <1>5, <2>4
    <3> HIDE DEF T, F
    <3>4. Divided(h, S, it, d, m, T)
      BY <2>7, <3>1, <3>2, <3>3 DEF Divided
    <3> QED BY <1>2, <3>2, <3>3, <3>4, Retiled
  <2> HIDE DEF T, g
  <2> QED BY <1>1, <1>5, <1>9, <2>1, <2>12
<1>10. CASE ~(extra >= 4)
  <2>1. v = g /\ T = S
    BY <1>10
  <2>2. ASSUME NEW k \in Index, ~(k \in it..(it + mx - 1)), ~IsLink(F, k)
        PROVE  v.array[k] = h.array[k]
    <3>1. k # it /\ k # it + m - 1
      BY <1>5, <2>2, Sizes DEF Index
    <3>2. v.array[k] = u.array[k]
      BY <1>7, <3>1
    <3> QED BY <1>4, <2>2, <3>2
  <2>3. \A k \in Index : k = it \/ k = it + m - 1 => v.array[k] = -m
    BY <1>7
  <2>4. Linked(v, (F \ {it}) \cup (S \ S), stamp)
    <3>1. (F \ {it}) \cup (S \ S) = F2
      OBVIOUS
    <3> QED BY <1>8, <3>1
  <2>5. m = mx
    BY <1>5, <1>10
  <2>6. /\ Good(v, S, stamp) /\ isTaken(v, it) /\ size(v, it) >= m /\ TakenSame(h, v, S, {})
    <3>1. m = size(h, it) /\ S = S
      BY <2>5 DEF mx
    <3>2. /\ \A k \in Index : \/ k \in it..(it + size(h, it) - 1)
                               \/ IsLink(FreeOf(h, S), k) \/ v.array[k] = h.array[k]
          /\ Linked(v, (FreeOf(h, S) \ {it}) \cup (S \ S), stamp)
      BY <2>2, <2>4 DEF F, mx
    <3>3. m \in Int /\ 4 <= m
      BY <1>5
    <3> HIDE DEF F
    <3>4. Divided(h, S, it, v, m, S)
      BY <2>3, <3>1, <3>2, <3>3 DEF Divided
    <3> QED BY <1>2, <1>7, <3>2, <3>4, Retiled
  <2> HIDE DEF T, g
  <2>7. size(v, it) >= ints
    <3>1. size(v, it) \in Int
      BY <1>2, <1>7, <2>6, BlockWords DEF Good
    <3>2. ints <= m /\ m \in Int /\ size(v, it) >= m
      BY <1>5, <2>5, <2>6 DEF mx
    <3> QED BY <3>1, <3>2
  <2> QED BY <1>1, <2>1, <2>6, <2>7
<1> QED BY <1>9, <1>10

-----------------------------------------------------------------------------
(* Walks through the array.                                                *)

IsWalk(f, first, onwards, n) ==
  f = [k \in 0..n |-> IF k = 0 THEN first ELSE onwards[f[k - 1]]]

(* There is such a walk, however long.                                     *)
LEMMA WalkExists ==
  ASSUME NEW first, NEW onwards, NEW n \in Nat
  PROVE  \E f : IsWalk(f, first, onwards, n)
<1> DEFINE T == {m \in Nat : ~\E f : IsWalk(f, first, onwards, m)}
<1>1. SUFFICES ASSUME T # {} PROVE FALSE
  OBVIOUS
<1>2. PICK m \in T : \A k \in T : m <= k
  BY <1>1, Least
<1>3. m # 0
  <2>1. IsWalk([k \in 0..0 |-> first], first, onwards, 0)
    BY DEF IsWalk
  <2> QED BY <2>1
<1>4. PICK f : IsWalk(f, first, onwards, m - 1)
  BY <1>2, <1>3
<1> DEFINE g == [k \in 0..m |-> IF k = m THEN onwards[f[m - 1]] ELSE f[k]]
<1>5. \A k \in 0..(m - 1) : f[k] = IF k = 0 THEN first ELSE onwards[f[k - 1]]
  BY <1>4, Zenon DEF IsWalk
<1>6. IsWalk(g, first, onwards, m)
  BY <1>3, <1>5 DEF IsWalk
<1> QED BY <1>6

(* As many blocks of four words as there is room for.                      *)
LEMMA MaxBlocksNumber == MaxBlocks \in Nat /\ 4 * MaxBlocks <= Len4 /\ Len4 < 4 * MaxBlocks + 4
BY HeapAssumption DEF MaxBlocks

(* The steps of the walk that the heap is looked at with.                  *)
LEMMA WalkSteps ==
  ASSUME NEW first, NEW onwards
  PROVE  /\ Walk(first, onwards)[0] = first
         /\ \A k \in 0..MaxBlocks : k # 0 =>
              Walk(first, onwards)[k] = onwards[Walk(first, onwards)[k - 1]]
<1> DEFINE f == Walk(first, onwards)
<1>1. IsWalk(f, first, onwards, MaxBlocks)
  <2>1. \E e : IsWalk(e, first, onwards, MaxBlocks)
    BY MaxBlocksNumber, WalkExists
  <2> QED BY <2>1, Zenon DEF Walk, IsWalk
<1> HIDE DEF f
<1>2. \A k \in 0..MaxBlocks : f[k] = IF k = 0 THEN first ELSE onwards[f[k - 1]]
  BY <1>1, Zenon DEF IsWalk
<1>3. 0 \in 0..MaxBlocks
  BY MaxBlocksNumber
<1>4. f[0] = first
  BY <1>2, <1>3, Zenon
<1>5. \A k \in 0..MaxBlocks : k # 0 => f[k] = onwards[f[k - 1]]
  BY <1>2, Zenon
<1> QED BY <1>4, <1>5 DEF f

(* The places that a walk over the blocks comes to.                        *)
LEMMA WalkOverBlocks ==
  ASSUME NEW h \in HeapType, NEW S, Tiles(h, S), NEW onwards,
         \A i \in S : onwards[i] = right(h, i), onwards[End] = End
  PROVE  {Walk(2, onwards)[n] : n \in 0..MaxBlocks} \ {End} = S
<1> DEFINE walked == Walk(2, onwards)
<1>1. walked[0] = 2 /\ \A k \in 0..MaxBlocks : k # 0 => walked[k] = onwards[walked[k - 1]]
  BY WalkSteps
<1> HIDE DEF walked
<1>2. \A j \in S : /\ j \in Int /\ size(h, j) \in Int /\ size(h, j) >= 4 /\ j \in 2..(Len4 - 6)
                   /\ right(h, j) = j + size(h, j) /\ j # End
  BY BlockWords, Sizes
<1>3. 2 \in S /\ \A j \in S : right(h, j) \in S \cup {End}
  BY DEF Tiles
<1> DEFINE Far(n) == walked[n] = End \/ (walked[n] \in S /\ walked[n] >= 2 + 4 * n)
           T == {n \in 0..MaxBlocks : ~Far(n)}
<1>4. T = {}
  <2> SUFFICES ASSUME T # {} PROVE FALSE
    OBVIOUS
  <2>1. T \in SUBSET Nat
    BY MaxBlocksNumber
  <2>2. PICK n \in T : \A m \in T : n <= m
    <3> HIDE DEF T
    <3> QED BY <2>1, Least
  <2>3. Far(0)
    BY <1>1, <1>3
  <2>4. n # 0 /\ n \in 0..MaxBlocks /\ n - 1 \in 0..MaxBlocks /\ ~(n - 1 \in T)
    BY <2>2, <2>3, MaxBlocksNumber
  <2>5. Far(n - 1) /\ walked[n] = onwards[walked[n - 1]]
    BY <1>1, <2>4
  <2>6. CASE walked[n - 1] = End
    BY <2>2, <2>5, <2>6
  <2>7. CASE walked[n - 1] \in S /\ walked[n - 1] >= 2 + 4 * (n - 1)
    <3>1. walked[n] = right(h, walked[n - 1])
      BY <2>5, <2>7
    <3>2. walked[n] >= 2 + 4 * n
      BY <1>2, <2>4, <2>7, <3>1
    <3> QED BY <1>3, <2>2, <2>7, <3>1, <3>2
  <2> QED BY <2>5, <2>6, <2>7
<1>5. \A n \in 0..MaxBlocks : Far(n)
  BY <1>4
<1> DEFINE U == {j \in S : ~\E n \in 0..MaxBlocks : walked[n] = j}
<1>6. U = {}
  <2> SUFFICES ASSUME U # {} PROVE FALSE
    OBVIOUS
  <2>1. U \in SUBSET Nat
    BY <1>2
  <2>2. PICK j \in U : \A i \in U : j <= i
    <3> HIDE DEF U
    <3> QED BY <2>1, Least
  <2>3. j # 2 /\ j \in S
    BY <1>1, <2>2, MaxBlocksNumber
  <2>4. PICK i \in S : i + size(h, i) = j /\ i < j
    BY <2>3, Before
  <2>5. PICK n \in 0..MaxBlocks : walked[n] = i
    BY <1>2, <2>2, <2>3, <2>4
  <2>6. i >= 2 + 4 * n /\ i \in 2..(Len4 - 6)
    BY <1>2, <1>5, <2>5
  <2>7. n + 1 \in 0..MaxBlocks
    BY <2>6, MaxBlocksNumber, Sizes
  <2>8. walked[n + 1] = onwards[i]
    BY <1>1, <2>5, <2>7
  <2>9. walked[n + 1] = j
    BY <1>2, <2>4, <2>8
  <2> QED BY <2>2, <2>7, <2>9
<1>7. {walked[n] : n \in 0..MaxBlocks} \ {End} = S
  BY <1>2, <1>5, <1>6
<1> QED BY <1>7 DEF walked

(* The walk over the tags finds these blocks.                              *)
LEMMA StartsAre ==
  ASSUME NEW S, heap \in HeapType, Tiles(heap, S)
  PROVE  Starts = S
<1> DEFINE end == Len4 - 2
           onwards == [i \in Index |->
                         IF i = end THEN end
                         ELSE IF i # 0 /\ size(heap, i) >= 4 /\ right(heap, i) <= end
                         THEN right(heap, i) ELSE 0]
<1>1. Starts = {Walk(2, onwards)[n] : n \in 0..MaxBlocks} \ {End}
  BY DEF Starts, End
<1>2. onwards[End] = End
  BY Sizes DEF End
<1>3. ASSUME NEW i \in S PROVE onwards[i] = right(heap, i)
  <2>1. /\ i \in Index /\ i # end /\ i # 0 /\ size(heap, i) >= 4
        /\ right(heap, i) = i + size(heap, i) /\ i + size(heap, i) <= end
    BY BlockWords, Sizes DEF End
  <2> QED BY <2>1
<1> HIDE DEF onwards
<1> QED BY <1>1, <1>2, <1>3, WalkOverBlocks

Onwards(h) == [p \in Index |-> IF p # 0 /\ next(h, p) \in Index THEN next(h, p) ELSE 0]

(* The walk along the links.                                               *)
LEMMA ListWalk ==
  ASSUME NEW h \in HeapType, NEW F, NEW stamp, Linked(h, F, stamp)
  PROVE  LET walked == Walk(h.avail, Onwards(h)) IN
         \A n \in 0..MaxBlocks :
           /\ walked[n] \in F \cup {0}
           /\ n = 0 => walked[n] = h.avail /\ (walked[n] # 0 => prev(h, walked[n]) = 0)
           /\ n # 0 /\ walked[n - 1] # 0 => walked[n] = next(h, walked[n - 1])
           /\ n # 0 /\ walked[n] # 0 => /\ walked[n - 1] \in F /\ prev(h, walked[n]) = walked[n - 1]
                                        /\ stamp[walked[n - 1]] < stamp[walked[n]]
<1> DEFINE walked == Walk(h.avail, Onwards(h))
           on == Onwards(h)
<1>1. walked[0] = h.avail /\ \A k \in 0..MaxBlocks : k # 0 => walked[k] = on[walked[k - 1]]
  BY WalkSteps
<1>2. /\ F \subseteq 2..(Len4 - 6) /\ h.avail \in F \cup {0} /\ 0 \notin F /\ F \subseteq Index /\ 0 \in Index
      /\ \A f \in F : LinksOf(h, F, stamp, f)
  BY Sizes DEF Linked
<1>3. \A p \in Index : on[p] = IF p # 0 /\ next(h, p) \in Index THEN next(h, p) ELSE 0
  BY DEF Onwards
<1> HIDE DEF walked, on
<1>4. on[0] = 0 /\ \A f \in F : on[f] = next(h, f)
  BY <1>2, <1>3 DEF LinksOf
<1> DEFINE T == {n \in 0..MaxBlocks : ~(walked[n] \in F \cup {0})}
<1>5. T = {}
  <2> SUFFICES ASSUME T # {} PROVE FALSE
    OBVIOUS
  <2>1. T \in SUBSET Nat
    BY MaxBlocksNumber
  <2>2. PICK n \in T : \A m \in T : n <= m
    <3> HIDE DEF T
    <3> QED BY <2>1, Least
  <2>3. n # 0
    BY <1>1, <1>2, <2>2
  <2>4. n \in 0..MaxBlocks /\ n - 1 \in 0..MaxBlocks /\ ~(n - 1 \in T)
    BY <2>2, <2>3, MaxBlocksNumber
  <2>5. walked[n - 1] \in F \cup {0} /\ walked[n] = on[walked[n - 1]]
    BY <1>1, <2>3, <2>4
  <2>6. walked[n] \in F \cup {0}
    <3>1. \A f \in F : on[f] \in F \cup {0}
      BY <1>2, <1>4 DEF LinksOf
    <3> QED BY <1>4, <2>5, <3>1
  <2> QED BY <2>2, <2>6
<1>6. \A n \in 0..MaxBlocks : walked[n] \in F \cup {0}
  BY <1>5
<1>7. walked[0] # 0 => prev(h, walked[0]) = 0
  BY <1>1, <1>2 DEF LinksOf
<1>8. ASSUME NEW n \in 0..MaxBlocks, n # 0
      PROVE  /\ walked[n - 1] # 0 => walked[n] = next(h, walked[n - 1])
             /\ walked[n] # 0 => /\ walked[n - 1] \in F /\ prev(h, walked[n]) = walked[n - 1]
                                 /\ stamp[walked[n - 1]] < stamp[walked[n]]
  <2>1. n - 1 \in 0..MaxBlocks
    BY <1>8, MaxBlocksNumber
  <2>2. walked[n - 1] \in F \cup {0} /\ walked[n] = on[walked[n - 1]]
    BY <1>1, <1>6, <1>8, <2>1
  <2>3. CASE walked[n - 1] = 0
    BY <1>4, <2>2, <2>3
  <2>4. CASE walked[n - 1] \in F
    BY <1>2, <1>4, <2>2, <2>4 DEF LinksOf
  <2> QED BY <2>2, <2>3, <2>4
<1>9. \A n \in 0..MaxBlocks :
           /\ walked[n] \in F \cup {0}
           /\ n = 0 => walked[n] = h.avail /\ (walked[n] # 0 => prev(h, walked[n]) = 0)
           /\ n # 0 /\ walked[n - 1] # 0 => walked[n] = next(h, walked[n - 1])
           /\ n # 0 /\ walked[n] # 0 => /\ walked[n - 1] \in F /\ prev(h, walked[n]) = walked[n - 1]
                                        /\ stamp[walked[n - 1]] < stamp[walked[n]]
  BY <1>1, <1>6, <1>7, <1>8
<1> QED BY <1>9 DEF walked

(* It does not come to a block twice, and so it ends.                      *)
LEMMA ListEnds ==
  ASSUME NEW h \in HeapType, NEW F, NEW stamp, Linked(h, F, stamp)
  PROVE  Walk(h.avail, Onwards(h))[MaxBlocks - 1] = 0
<1> DEFINE walked == Walk(h.avail, Onwards(h))
           N == MaxBlocks - 1
<1>1. \A n \in 0..MaxBlocks :
           /\ walked[n] \in F \cup {0}
           /\ n # 0 /\ walked[n] # 0 => walked[n - 1] \in F /\ stamp[walked[n - 1]] < stamp[walked[n]]
  BY ListWalk
<1> HIDE DEF walked
<1>2. /\ F \subseteq 2..(Len4 - 6) /\ stamp \in [Index -> Nat] /\ F \subseteq Index
      /\ \A f, e \in F : f < e => f + 4 <= e
  BY Sizes DEF Linked
<1>3. MaxBlocks \in Nat /\ N \in Nat /\ N >= 1 /\ 4 * N + 4 <= Len4 /\ Len4 < 4 * N + 8
  BY MaxBlocksNumber, Sizes
<1> SUFFICES ASSUME walked[N] # 0 PROVE FALSE
  BY DEF walked
<1>4. \A n \in 0..N : walked[n] \in F
  <2> DEFINE T == {k \in 0..N : walked[N - k] \notin F}
  <2>1. T = {}
    <3> SUFFICES ASSUME T # {} PROVE FALSE
      OBVIOUS
    <3>1. T \in SUBSET Nat
      OBVIOUS
    <3>2. PICK k \in T : \A m \in T : k <= m
      <4> HIDE DEF T
      <4> QED BY <3>1, Least
    <3>3. N - 0 = N /\ walked[N] \in F
      BY <1>1, <1>3
    <3>4. k # 0
      BY <3>2, <3>3
    <3>5. k - 1 \in 0..N /\ ~(k - 1 \in T)
      BY <1>3, <3>2, <3>4
    <3>6. walked[N - (k - 1)] \in F
      BY <3>5
    <3>7. N - (k - 1) \in 0..MaxBlocks /\ N - (k - 1) # 0 /\ N - (k - 1) - 1 = N - k
      BY <1>3, <3>2, <3>5
    <3>8. 0 \notin F
      BY <1>2
    <3>9. walked[N - k] \in F
      BY <1>1, <3>6, <3>7, <3>8
    <3> QED BY <3>2, <3>9
  <2>2. ASSUME NEW n \in 0..N PROVE walked[n] \in F
    <3>1. N - n \in 0..N /\ N - (N - n) = n
      BY <1>3
    <3>2. walked[N - (N - n)] \in F
      BY <2>1, <3>1
    <3> QED BY <3>1, <3>2
  <2> QED BY <2>2
<1>5. ASSUME NEW m \in 0..N
      PROVE  \A n \in 0..N : m < n => stamp[walked[m]] < stamp[walked[n]]
  <2> DEFINE T == {n \in 0..N : m < n /\ ~(stamp[walked[m]] < stamp[walked[n]])}
  <2> SUFFICES ASSUME T # {} PROVE FALSE
    OBVIOUS
  <2>1. T \in SUBSET Nat
    BY <1>3
  <2>2. PICK n \in T : \A k \in T : n <= k
    <3> HIDE DEF T
    <3> QED BY <2>1, Least
  <2>3. n \in 0..N /\ n # 0 /\ n - 1 \in 0..N /\ n \in 0..MaxBlocks
    BY <1>3, <2>2
  <2>4. \A k \in 0..N : walked[k] \in F /\ stamp[walked[k]] \in Nat
    BY <1>2, <1>4
  <2>5. stamp[walked[n - 1]] < stamp[walked[n]]
    BY <1>1, <1>2, <2>3, <2>4
  <2>6. n - 1 = m \/ stamp[walked[m]] < stamp[walked[n - 1]]
    BY <1>3, <2>2, <2>3
  <2>7. stamp[walked[n]] \in Nat /\ stamp[walked[n - 1]] \in Nat /\ stamp[walked[m]] \in Nat
    BY <2>3, <2>4
  <2> QED BY <2>2, <2>5, <2>6, <2>7
<1> DEFINE row == [n \in 0..N |-> (walked[n] - 2) \div 4]
<1>6. \A n \in 0..N : row[n] \in 0..(N - 1)
  <2> SUFFICES ASSUME NEW n \in 0..N PROVE (walked[n] - 2) \div 4 \in 0..(N - 1)
    OBVIOUS
  <2>1. walked[n] \in 2..(Len4 - 6)
    BY <1>2, <1>4
  <2> QED BY <1>3, <2>1, Sizes
<1>7. ASSUME NEW m \in 0..N, NEW n \in 0..N, m < n, row[m] = row[n]
      PROVE  FALSE
  <2>1. (walked[m] - 2) \div 4 = (walked[n] - 2) \div 4
    BY <1>7
  <2>2. walked[m] \in F /\ walked[n] \in F /\ walked[m] \in 2..(Len4 - 6) /\ walked[n] \in 2..(Len4 - 6)
    BY <1>2, <1>4
  <2>3. walked[m] < walked[n] + 4 /\ walked[n] < walked[m] + 4
    <3> DEFINE x == walked[m] - 2
               y == walked[n] - 2
    <3>1. x \in Nat /\ y \in Nat /\ walked[m] = x + 2 /\ walked[n] = y + 2
      BY <2>2, Sizes
    <3>2. x \div 4 = y \div 4
      BY <2>1
    <3> HIDE DEF x, y
    <3>3. x < y + 4 /\ y < x + 4
      BY <3>1, <3>2
    <3> QED BY <3>1, <3>3
  <2>4. walked[m] = walked[n]
    <3>1. /\ walked[m] < walked[n] => walked[m] + 4 <= walked[n]
          /\ walked[n] < walked[m] => walked[n] + 4 <= walked[m]
      BY <1>2, <2>2
    <3>2. walked[m] \in Int /\ walked[n] \in Int
      BY <2>2, Sizes
    <3> QED BY <2>3, <3>1, <3>2
  <2>5. stamp[walked[m]] < stamp[walked[n]] /\ stamp[walked[n]] \in Nat
    BY <1>2, <1>5, <1>7, <2>2
  <2> QED BY <2>4, <2>5
<1>8. /\ IsFiniteSet(0..N) /\ Cardinality(0..N) = N + 1
      /\ IsFiniteSet(0..(N - 1)) /\ Cardinality(0..(N - 1)) = N
  <2>1. N \in Int /\ 0 \in Int /\ N - 1 \in Int /\ 0 <= N /\ 0 <= N - 1
    BY <1>3
  <2> HIDE DEF N
  <2>2. IsFiniteSet(0..N) /\ Cardinality(0..N) = IF 0 > N THEN 0 ELSE N - 0 + 1
    BY <2>1, FS_Interval
  <2>3. IsFiniteSet(0..(N - 1)) /\ Cardinality(0..(N - 1)) = IF 0 > N - 1 THEN 0 ELSE N - 1 - 0 + 1
    BY <2>1, FS_Interval
  <2> QED BY <2>1, <2>2, <2>3
<1>9. row \in [0..N -> 0..(N - 1)]
  BY <1>6
<1>10. \E m, n \in 0..N : m # n /\ row[m] = row[n]
  <2>1. Cardinality(0..N) > Cardinality(0..(N - 1))
    BY <1>3, <1>8
  <2> HIDE DEF row, N
  <2> QED BY <1>8, <1>9, <2>1, FS_PigeonHole
<1> QED BY <1>3, <1>7, <1>10

(* The list has the free blocks, in the order of their links.              *)
LEMMA ListIs ==
  ASSUME NEW h \in HeapType, NEW F, NEW stamp, Linked(h, F, stamp)
  PROVE  LET list == List(h) IN
         /\ DOMAIN list \subseteq 1..MaxBlocks
         /\ \A k \in DOMAIN list : /\ list[k] \in F
                                   /\ prev(h, list[k]) = IF k = 1 THEN 0 ELSE list[k - 1]
         /\ \A f \in F : \E k \in DOMAIN list : list[k] = f
<1> DEFINE walked == Walk(h.avail, Onwards(h))
           D == {n \in 1..MaxBlocks : walked[n - 1] # 0}
           list == [k \in D |-> walked[k - 1]]
<1>1. list = List(h)
  BY DEF List, Onwards
<1>2. \A n \in 0..MaxBlocks :
           /\ walked[n] \in F \cup {0}
           /\ n = 0 => walked[n] = h.avail /\ (walked[n] # 0 => prev(h, walked[n]) = 0)
           /\ n # 0 /\ walked[n - 1] # 0 => walked[n] = next(h, walked[n - 1])
           /\ n # 0 /\ walked[n] # 0 => walked[n - 1] \in F /\ prev(h, walked[n]) = walked[n - 1]
  BY ListWalk
<1>3. walked[MaxBlocks - 1] = 0
  BY ListEnds
<1> HIDE DEF walked
<1>4. /\ F \subseteq 2..(Len4 - 6) /\ stamp \in [Index -> Nat] /\ F \subseteq Index /\ 0 \notin F
      /\ \A f \in F : LinksOf(h, F, stamp, f)
  BY Sizes DEF Linked
<1>5. MaxBlocks \in Nat /\ MaxBlocks >= 2
  BY MaxBlocksNumber, Sizes
<1>6. ASSUME NEW k \in D
      PROVE  walked[k - 1] \in F /\ prev(h, walked[k - 1]) = IF k = 1 THEN 0 ELSE list[k - 1]
  <2>1. k - 1 \in 0..MaxBlocks /\ walked[k - 1] # 0
    BY <1>5
  <2>2. CASE k = 1
    BY <1>2, <2>1, <2>2
  <2>3. CASE k # 1
    <3>1. k - 1 # 0 /\ k - 1 \in 1..MaxBlocks /\ k - 1 - 1 \in 0..MaxBlocks
      BY <1>5, <2>3
    <3>2. walked[k - 1 - 1] \in F /\ prev(h, walked[k - 1]) = walked[k - 1 - 1]
      BY <1>2, <2>1, <3>1
    <3>3. k - 1 \in D
      BY <1>4, <3>1, <3>2
    <3>4. list[k - 1] = walked[k - 1 - 1]
      BY <3>3
    <3> QED BY <1>2, <2>1, <2>3, <3>2, <3>4
  <2> QED BY <2>2, <2>3
<1> DEFINE Reached(f) == \E n \in 0..MaxBlocks : walked[n] = f
           U == {f \in F : ~Reached(f)}
           R == {stamp[f] : f \in U}
<1>7. U = {}
  <2> SUFFICES ASSUME U # {} PROVE FALSE
    OBVIOUS
  <2>1. R \in SUBSET Nat /\ R # {}
    BY <1>4
  <2>2. PICK r \in R : \A q \in R : r <= q
    <3> HIDE DEF R
    <3> QED BY <2>1, Least
  <2>3. PICK f \in U : r = stamp[f]
    BY <2>2
  <2>4. f \in F /\ ~Reached(f) /\ LinksOf(h, F, stamp, f)
    BY <1>4, <2>3
  <2>5. CASE prev(h, f) = 0
    <3>1. walked[0] = f
      BY <1>2, <1>5, <2>4, <2>5 DEF LinksOf
    <3> QED BY <1>5, <2>4, <3>1
  <2>6. CASE prev(h, f) # 0
    <3> DEFINE e == prev(h, f)
    <3>1. e \in F /\ next(h, e) = f /\ e # 0
      BY <2>4, <2>6 DEF LinksOf
    <3> HIDE DEF e
    <3>2. stamp[e] < stamp[f] /\ stamp[e] \in Nat /\ stamp[f] \in Nat
      <4>1. LinksOf(h, F, stamp, e) /\ f # 0
        BY <1>4, <2>4, <3>1
      <4> QED BY <1>4, <2>4, <3>1, <4>1 DEF LinksOf
    <3>3. e \notin U
      BY <2>2, <2>3, <3>2
    <3>4. PICK n \in 0..MaxBlocks : walked[n] = e
      BY <3>1, <3>3
    <3>5. n # MaxBlocks - 1
      BY <1>3, <3>1, <3>4
    <3>6. n # MaxBlocks
      BY <1>2, <1>3, <1>4, <1>5, <3>1, <3>4
    <3>7. n + 1 \in 0..MaxBlocks /\ n + 1 # 0 /\ n + 1 - 1 = n
      BY <1>5, <3>6
    <3>8. walked[n + 1] = f
      BY <1>2, <3>1, <3>4, <3>7
    <3> QED BY <2>4, <3>7, <3>8
  <2> QED BY <2>5, <2>6
<1>8. ASSUME NEW f \in F
      PROVE  \E k \in D : list[k] = f
  <2>1. PICK n \in 0..MaxBlocks : walked[n] = f
    BY <1>7
  <2>2. n # MaxBlocks
    <3>1. n = MaxBlocks => walked[n - 1] \in F
      BY <1>2, <1>4, <1>5, <2>1
    <3> QED BY <1>3, <1>4, <3>1
  <2>3. n + 1 \in 1..MaxBlocks /\ n + 1 - 1 = n /\ f # 0
    BY <1>4, <1>5, <2>2
  <2>4. n + 1 \in D
    BY <2>1, <2>3
  <2> QED BY <2>1, <2>3, <2>4
<1>9. DOMAIN list = D /\ D \subseteq 1..MaxBlocks
  OBVIOUS
<1>10. \A k \in D : list[k] = walked[k - 1]
  OBVIOUS
<1> HIDE DEF D, list
<1> QED BY <1>1, <1>6, <1>8, <1>9, <1>10, ZenonT(60)

-----------------------------------------------------------------------------
(* The search for a block.                                                 *)

(* The first block of those that fit is among those that the kernel sees.  *)
LEMMA FirstIsSeen ==
  ASSUME NEW h, NEW list, NEW ints, DOMAIN list \subseteq 1..MaxBlocks, Fitting(h, list, ints) # {}
  PROVE  Fitting(h, list, ints) \cap Seen(h, list, ints) # {}
<1> DEFINE fits == Fitting(h, list, ints)
<1>1. fits \subseteq DOMAIN list /\ fits \in SUBSET Nat /\ fits # {}
  BY MaxBlocksNumber DEF Fitting
<1> HIDE DEF fits
<1>2. PICK k \in fits : \A j \in fits : k <= j
  BY <1>1, Least
<1>3. fits \cap 1..(k - 1) = {}
  BY <1>1, <1>2
<1>4. Cardinality(fits \cap 1..(k - 1)) < CountDown
  BY <1>3, FS_EmptySet, HeapAssumption
<1>5. k \in Seen(h, list, ints)
  BY <1>1, <1>2, <1>4 DEF Seen, fits
<1> QED BY <1>2, <1>5 DEF fits

(* There is a first of the smallest.                                       *)
LEMMA SmallestIsOne ==
  ASSUME NEW h, NEW list, DOMAIN list \subseteq 1..MaxBlocks,
         NEW blocks \in SUBSET (DOMAIN list), blocks # {},
         \A k \in blocks : size(h, list[k]) \in Nat
  PROVE  \E k \in blocks : FirstOfSmallest(h, list, blocks) = list[k]
<1> DEFINE R == {size(h, list[k]) : k \in blocks}
<1>1. R \in SUBSET Nat /\ R # {} /\ blocks \in SUBSET Nat
  BY MaxBlocksNumber
<1>2. PICK r \in R : \A q \in R : r <= q
  <2> HIDE DEF R
  <2> QED BY <1>1, Least
<1> DEFINE B == {k \in blocks : size(h, list[k]) = r}
<1>3. B \in SUBSET Nat /\ B # {}
  BY <1>1, <1>2
<1>4. PICK k \in B : \A j \in B : k <= j
  <2> HIDE DEF B
  <2> QED BY <1>3, Least
<1>5. \A j \in blocks : \/ size(h, list[k]) < size(h, list[j])
                        \/ size(h, list[k]) = size(h, list[j]) /\ k <= j
  <2> SUFFICES ASSUME NEW j \in blocks
               PROVE  \/ size(h, list[k]) < size(h, list[j])
                      \/ size(h, list[k]) = size(h, list[j]) /\ k <= j
    OBVIOUS
  <2>1. size(h, list[k]) = r /\ size(h, list[j]) \in Nat /\ r \in Nat /\ r <= size(h, list[j])
    BY <1>1, <1>2, <1>4
  <2>2. size(h, list[j]) = r => k <= j
    BY <1>4
  <2> QED BY <2>1, <2>2
<1>6. k \in blocks
  BY <1>4
<1> DEFINE c == CHOOSE i \in blocks : \A j \in blocks :
                  \/ size(h, list[i]) < size(h, list[j])
                  \/ size(h, list[i]) = size(h, list[j]) /\ i <= j
<1>7. c \in blocks
  BY <1>5, <1>6
<1>8. FirstOfSmallest(h, list, blocks) = list[c]
  BY DEF FirstOfSmallest
<1> QED BY <1>7, <1>8

(* The search fails only if no free block is big enough, and finds one     *)
(* that is.  What it looks at is free.                                     *)
LEMMA Searched ==
  ASSUME NEW h, NEW S, NEW stamp, Good(h, S, stamp), NEW ints \in Nat
  PROVE  /\ \/ Search(h, ints) \in FreeOf(h, S) /\ size(h, Search(h, ints)) >= ints
            \/ Search(h, ints) = 0 /\ \A i \in S : isAvail(h, i) => size(h, i) < ints
         /\ \A k \in Seen(h, List(h), ints) : isAvail(h, List(h)[k])
<1> DEFINE F == FreeOf(h, S)
           list == List(h)
           fits == Fitting(h, list, ints)
           seen == Seen(h, list, ints)
           it == Search(h, ints)
<1>1. h \in HeapType /\ Tiles(h, S) /\ Linked(h, F, stamp)
  BY DEF Good
<1> HIDE DEF list
<1>2. /\ DOMAIN list \subseteq 1..MaxBlocks
      /\ \A k \in DOMAIN list : list[k] \in F
      /\ \A f \in F : \E k \in DOMAIN list : list[k] = f
  BY <1>1, ListIs DEF list
<1>3. \A f \in F : f \in S /\ isAvail(h, f) /\ size(h, f) \in Nat
  <2>1. \A f \in S : size(h, f) \in Int /\ size(h, f) >= 4
    BY <1>1, BlockWords
  <2> QED BY <2>1 DEF FreeOf
<1> HIDE DEF F
<1>4. seen \subseteq DOMAIN list /\ fits \subseteq DOMAIN list
      /\ \A k \in fits : list[k] \in F /\ size(h, list[k]) >= ints
  BY <1>2 DEF Seen, Fitting
<1>5. \A k \in seen : isAvail(h, list[k])
  BY <1>2, <1>3, <1>4
<1>6. CASE fits = {}
  <2>1. it = 0
    <3>1. CASE kind = "kernel"
      BY <1>6, <3>1 DEF Search, BestFit, FirstOfSmallest, list
    <3>2. CASE kind # "kernel"
      BY <1>6, <3>2 DEF Search, FirstFit, list
    <3> QED BY <3>1, <3>2
  <2>2. ASSUME NEW i \in S, isAvail(h, i) PROVE size(h, i) < ints
    <3>1. i \in F
      BY <2>2 DEF F, FreeOf
    <3>2. PICK k \in DOMAIN list : list[k] = i
      BY <1>2, <3>1
    <3>3. ~(size(h, i) >= ints)
      BY <1>6, <3>2 DEF Fitting
    <3> QED BY <1>3, <3>1, <3>3
  <2> QED BY <1>5, <2>1, <2>2 DEF list
<1>7. CASE fits # {}
  <2>1. \E k \in fits : it = list[k]
    <3>1. CASE kind = "kernel"
      <4> DEFINE C == fits \cap seen
      <4>1. C # {}
        BY <1>2, <1>7, FirstIsSeen
      <4>2. C \in SUBSET (DOMAIN list) /\ \A k \in C : size(h, list[k]) \in Nat
        BY <1>3, <1>4
      <4>3. it = FirstOfSmallest(h, list, C)
        BY <3>1 DEF Search, BestFit, list
      <4>4. C \subseteq fits
        OBVIOUS
      <4> HIDE DEF C, it, fits
      <4>5. \E k \in C : FirstOfSmallest(h, list, C) = list[k]
        BY <1>2, <4>1, <4>2, SmallestIsOne
      <4> QED BY <4>3, <4>4, <4>5
    <3>2. CASE kind # "kernel"
      <4> DEFINE c == CHOOSE k \in fits : \A j \in fits : k <= j
      <4>1. fits \in SUBSET Nat
        BY <1>2, <1>4, MaxBlocksNumber
      <4>2. it = list[c]
        BY <1>7, <3>2 DEF Search, FirstFit, list
      <4> HIDE DEF fits, it
      <4>3. \E k \in fits : \A j \in fits : k <= j
        BY <1>7, <4>1, Least
      <4>4. c \in fits
        BY <4>3
      <4> QED BY <4>2, <4>4
    <3> QED BY <3>1, <3>2
  <2> HIDE DEF it, fits, seen
  <2> QED BY <1>4, <1>5, <2>1 DEF F, it, seen, list
<1> QED BY <1>6, <1>7

-----------------------------------------------------------------------------
(* What the owners have.                                                   *)

UsedWords(bytes) == IF Wrapped(bytes) THEN 1 ELSE InWords(bytes)

(* A piece is behind the first word of a block that is taken, and leaves   *)
(* the last one alone.                                                     *)
PieceIn(h, S, p, piece) ==
  /\ p \in Int /\ p - 1 \in S /\ isTaken(h, p - 1)
  /\ piece.bytes \in 1..(SizeW - 1) /\ UsedWords(piece.bytes) <= size(h, p - 1) - 2
  /\ piece.value \in Seq(Int) /\ Len(piece.value) <= size(h, p - 1) - 2
  /\ \A k \in 1..Len(piece.value) : h.array[p + k - 1] = piece.value[k]

(* Every piece that is held is in a block.                                 *)
Owned(h, S, hd) == \A p \in DOMAIN hd : PieceIn(h, S, p, hd[p])

(* A block is two words longer than what is asked for, unless the sum for  *)
(* its size wraps around.                                                  *)
LEMMA Amounts ==
  ASSUME NEW bytes \in 1..(SizeW - 1)
  PROVE  /\ Ints(bytes) \in Nat /\ Ints(bytes) >= 4
         /\ UsedWords(bytes) \in Nat /\ UsedWords(bytes) >= 1 /\ UsedWords(bytes) <= Ints(bytes) - 2
         /\ InWords(bytes) \in Nat
         /\ ~Wrapped(bytes) => InWords(bytes) <= Ints(bytes) - 2
<1>1. SizeW \in Nat /\ bytes \in Nat /\ bytes >= 1 /\ SizeW > 0
  BY Sizes
<1>2. InWords(bytes) \in Nat /\ InWords(bytes) >= 1
  BY <1>1 DEF InWords
<1> DEFINE r == (bytes + 3) % SizeW
           q == r \div 4 + 2
<1>3. r \in Nat /\ (~Wrapped(bytes) => r = bytes + 3)
  BY <1>1 DEF Wrapped
<1>4. Ints(bytes) = IF q < 4 THEN 4 ELSE q
  BY DEF Ints
<1> HIDE DEF r
<1>5. q \in Nat /\ (~Wrapped(bytes) => q = InWords(bytes) + 2)
  BY <1>3 DEF InWords
<1> HIDE DEF q
<1>6. /\ Ints(bytes) \in Nat /\ Ints(bytes) >= 4
      /\ ~Wrapped(bytes) => InWords(bytes) <= Ints(bytes) - 2
  BY <1>2, <1>4, <1>5
<1> QED BY <1>2, <1>6 DEF UsedWords

(* What an owner stores fits into his block.                               *)
LEMMA StoredWords ==
  ASSUME NEW bytes \in 1..(SizeW - 1)
  PROVE  /\ Stored(bytes) \in Seq(Int) /\ Len(Stored(bytes)) <= Ints(bytes) - 2
         /\ Len(Stored(bytes)) \in Nat
<1>1. CASE Wrapped(bytes)
  <2>1. Stored(bytes) = <<>>
    BY <1>1 DEF Stored
  <2> QED BY <2>1, Amounts
<1>2. CASE ~Wrapped(bytes)
  <2>1. Stored(bytes) = [k \in 1..InWords(bytes) |-> Value] /\ Value \in Int
    BY <1>2, HeapAssumption DEF Stored
  <2>2. InWords(bytes) \in Nat /\ InWords(bytes) <= Ints(bytes) - 2
    BY <1>2, Amounts
  <2> QED BY <2>1, <2>2
<1> QED BY <1>1, <1>2

(* A piece stays what it is where the words of its block do.               *)
LEMMA PieceStays ==
  ASSUME NEW h \in HeapType, NEW S, Tiles(h, S), NEW p, NEW piece, PieceIn(h, S, p, piece),
         NEW g, NEW T, p - 1 \in T,
         \A k \in (p - 1)..(p - 1 + size(h, p - 1) - 1) : g.array[k] = h.array[k]
  PROVE  PieceIn(g, T, p, piece) /\ size(g, p - 1) = size(h, p - 1)
<1> DEFINE b == p - 1
           n == size(h, b)
<1>1. p \in Int /\ b \in Int /\ n \in Int /\ n >= 4 /\ p = b + 1
  BY BlockWords DEF PieceIn
<1> DEFINE len == Len(piece.value)
<1>2. len \in Nat /\ len <= n - 2 /\ \A k \in 1..len : h.array[p + k - 1] = piece.value[k]
  BY DEF PieceIn
<1>3. \A k \in b..(b + n - 1) : g.array[k] = h.array[k]
  OBVIOUS
<1> HIDE DEF b, n, len
<1>4. g.array[b] = h.array[b]
  BY <1>1, <1>3
<1>5. size(g, b) = size(h, b) /\ (isTaken(g, b) <=> isTaken(h, b))
  BY <1>4 DEF size, isTaken
<1>6. \A k \in 1..len : g.array[p + k - 1] = piece.value[k]
  <2> SUFFICES ASSUME NEW k \in 1..len PROVE g.array[p + k - 1] = piece.value[k]
    OBVIOUS
  <2>1. p + k - 1 \in b..(b + n - 1)
    BY <1>1, <1>2
  <2> QED BY <1>2, <1>3, <2>1
<1> QED BY <1>5, <1>6 DEF PieceIn, b, len

(* What is in the array after an owner has filled his block, or after a    *)
(* copy.                                                                   *)
LEMMA FilledWords ==
  ASSUME NEW h \in HeapType, NEW p \in Int, NEW data \in Seq(Int)
  PROVE  LET g == Filled(h, p, data) IN
         /\ g \in HeapType /\ g.avail = h.avail
         /\ \A i \in Index : g.array[i] = IF i - p + 1 \in 1..Len(data) THEN data[i - p + 1] ELSE h.array[i]
<1> DEFINE a == [i \in Index |-> IF i - p + 1 \in DOMAIN data THEN data[i - p + 1] ELSE h.array[i]]
           g == [h EXCEPT !.array = a]
<1>1. g = Filled(h, p, data)
  BY DEF Filled
<1>2. DOMAIN data = 1..Len(data) /\ \A k \in 1..Len(data) : data[k] \in Int
  OBVIOUS
<1>3. h.array \in [Index -> Int] /\ h.avail \in Index
  BY DEF HeapType
<1>4. a \in [Index -> Int]
  BY <1>2, <1>3
<1>5. \A i \in Index : a[i] = IF i - p + 1 \in 1..Len(data) THEN data[i - p + 1] ELSE h.array[i]
  BY <1>2
<1> HIDE DEF a
<1>6. g \in HeapType /\ g.avail = h.avail /\ g.array = a
  BY <1>3, <1>4 DEF HeapType
<1> HIDE DEF g
<1> QED BY <1>1, <1>5, <1>6

CopyOf(h, g, from, to, n) ==
  \A i \in Index : g.array[i] = IF i \in to..(to + n - 1) THEN h.array[from + i - to] ELSE h.array[i]

(* What realloc() has copied.                                              *)
LEMMA CopiedWords ==
  ASSUME NEW h \in HeapType, NEW from \in Int, NEW to \in Int, NEW n \in Nat,
         from..(from + n - 1) \subseteq Index
  PROVE  /\ Copied(h, from, to, n) \in HeapType /\ Copied(h, from, to, n).avail = h.avail
         /\ CopyOf(h, Copied(h, from, to, n), from, to, n)
<1> DEFINE a == [i \in Index |-> IF i \in to..(to + n - 1) THEN h.array[from + i - to] ELSE h.array[i]]
           g == [h EXCEPT !.array = a]
<1>1. g = Copied(h, from, to, n)
  BY DEF Copied
<1>2. h.array \in [Index -> Int] /\ h.avail \in Index
  BY DEF HeapType
<1>3. ASSUME NEW i \in Index, i \in to..(to + n - 1)
      PROVE  h.array[from + i - to] \in Int
  <2>1. from + i - to \in from..(from + n - 1)
    BY <1>3, Sizes
  <2>2. from + i - to \in Index
    BY <2>1
  <2> QED BY <1>2, <2>2
<1>4. a \in [Index -> Int]
  BY <1>2, <1>3
<1>5. \A i \in Index : a[i] = IF i \in to..(to + n - 1) THEN h.array[from + i - to] ELSE h.array[i]
  OBVIOUS
<1> HIDE DEF a
<1>6. g \in HeapType /\ g.avail = h.avail /\ g.array = a
  BY <1>2, <1>4 DEF HeapType
<1> HIDE DEF g
<1>7. CopyOf(h, g, from, to, n)
  BY <1>5, <1>6 DEF CopyOf
<1> QED BY <1>1, <1>6, <1>7

(* Pieces are where they were when blocks that are taken stay what they    *)
(* are.                                                                    *)
LEMMA OwnedStays ==
  ASSUME NEW h \in HeapType, NEW S, Tiles(h, S), NEW hd, Owned(h, S, hd),
         NEW g, NEW T, NEW D \in SUBSET (DOMAIN hd),
         \A j \in S : (j + 1 \in D /\ isTaken(h, j)) =>
           j \in T /\ \A k \in j..(j + size(h, j) - 1) : g.array[k] = h.array[k]
  PROVE  \A p \in D : PieceIn(g, T, p, hd[p])
<1> SUFFICES ASSUME NEW p \in D PROVE PieceIn(g, T, p, hd[p])
  OBVIOUS
<1>1. PieceIn(h, S, p, hd[p]) /\ p \in Int /\ p - 1 \in S /\ isTaken(h, p - 1)
  BY DEF Owned, PieceIn
<1>2. p - 1 + 1 = p
  BY <1>1
<1>3. /\ p - 1 \in T
      /\ \A k \in (p - 1)..(p - 1 + size(h, p - 1) - 1) : g.array[k] = h.array[k]
  BY <1>1, <1>2
<1> QED BY <1>1, <1>3, PieceStays

(* malloc() finds a block, and the owner fills it.                         *)
LEMMA Allocated ==
  ASSUME NEW h, NEW S, NEW stamp, Good(h, S, stamp), NEW hd, Owned(h, S, hd),
         NEW bytes \in 1..(SizeW - 1), NEW it \in FreeOf(h, S), Ints(bytes) <= size(h, it)
  PROVE  \E T, stamps :
           /\ Good(Filled(Take(h, it, Ints(bytes)), it + 1, Stored(bytes)), T, stamps)
           /\ Owned(Filled(Take(h, it, Ints(bytes)), it + 1, Stored(bytes)), T,
                    Holding(hd, it + 1, NewPiece(bytes, Stored(bytes))))
<1> DEFINE ints == Ints(bytes)
           data == Stored(bytes)
           w == Take(h, it, ints)
           g == Filled(w, it + 1, data)
           piece == NewPiece(bytes, data)
<1>1. h \in HeapType /\ Tiles(h, S) /\ it \in S /\ isAvail(h, it)
  BY DEF Good, FreeOf
<1>2. /\ ints \in Int /\ ints \in Nat /\ 4 <= ints
      /\ data \in Seq(Int) /\ Len(data) <= ints - 2 /\ Len(data) \in Nat
      /\ UsedWords(bytes) <= ints - 2 /\ UsedWords(bytes) \in Nat
  BY Amounts, StoredWords
<1> HIDE DEF ints, data
<1>3. PICK T, stamps : /\ Good(w, T, stamps) /\ S \subseteq T
                       /\ isTaken(w, it) /\ size(w, it) >= ints
                       /\ TakenSame(h, w, S, {})
  <2>1. ints <= size(h, it)
    BY DEF ints
  <2> QED BY <1>2, <2>1, Taken
<1> HIDE DEF w
<1>4. w \in HeapType /\ Tiles(w, T) /\ it \in T
  BY <1>1, <1>3 DEF Good
<1>5. /\ it \in Int /\ size(w, it) \in Int /\ it \in Index /\ it + size(w, it) - 1 \in Index
  BY <1>4, BlockWords
<1> DEFINE n == size(w, it)
<1> HIDE DEF n
<1>6. /\ g \in HeapType /\ g.avail = w.avail
      /\ \A i \in Index : g.array[i] = IF i - (it + 1) + 1 \in 1..Len(data)
                                       THEN data[i - (it + 1) + 1] ELSE w.array[i]
  <2>1. it + 1 \in Int
    BY <1>5
  <2> QED BY <1>2, <1>4, <2>1, FilledWords
<1> HIDE DEF g
<1>7. \A k \in Index : (it < k /\ k < it + size(w, it) - 1) \/ g.array[k] = w.array[k]
  <2> SUFFICES ASSUME NEW k \in Index, k - (it + 1) + 1 \in 1..Len(data)
               PROVE  it < k /\ k < it + n - 1
    BY <1>6 DEF n
  <2>1. n \in Int /\ n >= ints
    BY <1>3, <1>5 DEF n
  <2> QED BY <1>2, <1>5, <2>1, Sizes
<1>8. /\ Good(g, T, stamps)
      /\ \A j \in T : size(g, j) = size(w, j) /\ (isTaken(g, j) <=> isTaken(w, j))
      /\ \A j \in T \ {it} : \A k \in j..(j + size(w, j) - 1) : g.array[k] = w.array[k]
  BY <1>3, <1>4, <1>6, <1>7, StoresWithin
<1>9. \A p \in DOMAIN hd : PieceIn(w, T, p, hd[p])
  <2>1. \A j \in S : (j + 1 \in DOMAIN hd /\ isTaken(h, j)) =>
           j \in T /\ \A k \in j..(j + size(h, j) - 1) : w.array[k] = h.array[k]
    BY <1>3 DEF TakenSame
  <2> QED BY <1>1, <2>1, OwnedStays
<1>10. \A p \in DOMAIN hd : p - 1 # it
  <2>1. \A p \in DOMAIN hd : isTaken(h, p - 1)
    BY DEF Owned, PieceIn
  <2>2. ~isTaken(h, it)
    BY <1>1, BlockWords DEF isTaken, isAvail
  <2> QED BY <2>1, <2>2
<1>11. \A p \in DOMAIN hd : PieceIn(g, T, p, hd[p])
  <2> SUFFICES ASSUME NEW p \in DOMAIN hd PROVE PieceIn(g, T, p, hd[p])
    OBVIOUS
  <2>1. PieceIn(w, T, p, hd[p]) /\ p - 1 \in T
    BY <1>9 DEF PieceIn
  <2>2. \A k \in (p - 1)..(p - 1 + size(w, p - 1) - 1) : g.array[k] = w.array[k]
    BY <1>8, <1>10, <2>1
  <2> QED BY <1>4, <2>1, <2>2, PieceStays
<1>12. PieceIn(g, T, it + 1, piece)
  <2>1. isTaken(g, it) /\ size(g, it) = n /\ n \in Int /\ n >= ints
    BY <1>3, <1>4, <1>5, <1>8 DEF n
  <2>2. piece.bytes = bytes /\ piece.value = data
    BY DEF NewPiece
  <2>3. ASSUME NEW k \in 1..Len(data) PROVE g.array[it + k] = data[k]
    <3> DEFINE x == it + k
    <3>1. x \in Index
      <4>1. it + n - 1 \in Index
        BY <1>5 DEF n
      <4> QED BY <1>2, <1>5, <2>1, <4>1, Sizes
    <3>2. x - (it + 1) + 1 = k
      BY <1>2, <1>5
    <3> HIDE DEF x
    <3>3. g.array[x] = data[k]
      <4>1. g.array[x] = IF x - (it + 1) + 1 \in 1..Len(data) THEN data[x - (it + 1) + 1] ELSE w.array[x]
        BY <1>6, <3>1
      <4> QED BY <3>2, <4>1
    <3> QED BY <3>3 DEF x
  <2>4. UsedWords(bytes) <= n - 2 /\ Len(data) <= n - 2
    BY <1>2, <2>1
  <2> DEFINE p == it + 1
  <2>5. p \in Int /\ p - 1 = it
    BY <1>5
  <2> HIDE DEF piece, p
  <2>6. p \in Int /\ p - 1 \in T /\ isTaken(g, p - 1) /\ size(g, p - 1) = n
    BY <1>4, <2>1, <2>5
  <2>7. ASSUME NEW k \in 1..Len(data) PROVE g.array[p + k - 1] = data[k]
    <3>1. p + k - 1 = it + k
      BY <1>2, <1>5 DEF p
    <3> QED BY <2>3, <3>1
  <2>8. PieceIn(g, T, p, piece)
    BY <1>2, <2>2, <2>4, <2>6, <2>7 DEF PieceIn
  <2> QED BY <2>8 DEF p
<1>13. Owned(g, T, Holding(hd, it + 1, piece))
  BY <1>11, <1>12 DEF Owned, Holding
<1> QED BY <1>8, <1>13 DEF g, w, data, ints

(* free() leaves the other pieces alone.                                   *)
LEMMA Released ==
  ASSUME NEW h, NEW S, NEW stamp, Good(h, S, stamp), NEW hd, Owned(h, S, hd), NEW p \in DOMAIN hd
  PROVE  /\ isTaken(h, Block(p))
         /\ \E T, stamps : /\ Good(Give(h, Block(p)), T, stamps)
                           /\ Owned(Give(h, Block(p)), T, Dropping(hd, p))
<1> DEFINE i == Block(p)
           g == Give(h, i)
<1>1. h \in HeapType /\ Tiles(h, S)
  BY DEF Good
<1>2. i \in S /\ isTaken(h, i) /\ p \in Int /\ i = p - 1
  BY DEF Owned, PieceIn, Block
<1> HIDE DEF i
<1>3. PICK T, stamps :
           /\ Good(g, T, stamps)
           /\ \A j \in S \ {i} : isTaken(h, j) =>
                j \in T /\ \A k \in j..(j + size(h, j) - 1) : g.array[k] = h.array[k]
  BY <1>2, Given
<1> HIDE DEF g
<1>4. \A q \in DOMAIN hd \ {p} : PieceIn(g, T, q, hd[q])
  <2>1. ASSUME NEW j \in S, j + 1 \in DOMAIN hd \ {p}, isTaken(h, j)
        PROVE  j \in T /\ \A k \in j..(j + size(h, j) - 1) : g.array[k] = h.array[k]
    <3>1. j # i
      BY <1>2, <2>1
    <3> QED BY <1>3, <2>1, <3>1
  <2> QED BY <1>1, <2>1, OwnedStays
<1>5. Owned(g, T, Dropping(hd, p))
  BY <1>4 DEF Owned, Dropping
<1> QED BY <1>2, <1>3, <1>5 DEF g, i

(* The first elements of a sequence.                                       *)
LEMMA UpToIs ==
  ASSUME NEW s \in Seq(Int), NEW n \in Nat
  PROVE  /\ UpTo(s, n) \in Seq(Int) /\ Len(UpTo(s, n)) \in Nat
         /\ Len(UpTo(s, n)) = IF n < Len(s) THEN n ELSE Len(s)
         /\ \A k \in 1..Len(UpTo(s, n)) : UpTo(s, n)[k] = s[k]
<1>1. CASE n < Len(s)
  <2>1. UpTo(s, n) = SubSeq(s, 1, n)
    BY <1>1 DEF UpTo
  <2>2. /\ SubSeq(s, 1, n) \in Seq(Int) /\ Len(SubSeq(s, 1, n)) = n
        /\ \A k \in 1..n : SubSeq(s, 1, n)[k] = s[k]
    BY <1>1
  <2> QED BY <1>1, <2>1, <2>2
<1>2. CASE ~(n < Len(s))
  <2>1. UpTo(s, n) = s
    BY <1>2 DEF UpTo
  <2> QED BY <1>2, <2>1
<1> QED BY <1>1, <1>2

(* How much realloc() copies: no more than both blocks have, and what the  *)
(* owner has stored.                                                       *)
LEMMA KeptWords ==
  ASSUME NEW bytes \in 1..(SizeW - 1), NEW m \in Nat, m >= 4, NEW len \in Nat, len <= m - 2
  PROVE  LET kept == IF bytes > m * 4 THEN m * 4 ELSE bytes
             n == InWords(kept) IN
         /\ n \in Nat /\ n <= m /\ n <= InWords(bytes)
         /\ (IF InWords(bytes) < len THEN InWords(bytes) ELSE len) <= n
<1>1. bytes \in Nat
  BY Sizes
<1>2. CASE bytes > m * 4
  <2>1. (m * 4 + 3) \div 4 = m /\ m <= (bytes + 3) \div 4
    BY <1>1, <1>2
  <2> QED BY <1>1, <1>2, <2>1 DEF InWords
<1>3. CASE ~(bytes > m * 4)
  <2>1. (bytes + 3) \div 4 <= m
    BY <1>1, <1>3
  <2> QED BY <1>1, <1>3, <2>1 DEF InWords
<1> QED BY <1>2, <1>3

(* realloc() takes another block, copies and gives the old one back.       *)
LEMMA Exchanged ==
  ASSUME NEW h, NEW S, NEW stamp, Good(h, S, stamp), NEW hd, Owned(h, S, hd), NEW p \in DOMAIN hd,
         NEW bytes \in 1..(SizeW - 1), ~Wrapped(bytes),
         NEW it \in FreeOf(h, S), Ints(bytes) <= size(h, it)
  PROVE  LET sz == size(h, Block(p)) * 4
             kept == IF bytes > sz THEN sz ELSE bytes
             c == Copied(Take(h, it, Ints(bytes)), p, it + 1, InWords(kept))
             piece == NewPiece(bytes, UpTo(hd[p].value, InWords(bytes))) IN
         \E T, stamps : /\ Good(Give(c, Block(p)), T, stamps)
                        /\ Owned(Give(c, Block(p)), T, Holding(Dropping(hd, p), it + 1, piece))
<1> DEFINE b == p - 1
           m == size(h, b)
           ints == Ints(bytes)
           sz == m * 4
           kept == IF bytes > sz THEN sz ELSE bytes
           n == InWords(kept)
           w == Take(h, it, ints)
           c == Copied(w, p, it + 1, n)
           old == hd[p].value
           data == UpTo(old, InWords(bytes))
           piece == NewPiece(bytes, data)
<1>1. h \in HeapType /\ Tiles(h, S) /\ it \in S /\ isAvail(h, it)
  BY DEF Good, FreeOf
<1>2. PieceIn(h, S, p, hd[p])
  BY DEF Owned
<1>3. /\ p \in Int /\ b \in S /\ isTaken(h, b) /\ old \in Seq(Int) /\ Len(old) <= m - 2 /\ Len(old) \in Nat
      /\ p = b + 1
  BY <1>2 DEF PieceIn
<1>4. m \in Nat /\ m >= 4 /\ b \in Int /\ b >= 2 /\ b + m <= End
  BY <1>1, <1>3, BlockWords
<1>5. /\ ints \in Int /\ ints \in Nat /\ 4 <= ints /\ InWords(bytes) \in Nat
      /\ InWords(bytes) <= ints - 2 /\ UsedWords(bytes) <= ints - 2 /\ UsedWords(bytes) \in Nat
  BY Amounts
<1> HIDE DEF ints
<1>6. n \in Nat /\ n <= m /\ n <= InWords(bytes) /\ (IF InWords(bytes) < Len(old) THEN InWords(bytes) ELSE Len(old)) <= n
  <2> HIDE DEF m, old
  <2> QED BY <1>3, <1>4, KeptWords
<1> HIDE DEF n, m, b
<1>7. /\ data \in Seq(Int) /\ Len(data) \in Nat /\ Len(data) <= n
      /\ \A k \in 1..Len(data) : data[k] = old[k]
      /\ Len(data) <= Len(old)
  <2> HIDE DEF old
  <2> QED BY <1>3, <1>5, <1>6, UpToIs
<1> HIDE DEF data
<1>8. PICK T, stamps : /\ Good(w, T, stamps) /\ S \subseteq T
                       /\ isTaken(w, it) /\ size(w, it) >= ints
                       /\ TakenSame(h, w, S, {})
  <2>1. ints <= size(h, it)
    BY DEF ints
  <2> QED BY <1>5, <2>1, Taken
<1> HIDE DEF w
<1>9. w \in HeapType /\ Tiles(w, T) /\ it \in T
  BY <1>1, <1>8 DEF Good
<1>10. /\ it \in Int /\ size(w, it) \in Int /\ it \in Index /\ it + size(w, it) - 1 \in Index
  BY <1>9, BlockWords
<1> DEFINE e == size(w, it)
<1> HIDE DEF e
<1>11. /\ c \in HeapType /\ c.avail = w.avail
       /\ \A i \in Index : c.array[i] = IF i \in (it + 1)..(it + 1 + n - 1)
                                        THEN w.array[p + i - (it + 1)] ELSE w.array[i]
  <2>1. p..(p + n - 1) \subseteq Index
    BY <1>3, <1>4, <1>6, Sizes
  <2>2. it + 1 \in Int
    BY <1>10
  <2>3. c \in HeapType /\ c.avail = w.avail /\ CopyOf(w, c, p, it + 1, n)
    <3> DEFINE to == it + 1
    <3>1. to \in Int /\ p \in Int /\ n \in Nat /\ w \in HeapType
      BY <1>3, <1>6, <1>9, <2>2
    <3> HIDE DEF to
    <3>2. LET t == Copied(w, p, to, n) IN t \in HeapType /\ t.avail = w.avail /\ CopyOf(w, t, p, to, n)
      BY <2>1, <3>1, CopiedWords
    <3> QED BY <3>2 DEF to
  <2> QED BY <2>3 DEF CopyOf
<1> HIDE DEF c
<1>12. e \in Int /\ e >= ints /\ n <= e - 2 /\ it + e - 1 \in Index
  <2>1. e \in Int /\ e >= ints /\ it + e - 1 \in Index
    BY <1>8, <1>10 DEF e
  <2> QED BY <1>5, <1>6, <2>1
<1>13. \A k \in Index : (it < k /\ k < it + size(w, it) - 1) \/ c.array[k] = w.array[k]
  <2> SUFFICES ASSUME NEW k \in Index, k \in (it + 1)..(it + 1 + n - 1)
               PROVE  it < k /\ k < it + e - 1
    BY <1>11 DEF e
  <2> QED BY <1>6, <1>10, <1>12
<1>14. /\ Good(c, T, stamps)
       /\ \A j \in T : size(c, j) = size(w, j) /\ (isTaken(c, j) <=> isTaken(w, j))
       /\ \A j \in T \ {it} : \A k \in j..(j + size(w, j) - 1) : c.array[k] = w.array[k]
  BY <1>8, <1>9, <1>11, <1>13, StoresWithin
<1>15. \A q \in DOMAIN hd : PieceIn(w, T, q, hd[q])
  <2>1. \A j \in S : (j + 1 \in DOMAIN hd /\ isTaken(h, j)) =>
           j \in T /\ \A k \in j..(j + size(h, j) - 1) : w.array[k] = h.array[k]
    BY <1>8 DEF TakenSame
  <2> QED BY <1>1, <2>1, OwnedStays
<1>16. \A q \in DOMAIN hd : q - 1 # it
  <2>1. \A q \in DOMAIN hd : isTaken(h, q - 1)
    BY DEF Owned, PieceIn
  <2>2. ~isTaken(h, it)
    BY <1>1, BlockWords DEF isTaken, isAvail
  <2> QED BY <2>1, <2>2
<1>17. \A q \in DOMAIN hd : PieceIn(c, T, q, hd[q])
  <2> SUFFICES ASSUME NEW q \in DOMAIN hd PROVE PieceIn(c, T, q, hd[q])
    OBVIOUS
  <2>1. PieceIn(w, T, q, hd[q]) /\ q - 1 \in T
    BY <1>15 DEF PieceIn
  <2>2. \A k \in (q - 1)..(q - 1 + size(w, q - 1) - 1) : c.array[k] = w.array[k]
    BY <1>14, <1>16, <2>1
  <2> QED BY <1>9, <2>1, <2>2, PieceStays
<1>18. PieceIn(c, T, it + 1, piece)
  <2> DEFINE a == it + 1
  <2>1. a \in Int /\ a - 1 = it
    BY <1>10
  <2>2. isTaken(c, it) /\ size(c, it) = e
    BY <1>8, <1>9, <1>14 DEF e
  <2>3. piece.bytes = bytes /\ piece.value = data
    BY DEF NewPiece
  <2>4. ASSUME NEW k \in 1..Len(data) PROVE c.array[a + k - 1] = data[k]
    <3> DEFINE x == it + k
    <3>1. x \in Index /\ x \in (it + 1)..(it + 1 + n - 1)
      <4>1. k \in Int /\ 1 <= k /\ k <= n /\ n \in Nat
        BY <1>6, <1>7
      <4>2. it \in Index /\ it + e - 1 \in Index /\ e \in Int /\ n <= e - 2
        BY <1>10, <1>12
      <4> QED BY <4>1, <4>2, Sizes
    <3>2. p + x - (it + 1) = p + k - 1 /\ a + k - 1 = x
      BY <1>3, <1>7, <1>10
    <3> HIDE DEF x
    <3>3. c.array[x] = w.array[p + x - (it + 1)]
      BY <1>11, <3>1
    <3>4. k \in 1..Len(old) /\ \A j \in 1..Len(old) : w.array[p + j - 1] = old[j]
      <4>1. \A j \in 1..Len(old) : w.array[p + j - 1] = old[j]
        BY <1>15 DEF PieceIn
      <4> QED BY <1>3, <1>7, <4>1
    <3>5. w.array[p + k - 1] = old[k]
      BY <3>4
    <3> QED BY <1>7, <3>2, <3>3, <3>5
  <2>5. UsedWords(bytes) <= e - 2 /\ Len(data) <= e - 2
    BY <1>5, <1>6, <1>7, <1>12
  <2> HIDE DEF piece, a
  <2>6. a - 1 \in T /\ isTaken(c, a - 1) /\ size(c, a - 1) = e
    BY <1>9, <2>1, <2>2
  <2>7. PieceIn(c, T, a, piece)
    BY <1>7, <2>1, <2>3, <2>4, <2>5, <2>6 DEF PieceIn
  <2> QED BY <2>7 DEF a
<1> DEFINE both == Holding(hd, it + 1, piece)
           g == Give(c, Block(p))
<1>19. Owned(c, T, both) /\ p \in DOMAIN both
  BY <1>17, <1>18 DEF Owned, Holding
<1>20. PICK U, ranks : Good(g, U, ranks) /\ Owned(g, U, Dropping(both, p))
  <2> HIDE DEF both
  <2> QED BY <1>14, <1>19, Released
<1>21. Dropping(both, p) = Holding(Dropping(hd, p), it + 1, piece)
  <2>1. p # it + 1
    BY <1>3, <1>10, <1>16
  <2> HIDE DEF piece
  <2> QED BY <2>1 DEF Dropping, Holding
<1> HIDE DEF both, g
<1>22. \E V, r : Good(g, V, r) /\ Owned(g, V, Holding(Dropping(hd, p), it + 1, piece))
  BY <1>20, <1>21
<1> QED BY <1>22 DEF g, c, w, ints, n, m, b, data, Block

-----------------------------------------------------------------------------
(* The first state.                                                        *)

(* heapInit() makes one free block between the two at the ends.            *)
LEMMA EmptyIsGood ==
  /\ \E stamps : Good(Empty, {2}, stamps)
  /\ isAvail(Empty, 2) /\ size(Empty, 2) = Len4 - 4
<1> DEFINE zeros == [array |-> [i \in Index |-> 0], avail |-> 0]
           a == Tag(zeros, 0, 2, -2)
           n == Len4 - 4
           b == makeAvail(a, 2, n)
           g == Tag(b, End, 2, -2)
           zero == [i \in Index |-> 0]
<1>1. g = Empty
  BY DEF Empty, makeTaken, End
<1>2. /\ 0 \in Index /\ 1 \in Index /\ 2 \in Index /\ End \in Index /\ End + 1 \in Index
      /\ n \in Nat /\ n >= 4 /\ 2 + n = End /\ 2 \in 2..(Len4 - 6) /\ -2 \in Int
      /\ End \in Nat /\ End >= 6
  BY Sizes DEF End
<1>3. zeros \in HeapType /\ zeros.avail = 0
  <2>1. [i \in Index |-> 0] \in [Index -> Int]
    OBVIOUS
  <2> QED BY <1>2, <2>1 DEF HeapType
<1> HIDE DEF zeros
<1>4. /\ a \in HeapType /\ a.avail = 0
      /\ \A k \in Index : a.array[k] = IF k = 0 \/ k = 0 + 2 - 1 THEN -2 ELSE zeros.array[k]
  <2> DEFINE i == 0
  <2>1. i \in Index /\ i + 2 - 1 \in Index /\ 2 \in Int
    BY <1>2
  <2> HIDE DEF i
  <2>2. LET t == Tag(zeros, i, 2, -2) IN t \in HeapType /\ t.avail = zeros.avail /\ TagOn(zeros, t, i, 2, -2)
    BY <1>2, <1>3, <2>1, Tagged
  <2>3. a \in HeapType /\ a.avail = zeros.avail /\ TagOn(zeros, a, 0, 2, -2)
    BY <2>2 DEF i
  <2> HIDE DEF a
  <2> QED BY <1>3, <2>3 DEF TagOn
<1> HIDE DEF a
<1>5. Linked(a, {}, zero)
  <2>1. zero \in [Index -> Nat]
    OBVIOUS
  <2> QED BY <1>4, <2>1 DEF Linked
<1> HIDE DEF zero, n
<1>6. Fits({}, 2, n)
  BY <1>2 DEF Fits
<1>7. PICK stamps : Linked(b, {} \cup {2}, stamps)
  BY <1>4, <1>5, <1>6, MakeAvailLinks
<1>8. /\ b \in HeapType
      /\ \A k \in Index : b.array[k] =
           IF k = 2 \/ k = 2 + n - 1 THEN n ELSE IF k = 2 + 1 THEN a.avail
           ELSE IF k = 2 + 2 THEN 0
           ELSE IF a.avail # 0 /\ k = a.avail + 2 THEN 2 ELSE a.array[k]
  BY <1>4, <1>5, <1>6, MadeAvail
<1> HIDE DEF b
<1>9. /\ g \in HeapType /\ g.avail = b.avail
      /\ \A k \in Index : g.array[k] = IF k = End \/ k = End + 2 - 1 THEN -2 ELSE b.array[k]
  <2>1. End + 2 - 1 \in Index /\ 2 \in Int
    BY <1>2
  <2>2. b \in HeapType /\ End \in Index /\ -2 \in Int
    BY <1>2, <1>8
  <2>3. g \in HeapType /\ g.avail = b.avail /\ TagOn(b, g, End, 2, -2)
    <3> DEFINE e == End
               w == 2
               m == -2
    <3>1. e \in Index /\ w \in Int /\ m \in Int /\ e + w - 1 \in Index
      BY <2>1, <2>2
    <3> HIDE DEF e, w, m
    <3>2. LET t == Tag(b, e, w, m) IN t \in HeapType /\ t.avail = b.avail /\ TagOn(b, t, e, w, m)
      BY <2>2, <3>1, Tagged
    <3> QED BY <3>2 DEF e, w, m
  <2> HIDE DEF g
  <2> QED BY <2>3 DEF TagOn
<1> HIDE DEF g
<1>10. g.array[0] = -2 /\ g.array[1] = -2 /\ g.array[End] = -2 /\ g.array[End + 1] = -2
  <2>1. a.array[0] = -2 /\ a.array[1] = -2
    BY <1>2, <1>4
  <2>2. b.array[0] = -2 /\ b.array[1] = -2
    BY <1>2, <1>4, <1>8, <2>1
  <2>3. g.array[0] = -2 /\ g.array[1] = -2
    BY <1>2, <1>9, <2>2
  <2>4. g.array[End] = -2 /\ g.array[End + 1] = -2
    BY <1>2, <1>9
  <2> QED BY <2>3, <2>4
<1>11. g.array[2] = n /\ g.array[End - 1] = n
  <2>1. End - 1 \in Index /\ End - 1 = 2 + n - 1
    BY <1>2, Sizes DEF Index
  <2>2. b.array[2] = n /\ b.array[End - 1] = n
    BY <1>2, <1>8, <2>1
  <2> QED BY <1>2, <1>9, <2>1, <2>2
<1>12. size(g, 2) = n /\ right(g, 2) = End /\ footerFromHeader(g, 2) = End - 1 /\ isAvail(g, 2)
  BY <1>2, <1>11 DEF size, right, footerFromHeader, isAvail
<1>13. Tiles(g, {2})
  <2>1. \A i, j \in {2} : ~(i < j)
    OBVIOUS
  <2> QED BY <1>2, <1>10, <1>11, <1>12, <2>1 DEF Tiles
<1>14. Linked(g, {2}, stamps)
  <2>1. ASSUME NEW k \in Index, IsLink({2}, k) PROVE g.array[k] = b.array[k]
    <3>1. k = 3 \/ k = 4
      BY <2>1 DEF IsLink
    <3> QED BY <1>2, <1>9, <3>1
  <2>2. {} \cup {2} = {2}
    OBVIOUS
  <2> QED BY <1>7, <1>9, <2>1, <2>2, StaysLinked
<1>15. FreeOf(g, {2}) = {2}
  BY <1>12 DEF FreeOf
<1>16. Separate(g, {2})
  BY <1>10, <1>12 DEF Separate, isAvail
<1>17. Good(g, {2}, stamps)
  BY <1>9, <1>13, <1>14, <1>15, <1>16 DEF Good
<1> QED BY <1>1, <1>12, <1>17 DEF n

(* The lock of the kernel has room.                                        *)
LEMMA LockHasRoom == Ints(LockBytes) \in Nat /\ 4 <= Ints(LockBytes) /\ Ints(LockBytes) <= Len4 - 4
<1> DEFINE L == LockBytes + 3
           q == L \div 4 + 2
<1>1. /\ LockBytes \in Nat /\ LockBytes >= 1 /\ LockBytes <= 4 * Len4 - 24
      /\ Len4 \in Nat /\ Len4 >= 8 /\ SizeW \in Nat /\ SizeW >= 4 * Len4
  BY HeapAssumption
<1>2. L \in Nat /\ L <= 4 * Len4 - 21 /\ L < SizeW
  BY <1>1
<1>3. (LockBytes + 3) % SizeW = L
  BY <1>1, <1>2
<1>4. Ints(LockBytes) = IF q < 4 THEN 4 ELSE q
  BY <1>3 DEF Ints
<1>5. q \in Nat /\ q <= Len4 - 4
  <2> HIDE DEF L
  <2> QED BY <1>1, <1>2
<1> HIDE DEF q
<1> QED BY <1>1, <1>4, <1>5

-----------------------------------------------------------------------------
(* What holds always: for some set of blocks and some stamps the heap is   *)
(* sound, and what owners have got and stored is in its blocks.            *)
HeapIInv ==
  /\ heapPanic = FALSE
  /\ \E S, stamp : Good(heap, S, stamp) /\ Owned(heap, S, held)

(* heapInit(), and in the kernel the allocation of theLock, build it.      *)
LEMMA HeapStarts == HeapInit => HeapIInv
<1> SUFFICES ASSUME HeapInit PROVE HeapIInv
  OBVIOUS
<1>1. heapPanic = FALSE /\ \A S : Owned(heap, S, held)
  BY DEF HeapInit, Owned
<1>2. PICK stamps : Good(Empty, {2}, stamps)
  BY EmptyIsGood
<1>3. \E S, stamp : Good(heap, S, stamp)
  <2>1. CASE kind = "kernel"
    <3>1. heap = Take(Empty, 2, Ints(LockBytes))
      BY <2>1 DEF HeapInit
    <3>2. 2 \in FreeOf(Empty, {2}) /\ Ints(LockBytes) <= size(Empty, 2)
      BY EmptyIsGood, LockHasRoom DEF FreeOf
    <3>3. Ints(LockBytes) \in Int /\ 4 <= Ints(LockBytes)
      BY LockHasRoom
    <3>4. \E T, stamp : Good(Take(Empty, 2, Ints(LockBytes)), T, stamp)
      BY <1>2, <3>2, <3>3, Taken
    <3> QED BY <3>1, <3>4
  <2>2. CASE kind # "kernel"
    <3>1. heap = Empty
      BY <2>2 DEF HeapInit
    <3> QED BY <1>2, <3>1
  <2> QED BY <2>1, <2>2
<1> QED BY <1>1, <1>3 DEF HeapIInv

(* What a call finds when it looks for a block.                            *)
LEMMA CallFinds ==
  ASSUME NEW S, NEW stamp, Good(heap, S, stamp), NEW bytes \in Asks
  PROVE  /\ bytes \in 1..(SizeW - 1) /\ Ints(bytes) \in Nat
         /\ \/ Search(heap, Ints(bytes)) \in FreeOf(heap, S) /\ Ints(bytes) <= size(heap, Search(heap, Ints(bytes)))
            \/ Search(heap, Ints(bytes)) = 0 /\ \A i \in S : isAvail(heap, i) => size(heap, i) < Ints(bytes)
         /\ 0 \notin FreeOf(heap, S)
         /\ ~BadList(Ints(bytes))
<1>1. bytes \in 1..(SizeW - 1)
  BY HeapAssumption
<1>2. Ints(bytes) \in Nat
  BY <1>1, Amounts
<1> DEFINE ints == Ints(bytes)
<1> HIDE DEF ints
<1>3. /\ \/ Search(heap, ints) \in FreeOf(heap, S) /\ size(heap, Search(heap, ints)) >= ints
         \/ Search(heap, ints) = 0 /\ \A i \in S : isAvail(heap, i) => size(heap, i) < ints
      /\ \A k \in Seen(heap, List(heap), ints) : isAvail(heap, List(heap)[k])
  BY <1>2, Searched DEF ints
<1>4. 0 \notin FreeOf(heap, S)
  BY Sizes DEF Good, Linked
<1>5. ~BadList(ints)
  BY <1>3 DEF BadList
<1>6. size(heap, Search(heap, ints)) >= ints => ints <= size(heap, Search(heap, ints))
  OBVIOUS
<1> QED BY <1>1, <1>2, <1>3, <1>4, <1>5, <1>6 DEF ints

(* malloc() keeps it,                                                      *)
LEMMA MallocKeeps ==
  ASSUME HeapIInv, NEW b \in Asks, malloc(b)
  PROVE  HeapIInv'
<1>1. PICK S, stamp : Good(heap, S, stamp) /\ Owned(heap, S, held)
  BY DEF HeapIInv
<1> DEFINE ints == Ints(b)
           it == Search(heap, ints)
           data == Stored(b)
<1>2. /\ b \in 1..(SizeW - 1) /\ ~BadList(ints) /\ 0 \notin FreeOf(heap, S)
      /\ (it \in FreeOf(heap, S) /\ ints <= size(heap, it)) \/ it = 0
  BY <1>1, CallFinds
<1>3. heapPanic' = FALSE
  <2>1. heapPanic' = BadList(ints)
    BY DEF malloc
  <2>2. BadList(ints) = FALSE
    BY <1>2 DEF BadList
  <2> QED BY <2>1, <2>2
<1>4. CASE it = 0
  <2>1. UNCHANGED <<heap, held>>
    BY <1>4 DEF malloc
  <2> QED BY <1>1, <1>3, <2>1 DEF HeapIInv
<1>5. CASE it # 0
  <2>1. /\ heap' = Filled(Take(heap, it, ints), it + 1, data)
        /\ held' = Holding(held, it + 1, NewPiece(b, data))
    BY <1>2, <1>5 DEF malloc
  <2>2. it \in FreeOf(heap, S) /\ ints <= size(heap, it)
    BY <1>2, <1>5
  <2> HIDE DEF it
  <2>3. \E T, stamps :
           /\ Good(Filled(Take(heap, it, ints), it + 1, data), T, stamps)
           /\ Owned(Filled(Take(heap, it, ints), it + 1, data), T, Holding(held, it + 1, NewPiece(b, data)))
    BY <1>1, <1>2, <2>2, Allocated
  <2> QED BY <1>3, <2>1, <2>3 DEF HeapIInv
<1> QED BY <1>4, <1>5

(* free() does,                                                            *)
LEMMA FreeKeeps ==
  ASSUME HeapIInv, NEW p \in DOMAIN held, free(p)
  PROVE  HeapIInv'
<1>1. PICK S, stamp : Good(heap, S, stamp) /\ Owned(heap, S, held)
  BY DEF HeapIInv
<1>2. /\ isTaken(heap, Block(p))
      /\ \E T, stamps : /\ Good(Give(heap, Block(p)), T, stamps)
                        /\ Owned(Give(heap, Block(p)), T, Dropping(held, p))
  BY <1>1, Released
<1>3. heap' = Give(heap, Block(p)) /\ held' = Dropping(held, p) /\ heapPanic' = heapPanic
  BY <1>2 DEF free
<1> QED BY <1>2, <1>3 DEF HeapIInv

(* and realloc(), which is a malloc(), a copy and a free().                *)
LEMMA ReallocKeeps ==
  ASSUME HeapIInv, NEW p \in DOMAIN held, NEW b \in Asks, ~Wrapped(b), Realloc(p, b)
  PROVE  HeapIInv'
<1>1. PICK S, stamp : Good(heap, S, stamp) /\ Owned(heap, S, held)
  BY DEF HeapIInv
<1> DEFINE sz == size(heap, Block(p)) * 4
           ints == Ints(b)
           it == Search(heap, ints)
           kept == IF b > sz THEN sz ELSE b
           c == Copied(Take(heap, it, ints), p, it + 1, InWords(kept))
           piece == NewPiece(b, UpTo(held[p].value, InWords(b)))
<1>2. /\ b \in 1..(SizeW - 1) /\ 0 \notin FreeOf(heap, S)
      /\ (it \in FreeOf(heap, S) /\ ints <= size(heap, it)) \/ it = 0
  BY <1>1, CallFinds
<1>3. heapPanic' = FALSE
  BY DEF Realloc, HeapIInv
<1>4. CASE it = 0
  <2>1. heap' = Give(heap, Block(p)) /\ held' = Dropping(held, p)
    BY <1>4 DEF Realloc
  <2>2. \E T, stamps : /\ Good(Give(heap, Block(p)), T, stamps)
                       /\ Owned(Give(heap, Block(p)), T, Dropping(held, p))
    BY <1>1, Released
  <2> QED BY <1>3, <2>1, <2>2 DEF HeapIInv
<1>5. CASE it # 0
  <2>1. heap' = Give(c, Block(p)) /\ held' = Holding(Dropping(held, p), it + 1, piece)
    BY <1>5 DEF Realloc
  <2>2. it \in FreeOf(heap, S) /\ ints <= size(heap, it)
    BY <1>2, <1>5
  <2> HIDE DEF it
  <2>3. \E T, stamps : /\ Good(Give(c, Block(p)), T, stamps)
                       /\ Owned(Give(c, Block(p)), T, Holding(Dropping(held, p), it + 1, piece))
    BY <1>1, <1>2, <2>2, Exchanged
  <2> HIDE DEF c, piece
  <2> QED BY <1>3, <2>1, <2>3 DEF HeapIInv
<1> QED BY <1>4, <1>5

(* Tags, links and coalescing of the heap, and where its pieces are, are   *)
(* kept by every call.                                                     *)
THEOREM HeapInvariance == HeapSpec => []HeapIInv
<1>1. HeapInit => HeapIInv
  BY HeapStarts
<1>2. HeapIInv /\ [HeapNext]_heapVars => HeapIInv'
  <2> SUFFICES ASSUME HeapIInv, [HeapNext]_heapVars PROVE HeapIInv'
    OBVIOUS
  <2>1. ASSUME NEW b \in Asks, malloc(b) PROVE HeapIInv'
    BY <2>1, MallocKeeps
  <2>2. ASSUME NEW p \in DOMAIN held, free(p) PROVE HeapIInv'
    BY <2>2, FreeKeeps
  <2>3. ASSUME NEW p \in DOMAIN held, NEW b \in Asks, ~Wrapped(b), Realloc(p, b) PROVE HeapIInv'
    BY <2>3, ReallocKeeps
  <2>4. CASE UNCHANGED heapVars
    <3>1. UNCHANGED <<heap, held, heapPanic>>
      BY <2>4 DEF heapVars
    <3> QED BY <3>1 DEF HeapIInv
  <2> QED BY <2>1, <2>2, <2>3, <2>4 DEF HeapNext
<1> QED BY <1>1, <1>2, PTL DEF HeapSpec

(* What malloc() and free() walk over has the form that they rely on:      *)
(* blocks with equal tags fill the array, the list links the free ones in  *)
(* both directions and no two of them touch; no panic is reached.          *)
THEOREM HeapIsWellFormed == HeapSpec => []WellFormed
<1>1. HeapIInv => WellFormed
  <2> SUFFICES ASSUME HeapIInv PROVE WellFormed
    OBVIOUS
  <2>1. PICK S, stamp : Good(heap, S, stamp) /\ Owned(heap, S, held)
    BY DEF HeapIInv
  <2>2. heap \in HeapType /\ Tiles(heap, S) /\ Linked(heap, FreeOf(heap, S), stamp) /\ Separate(heap, S)
    BY <2>1 DEF Good
  <2>3. Starts = S
    BY <2>2, StartsAre
  <2>4. TagsTile
    <3>1. 0 \notin S /\ \A i \in S : heap.array[footerFromHeader(heap, i)] = heap.array[i]
      BY <2>2 DEF Tiles
    <3>2. /\ heap.array[0] = -2 /\ heap.array[1] = -2
          /\ heap.array[End] = -2 /\ heap.array[End + 1] = -2 /\ End \in Nat
      BY <2>2, Sizes DEF Tiles
    <3>3. footerFromHeader(heap, 0) = 1 /\ footerFromHeader(heap, End) = End + 1
      <4>1. \A i \in {0, End} : footerFromHeader(heap, i) = i + 1
        <5> SUFFICES ASSUME NEW i \in {0, End} PROVE footerFromHeader(heap, i) = i + 1
          OBVIOUS
        <5>1. heap.array[i] = -2 /\ i \in Int
          BY <3>2
        <5> QED BY <5>1 DEF footerFromHeader, size
      <4> QED BY <4>1
    <3>4. \A i \in {0, End} : heap.array[footerFromHeader(heap, i)] = heap.array[i]
      BY <3>2, <3>3
    <3> QED BY <2>3, <3>1, <3>4 DEF TagsTile, End
  <2>5. ListComplete
    <3> DEFINE list == List(heap)
    <3>1. /\ \A k \in DOMAIN list : /\ list[k] \in FreeOf(heap, S)
                                    /\ prev(heap, list[k]) = IF k = 1 THEN 0 ELSE list[k - 1]
          /\ \A f \in FreeOf(heap, S) : \E k \in DOMAIN list : list[k] = f
      BY <2>2, ListIs
    <3> HIDE DEF list
    <3>2. {list[k] : k \in DOMAIN list} = FreeOf(heap, S)
      BY <3>1
    <3>3. FreeOf(heap, S) = {i \in Starts : isAvail(heap, i)}
      BY <2>3 DEF FreeOf
    <3> QED BY <3>1, <3>2, <3>3 DEF ListComplete, list
  <2>6. Coalesced
    BY <2>2, <2>3 DEF Coalesced, Separate
  <2> QED BY <2>4, <2>5, <2>6 DEF WellFormed, HeapIInv
<1> QED BY <1>1, HeapInvariance, PTL

(* A block keeps what its owner has stored in it.                          *)
THEOREM OwnersFindTheirs == HeapSpec => []ContentsKept
<1>1. HeapIInv => ContentsKept
  <2> SUFFICES ASSUME HeapIInv, NEW p \in DOMAIN held, NEW k \in DOMAIN held[p].value
               PROVE  heap.array[p + k - 1] = held[p].value[k]
    BY DEF ContentsKept
  <2>1. PICK S, stamp : Good(heap, S, stamp) /\ Owned(heap, S, held)
    BY DEF HeapIInv
  <2>2. /\ held[p].value \in Seq(Int)
        /\ \A j \in 1..Len(held[p].value) : heap.array[p + j - 1] = held[p].value[j]
    BY <2>1 DEF Owned, PieceIn
  <2>3. k \in 1..Len(held[p].value)
    BY <2>2
  <2> QED BY <2>2, <2>3
<1> QED BY <1>1, HeapInvariance, PTL

(* malloc() reports no memory only if no free block is big enough,         *)
(* although the kernel stops its search after a countdown.                 *)
THEOREM HeapFailsHonestly == HeapSpec => FailsOnlyWithoutRoom
<1> DEFINE Honest == last'.failed /\ last' # last =>
                       \A i \in Starts : isAvail(heap, i) => size(heap, i) < last'.ints
<1>1. HeapIInv /\ [HeapNext]_heapVars => [Honest]_heapVars
  <2> SUFFICES ASSUME HeapIInv, HeapNext, last'.failed
               PROVE  \A i \in Starts : isAvail(heap, i) => size(heap, i) < last'.ints
    OBVIOUS
  <2>1. PICK S, stamp : Good(heap, S, stamp)
    BY DEF HeapIInv
  <2>2. Starts = S
    BY <2>1, StartsAre DEF Good
  <2>3. ASSUME NEW b \in Asks, last' = [ints |-> Ints(b), failed |-> Search(heap, Ints(b)) = 0]
        PROVE  \A i \in Starts : isAvail(heap, i) => size(heap, i) < last'.ints
    <3>1. last'.ints = Ints(b) /\ Search(heap, Ints(b)) = 0
      BY <2>3
    <3>2. \A i \in S : isAvail(heap, i) => size(heap, i) < Ints(b)
      BY <2>1, <3>1, CallFinds
    <3> QED BY <2>2, <3>1, <3>2
  <2>4. ASSUME NEW b \in Asks, malloc(b)
        PROVE  last' = [ints |-> Ints(b), failed |-> Search(heap, Ints(b)) = 0]
    <3>1. last' = [ints |-> Ints(b), failed |-> ~BadList(Ints(b)) /\ Search(heap, Ints(b)) = 0]
      BY <2>4 DEF malloc
    <3>2. ~BadList(Ints(b))
      BY <2>1, CallFinds
    <3> QED BY <3>1, <3>2
  <2>5. ASSUME NEW p \in DOMAIN held, free(p) PROVE FALSE
    <3>1. last' = NoSearch
      BY <2>5 DEF free
    <3> QED BY <3>1 DEF NoSearch
  <2>6. ASSUME NEW p \in DOMAIN held, NEW b \in Asks, Realloc(p, b)
        PROVE  last' = [ints |-> Ints(b), failed |-> Search(heap, Ints(b)) = 0]
    BY <2>6 DEF Realloc
  <2> QED BY <2>3, <2>4, <2>5, <2>6 DEF HeapNext
<1>2. HeapSpec => [][Honest]_heapVars
  BY <1>1, HeapInvariance, PTL DEF HeapSpec
<1> QED BY <1>2 DEF FailsOnlyWithoutRoom

-----------------------------------------------------------------------------
(* The heap as an allocator.                                               *)

Live(hd) == [p \in DOMAIN hd |-> UsedWords(hd[p].bytes)]

(* A new piece lies in its block, and the others lie in theirs.            *)
LEMMA Apart ==
  ASSUME NEW h, NEW S, NEW stamp, Good(h, S, stamp), NEW hd, Owned(h, S, hd),
         NEW bytes \in 1..(SizeW - 1), NEW it \in FreeOf(h, S), Ints(bytes) <= size(h, it)
  PROVE  /\ Promise!New(it + 1, UsedWords(bytes), Live(hd))
         /\ it + 1 \notin DOMAIN hd
<1>1. h \in HeapType /\ Tiles(h, S) /\ it \in S /\ isAvail(h, it)
  BY DEF Good, FreeOf
<1>2. \A j \in S : /\ j \in Int /\ size(h, j) \in Int /\ size(h, j) >= 4 /\ j >= 2
                   /\ j + size(h, j) <= End
                   /\ \A i \in S : j < i => j + size(h, j) <= i
  BY <1>1, BlockWords
<1> DEFINE n == UsedWords(bytes)
           m == size(h, it)
           a == it + 1
<1>3. n \in Nat /\ n >= 1 /\ n <= m - 2 /\ m \in Int /\ it \in Int /\ it + m <= End /\ it >= 2
  <2>1. /\ UsedWords(bytes) \in Nat /\ UsedWords(bytes) >= 1
        /\ UsedWords(bytes) <= Ints(bytes) - 2 /\ Ints(bytes) \in Nat
    BY Amounts
  <2>2. m \in Int /\ it \in Int /\ it + m <= End /\ it >= 2 /\ Ints(bytes) <= m
    BY <1>1, <1>2
  <2> HIDE DEF m
  <2> QED BY <2>1, <2>2
<1>4. ASSUME NEW q \in DOMAIN hd
      PROVE  q # a /\ (a..(a + n - 1)) \cap (q..(q + Live(hd)[q] - 1)) = {}
  <2> DEFINE b == q - 1
             k == size(h, b)
             u == Live(hd)[q]
  <2>1. /\ q \in Int /\ b \in S /\ isTaken(h, b) /\ u = UsedWords(hd[q].bytes)
        /\ UsedWords(hd[q].bytes) <= k - 2 /\ hd[q].bytes \in 1..(SizeW - 1) /\ q = b + 1
    BY DEF Owned, PieceIn, Live
  <2>2. u \in Nat /\ u <= k - 2
    BY <2>1, Amounts
  <2>3. b # it
    BY <1>1, <2>1, BlockWords DEF isTaken, isAvail
  <2>4. /\ b \in Int /\ k \in Int
        /\ b < it => b + k <= it
        /\ it < b => it + m <= b
    BY <1>1, <1>2, <2>1
  <2> HIDE DEF b, k, u, n, m
  <2>5. ASSUME NEW x \in a..(a + n - 1), x \in q..(q + u - 1) PROVE FALSE
    <3>1. x \in Int /\ it < x /\ x < it + m - 1
      BY <1>3
    <3>2. b < x /\ x < b + k - 1
      BY <2>1, <2>2, <2>4, <2>5
    <3> QED BY <1>3, <2>3, <2>4, <3>1, <3>2
  <2>6. q # a
    BY <1>3, <2>1, <2>3, <2>4
  <2> QED BY <2>5, <2>6 DEF u
<1>5. a..(a + n - 1) \subseteq Index
  <2> HIDE DEF n, m
  <2> QED BY <1>3, Sizes
<1>6. DOMAIN Live(hd) = DOMAIN hd
  BY DEF Live
<1>7. n > 0
  <2> HIDE DEF n
  <2> QED BY <1>3
<1> HIDE DEF n
<1>8. Promise!New(a, n, Live(hd))
  BY <1>4, <1>5, <1>6, <1>7 DEF Promise!New, Promise!Piece
<1>9. a \notin DOMAIN hd
  BY <1>4
<1> QED BY <1>8, <1>9 DEF n

(* The heap promises what an allocator does: pieces in use are apart, each *)
(* as long as was asked for, and only free() and realloc() end one.        *)
THEOREM HeapImplementsAllocator == HeapSpec => ImplementsAllocator
<1> DEFINE live == [p \in DOMAIN held |->
                      IF Wrapped(held[p].bytes) THEN 1 ELSE InWords(held[p].bytes)]
<1>1. live = Live(held) /\ live' = Live(held')
  BY DEF Live, UsedWords
<1>2. HeapInit => Promise!Init
  BY DEF HeapInit, Promise!Init
<1>3. HeapIInv /\ [HeapNext]_heapVars
        => [Promise!Allocate \/ Promise!Release \/ Promise!Exchange]_live
  <2> SUFFICES ASSUME HeapIInv, [HeapNext]_heapVars
               PROVE  \/ Promise!Allocate \/ Promise!Release \/ Promise!Exchange
                      \/ live' = live
    OBVIOUS
  <2>1. PICK S, stamp : Good(heap, S, stamp) /\ Owned(heap, S, held)
    BY DEF HeapIInv
  <2>2. ASSUME held' = held PROVE live' = live
    BY <1>1, <2>2
  <2>3. ASSUME NEW p \in DOMAIN held, held' = Dropping(held, p)
        PROVE  Promise!Release
    <3>1. live' = Promise!Without(p)
      BY <2>3 DEF Dropping, Promise!Without
    <3>2. p \in DOMAIN live
      OBVIOUS
    <3> QED BY <3>1, <3>2 DEF Promise!Release
  <2>4. ASSUME NEW b \in Asks, malloc(b)
        PROVE  Promise!Allocate \/ live' = live
    <3> DEFINE it == Search(heap, Ints(b))
               piece == NewPiece(b, Stored(b))
    <3>1. /\ b \in 1..(SizeW - 1) /\ ~BadList(Ints(b))
          /\ (it \in FreeOf(heap, S) /\ Ints(b) <= size(heap, it)) \/ it = 0
      BY <2>1, CallFinds
    <3>2. CASE it = 0
      BY <2>2, <2>4, <3>2 DEF malloc
    <3>3. CASE it # 0
      <4>1. held' = Holding(held, it + 1, piece)
        BY <2>4, <3>1, <3>3 DEF malloc
      <4>2. it \in FreeOf(heap, S) /\ Ints(b) <= size(heap, it)
        BY <3>1, <3>3
      <4> HIDE DEF it
      <4>3. Promise!New(it + 1, UsedWords(b), Live(held)) /\ it + 1 \notin DOMAIN held
        BY <2>1, <3>1, <4>2, Apart
      <4> DEFINE a == it + 1
      <4> HIDE DEF a
      <4>4. piece.bytes = b
        BY DEF NewPiece
      <4> HIDE DEF piece, live
      <4>5. DOMAIN held' = DOMAIN held \cup {a} /\ held'[a] = piece
            /\ \A q \in DOMAIN held : q # a => held'[q] = held[q]
        BY <4>1 DEF Holding, a
      <4>6. live' = Promise!With(a, UsedWords(b), live) /\ a \in DOMAIN live' /\ live'[a] = UsedWords(b)
        BY <1>1, <4>4, <4>5 DEF Live, Promise!With
      <4>7. Promise!New(a, live'[a], live)
        BY <1>1, <4>3, <4>6 DEF a
      <4> QED BY <4>6, <4>7 DEF Promise!Allocate, live
    <3> QED BY <3>2, <3>3
  <2>5. ASSUME NEW p \in DOMAIN held, NEW b \in Asks, ~Wrapped(b), Realloc(p, b)
        PROVE  Promise!Release \/ Promise!Exchange
    <3> DEFINE it == Search(heap, Ints(b))
               piece == NewPiece(b, UpTo(held[p].value, InWords(b)))
    <3>1. /\ b \in 1..(SizeW - 1)
          /\ (it \in FreeOf(heap, S) /\ Ints(b) <= size(heap, it)) \/ it = 0
      BY <2>1, CallFinds
    <3>2. CASE it = 0
      BY <2>3, <2>5, <3>2 DEF Realloc
    <3>3. CASE it # 0
      <4>1. held' = Holding(Dropping(held, p), it + 1, piece)
        BY <2>5, <3>3 DEF Realloc
      <4>2. it \in FreeOf(heap, S) /\ Ints(b) <= size(heap, it)
        BY <3>1, <3>3
      <4> HIDE DEF it
      <4>3. Promise!New(it + 1, UsedWords(b), Live(held)) /\ it + 1 \notin DOMAIN held
        BY <2>1, <3>1, <4>2, Apart
      <4> DEFINE a == it + 1
      <4> HIDE DEF a
      <4>4. piece.bytes = b
        BY DEF NewPiece
      <4>5. Promise!Without(p) = [q \in DOMAIN held \ {p} |-> UsedWords(held[q].bytes)]
            /\ p \in DOMAIN live
        BY DEF Promise!Without, UsedWords
      <4> HIDE DEF piece, live
      <4>6. DOMAIN held' = (DOMAIN held \ {p}) \cup {a} /\ held'[a] = piece
            /\ \A q \in DOMAIN held \ {p} : q # a => held'[q] = held[q]
        BY <4>1 DEF Holding, Dropping, a
      <4>7. live' = Promise!With(a, UsedWords(b), Promise!Without(p))
            /\ a \in DOMAIN live' /\ live'[a] = UsedWords(b)
        BY <1>1, <4>4, <4>5, <4>6 DEF Live, Promise!With
      <4>8. Promise!New(a, live'[a], live)
        BY <1>1, <4>3, <4>7 DEF a
      <4> QED BY <4>5, <4>7, <4>8 DEF Promise!Exchange, live
    <3> QED BY <3>2, <3>3
  <2>6. ASSUME NEW p \in DOMAIN held, free(p) PROVE Promise!Release
    <3>1. held' = Dropping(held, p)
      BY <2>6 DEF free
    <3> QED BY <2>3, <3>1
  <2>7. CASE UNCHANGED heapVars
    BY <2>2, <2>7 DEF heapVars
  <2> QED BY <2>4, <2>5, <2>6, <2>7 DEF HeapNext
<1> QED BY <1>2, <1>3, HeapInvariance, PTL DEF HeapSpec, ImplementsAllocator, Promise!Spec

=============================================================================
