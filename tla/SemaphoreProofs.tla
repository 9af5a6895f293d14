-------------------------- MODULE SemaphoreProofs --------------------------
(***************************************************************************)
(* For any number of threads, cores and permits: that a semaphore loses no *)
(* wake-up and is never held by a thread that is interrupted; then, that a *)
(* thread that uses it is in one place at any time, that the semaphore     *)
(* keeps the promise of CountingSemaphore, and that its operations leave   *)
(* the caller's interrupts as they were.                                   *)
(*                                                                         *)
(* The promise needs the one place: a permit that up() passes on is in no  *)
(* field, but in where the thread is that gets it.  It has come back into  *)
(* down() when it has left the wait queue, and only then.                  *)
(***************************************************************************)
EXTENDS Semaphore, SequenceTheorems, FiniteSetTheorems, TLAPS

(* Queues in which nobody is twice, with what joins at the end and leaves  *)
(* at the head.                                                            *)
Elems(q) == {q[i] : i \in DOMAIN q}
Once(q) == \A i, j \in DOMAIN q : q[i] = q[j] => i = j

(* What comes to the end of a queue is added to it.                        *)
LEMMA Appended ==
  ASSUME NEW S, NEW q \in Seq(S), NEW x \in S
  PROVE  /\ Elems(Append(q, x)) = Elems(q) \cup {x}
         /\ Once(q) /\ x \notin Elems(q) => Once(Append(q, x))
<1>1. /\ Len(q) \in Nat /\ DOMAIN q = 1..Len(q)
      /\ DOMAIN Append(q, x) = 1..Len(q) \cup {Len(q) + 1}
      /\ \A i \in 1..Len(q) : Append(q, x)[i] = q[i]
      /\ Append(q, x)[Len(q) + 1] = x
  BY AppendProperties, LenProperties
<1>2. Elems(Append(q, x)) = Elems(q) \cup {x}
  BY <1>1 DEF Elems
<1>3. Once(q) /\ x \notin Elems(q) => Once(Append(q, x))
  BY <1>1 DEF Elems, Once
<1> QED BY <1>2, <1>3

(* What leaves a queue at its head is in it no more.                       *)
LEMMA Removed ==
  ASSUME NEW S, NEW q \in Seq(S), q # <<>>, Once(q)
  PROVE  /\ Tail(q) \in Seq(S) /\ Head(q) \in S /\ Head(q) \in Elems(q)
         /\ Elems(Tail(q)) = Elems(q) \ {Head(q)} /\ Once(Tail(q))
<1>1. /\ Head(q) = q[1] /\ Head(q) \in S /\ Tail(q) \in Seq(S)
      /\ Len(q) \in Nat /\ Len(q) # 0 /\ DOMAIN q = 1..Len(q)
      /\ DOMAIN Tail(q) = 1..(Len(q) - 1)
      /\ \A i \in 1..(Len(q) - 1) : Tail(q)[i] = q[i + 1]
  BY HeadTailProperties, LenProperties, EmptySeq
<1>2. 1 \in DOMAIN q /\ \A i \in 1..(Len(q) - 1) : i + 1 \in DOMAIN q /\ i + 1 # 1
  BY <1>1
<1>3. Once(Tail(q))
  BY <1>1, <1>2 DEF Once
<1>4. ASSUME NEW x \in Elems(q), x # Head(q) PROVE x \in Elems(Tail(q))
  <2>1. PICK i \in DOMAIN q : x = q[i]
    BY <1>4 DEF Elems
  <2>2. i - 1 \in DOMAIN Tail(q) /\ Tail(q)[i - 1] = x
    BY <1>1, <1>4, <2>1
  <2> QED BY <2>2 DEF Elems
<1>5. ASSUME NEW x \in Elems(Tail(q)) PROVE x \in Elems(q) /\ x # Head(q)
  <2>1. PICK i \in 1..(Len(q) - 1) : x = Tail(q)[i]
    BY <1>1, <1>5 DEF Elems
  <2>2. i + 1 \in DOMAIN q /\ q[i + 1] = x /\ i + 1 # 1
    BY <1>1, <1>2, <2>1
  <2> QED BY <1>1, <1>2, <2>2 DEF Elems, Once
<1>6. Head(q) \in Elems(q)
  BY <1>1, <1>2 DEF Elems
<1> QED BY <1>1, <1>3, <1>4, <1>5, <1>6

-----------------------------------------------------------------------------

(* Only up() has a thread in its hands, and it schedules one if it has.    *)
SchedulesSomebody == \A t \in Threads : pc[t] = "schedule" => next[t] # None

HandlerHasThread == \A c \in Cores : phase[c] = "handler" => source[c] # None

Typed == TypeOK /\ SchedulesSomebody /\ HandlerHasThread

(* The lock has one owner: a thread in down() or up(), or a core that runs *)
(* the handler of down().                                                  *)
OneOwner ==
  /\ \A t, u \in Threads : pc[t] \in Locked /\ pc[u] \in Locked => t = u
  /\ \A c, d \in Cores : phase[c] = "handler" /\ phase[d] = "handler" => c = d
  /\ \A t \in Threads, c \in Cores : ~(pc[t] \in Locked /\ phase[c] = "handler")

TakenByOwner ==
  taken <=> (\E t \in Threads : pc[t] \in Locked) \/ (\E c \in Cores : phase[c] = "handler")

(* The owner is on a core whose interrupts are off.                        *)
OwnerRuns ==
  /\ \A t \in Threads : pc[t] \in Locked =>
       \E c \in Cores : on[c] = t /\ ~IF_[c] /\ phase[c] = "run"
  /\ \A c \in Cores : phase[c] = "handler" => ~IF_[c]

(* Who is about to queue itself has found no permit, and nobody can have   *)
(* added one since.                                                        *)
NoPermitForTheQueued ==
  /\ \A t \in Threads : pc[t] = "block" => count = 0
  /\ \A c \in Cores : phase[c] = "handler" => count = 0

IInv ==
  /\ Typed /\ OneOwner /\ TakenByOwner /\ OwnerRuns
  /\ NoPermitForTheQueued /\ NobodyWaitsForAPermit

-----------------------------------------------------------------------------

LEMMA Initially == Init => IInv
<1> SUFFICES ASSUME Init PROVE IInv
  OBVIOUS
<1>1. PICK q \in [1..Cardinality(Threads) -> Threads] : readyQ = q
  BY DEF Init, SchedInit
<1>2. Cardinality(Threads) \in Nat
  BY SemaphoreAssumption, FS_CardinalityType
<1>3. readyQ \in Seq(Threads)
  BY <1>1, <1>2
<1>4. Typed
  <2> USE SemaphoreAssumption DEF Init, SchedInit
  <2>1. SchedTypeOK({"handler"}, Steps)
    BY <1>3 DEF SchedTypeOK, Steps
  <2>2. waiting \in Seq(Threads) /\ holds \in SUBSET Threads /\ signals \in Nat /\ count \in Nat
    OBVIOUS
  <2>3. taken \in BOOLEAN /\ was \in [Threads -> BOOLEAN] /\ callerIF \in [Threads -> BOOLEAN]
    OBVIOUS
  <2>4. next \in [Threads -> Threads \cup {None}]
    OBVIOUS
  <2>5. TypeOK
    BY <2>1, <2>2, <2>3, <2>4 DEF TypeOK
  <2> QED BY <2>5 DEF Typed, SchedulesSomebody, HandlerHasThread
<1>5. OneOwner /\ TakenByOwner /\ OwnerRuns /\ NoPermitForTheQueued /\ NobodyWaitsForAPermit
  BY DEF Init, SchedInit, OneOwner, TakenByOwner, OwnerRuns, NoPermitForTheQueued,
         NobodyWaitsForAPermit, Locked
<1> QED BY <1>4, <1>5 DEF IInv

-----------------------------------------------------------------------------
(* Steps outside of the lock.                                              *)

LEMMA OutsideKeeps ==
  ASSUME IInv, NEW c \in Cores, NEW t, t = on[c],
         ToggleIF(c, t) \/ CallDown(c, t) \/ CallUp(c, t)
  PROVE  IInv'
<1> USE DEF IInv, Typed, TypeOK, SchedTypeOK
<1>1. /\ t \in Threads /\ pc[t] = "out"
      /\ pc' \in [Threads -> Steps]
      /\ \A u \in Threads : pc'[u] = pc[u] \/ (u = t /\ pc'[u] \in {"out", "down", "up"})
  BY DEF ToggleIF, CallDown, CallUp, At, GoTo, Steps
<1>2. /\ UNCHANGED <<sem, readyQ, cores, was, next, flags>>
      /\ IF_' \in [Cores -> BOOLEAN]
      /\ \A d \in Cores : IF_'[d] = IF_[d] \/ (d = c /\ phase[d] = "run")
  BY DEF ToggleIF, CallDown, CallUp, At, SetIF
<1>3. callerIF' \in [Threads -> BOOLEAN] /\ holds' \in SUBSET Threads /\ signals' \in Nat
  <2>1. CASE ToggleIF(c, t)
    <3>1. callerIF' = [callerIF EXCEPT ![t] = ~IF_[c]] /\ UNCHANGED <<holds, signals>>
      BY <2>1 DEF ToggleIF
    <3>2. callerIF' \in [Threads -> BOOLEAN]
      BY <3>1, Zenon
    <3> QED BY <3>1, <3>2
  <2>2. CASE CallDown(c, t) \/ CallUp(c, t)
    BY <2>2 DEF CallDown, CallUp, history
  <2> QED BY <2>1, <2>2
<1> USE DEF sem, cores
<1>4. Typed'
  BY <1>1, <1>2, <1>3 DEF SchedulesSomebody, HandlerHasThread
<1>5. \A u \in Threads : (pc'[u] \in Locked <=> pc[u] \in Locked) /\ (pc'[u] = "block" => pc[u] = "block")
  BY <1>1 DEF Locked
<1>6. OneOwner' /\ TakenByOwner'
  BY <1>2, <1>5 DEF OneOwner, TakenByOwner
<1>7. OwnerRuns'
  <2>1. ASSUME NEW u \in Threads, pc'[u] \in Locked
        PROVE  \E d \in Cores : on'[d] = u /\ ~IF_'[d] /\ phase'[d] = "run"
    <3>1. PICK d \in Cores : on[d] = u /\ ~IF_[d] /\ phase[d] = "run"
      BY <2>1, <1>5 DEF OwnerRuns
    <3>2. d # c
      BY <1>1, <1>5, <2>1, <3>1 DEF Locked
    <3> QED BY <1>2, <3>1, <3>2
  <2> QED BY <2>1, <1>2 DEF OwnerRuns
<1>8. NoPermitForTheQueued' /\ NobodyWaitsForAPermit'
  BY <1>2, <1>5 DEF NoPermitForTheQueued, NobodyWaitsForAPermit
<1> QED BY <1>4, <1>6, <1>7, <1>8

(* The exchange succeeds.                                                  *)
LEMMA LockKeeps ==
  ASSUME IInv, NEW c \in Cores, NEW t, t = on[c], DownLock(c, t) \/ UpLock(c, t)
  PROVE  IInv'
<1> USE DEF IInv, Typed, TypeOK, SchedTypeOK
<1>1. /\ t \in Threads /\ phase[c] = "run" /\ ~taken /\ taken'
      /\ pc' \in [Threads -> Steps]
      /\ \A u \in Threads : pc'[u] = IF u = t THEN pc'[t] ELSE pc[u]
      /\ pc'[t] \in {"test", "take"}
  BY DEF DownLock, UpLock, At, Lock, GoTo, Steps
<1>2. /\ UNCHANGED <<count, waiting, readyQ, cores, next, flags, history>>
      /\ IF_' = [IF_ EXCEPT ![c] = FALSE]
      /\ was' \in [Threads -> BOOLEAN]
  BY DEF DownLock, UpLock, Lock, SetIF
<1> USE DEF cores, history
<1>3. Typed'
  BY <1>1, <1>2, <1>1 DEF SchedulesSomebody, HandlerHasThread
<1>4. (\A u \in Threads : pc[u] \notin Locked) /\ (\A d \in Cores : phase[d] # "handler")
  BY <1>1 DEF TakenByOwner
<1>5. \A u \in Threads : pc'[u] \in Locked <=> u = t
  BY <1>1, <1>4 DEF Locked
<1>6. OneOwner' /\ TakenByOwner'
  BY <1>1, <1>2, <1>4, <1>5 DEF OneOwner, TakenByOwner
<1>7. OwnerRuns'
  BY <1>1, <1>2, <1>4, <1>5 DEF OwnerRuns
<1>8. NoPermitForTheQueued' /\ NobodyWaitsForAPermit'
  BY <1>1, <1>2, <1>4, <1>5 DEF NoPermitForTheQueued, NobodyWaitsForAPermit, Locked
<1> QED BY <1>3, <1>6, <1>7, <1>8

(* Steps of the owner that keeps the lock.                                 *)
LEMMA OwnerKeeps ==
  ASSUME IInv, NEW c \in Cores, NEW t, t = on[c], Test(c, t) \/ Take(c, t)
  PROVE  IInv'
<1> USE DEF IInv, Typed, TypeOK, SchedTypeOK
<1>1. /\ t \in Threads /\ pc[t] \in {"test", "take"}
      /\ UNCHANGED <<taken, readyQ, cores, IF_, was, flags, callerIF, signals>>
      /\ pc' \in [Threads -> Steps]
      /\ \A u \in Threads : pc'[u] = IF u = t THEN pc'[t] ELSE pc[u]
      /\ pc'[t] \in {"leave", "block", "unlock"}
  BY DEF Test, Take, At, GoTo, Steps
<1> USE DEF cores
<1>2. /\ count' \in Nat /\ waiting' \in Seq(Threads)
      /\ next' \in [Threads -> Threads \cup {None}]
      /\ holds' \in SUBSET Threads
      /\ \A u \in Threads : u # t => next'[u] = next[u]
  <2>1. CASE Test(c, t)
    BY <2>1, <1>1 DEF Test
  <2>2. CASE Take(c, t)
    <3>1. waiting # <<>> => Head(waiting) \in Threads /\ Tail(waiting) \in Seq(Threads)
      OBVIOUS
    <3>2. CASE waiting = <<>>
      BY <2>2, <3>2 DEF Take
    <3>3. CASE waiting # <<>>
      <4>1. /\ next' = [next EXCEPT ![t] = Head(waiting)] /\ waiting' = Tail(waiting)
            /\ count' = count /\ holds' = holds \ {t}
        BY <2>2, <3>3 DEF Take
      <4> QED BY <3>1, <3>3, <4>1, <1>1
    <3> QED BY <3>2, <3>3
  <2> QED BY <2>1, <2>2
<1>3. Typed'
  BY <1>1, <1>2 DEF SchedulesSomebody, HandlerHasThread
<1>4. \A u \in Threads : pc'[u] \in Locked <=> pc[u] \in Locked
  BY <1>1 DEF Locked
<1>5. OneOwner' /\ TakenByOwner' /\ OwnerRuns'
  BY <1>1, <1>4 DEF OneOwner, TakenByOwner, OwnerRuns
<1>6. \A u \in Threads : u # t => pc[u] \notin Locked
  BY <1>1 DEF OneOwner, Locked
<1>7. \A d \in Cores : phase[d] # "handler"
  BY <1>1 DEF OneOwner, Locked
<1>8. pc'[t] = "block" => count' = 0
  BY <1>1 DEF Test, Take, GoTo
<1>9. NoPermitForTheQueued'
  BY <1>1, <1>6, <1>7, <1>8 DEF NoPermitForTheQueued, Locked
<1>10. NobodyWaitsForAPermit'
  <2>1. CASE Test(c, t)
    BY <2>1 DEF Test, NobodyWaitsForAPermit
  <2>2. CASE Take(c, t)
    BY <2>2 DEF Take, NobodyWaitsForAPermit
  <2> QED BY <2>1, <2>2
<1> QED BY <1>3, <1>5, <1>9, <1>10

(* The owner gives the lock up.                                            *)
LEMMA UnlockKeeps ==
  ASSUME IInv, NEW c \in Cores, NEW t, t = on[c], Leave(c, t) \/ UpUnlock(c, t)
  PROVE  IInv'
<1> USE DEF IInv, Typed, TypeOK, SchedTypeOK
<1>1. /\ t \in Threads /\ pc[t] \in {"leave", "unlock"} /\ taken' = FALSE
      /\ pc' \in [Threads -> Steps]
      /\ \A u \in Threads : pc'[u] = IF u = t THEN pc'[t] ELSE pc[u]
      /\ pc'[t] \in {"out", "schedule"}
      /\ pc'[t] = "schedule" => next[t] # None
  BY DEF Leave, UpUnlock, At, Unlock, GoTo, Steps
<1>2. /\ UNCHANGED <<count, waiting, readyQ, cores, next, flags, history>>
      /\ IF_' \in [Cores -> BOOLEAN]
      /\ was' \in [Threads -> BOOLEAN]
      /\ \A d \in Cores : d # c => IF_'[d] = IF_[d]
  BY <1>1 DEF Leave, UpUnlock, Unlock, RestoreIF, SetIF
<1> USE DEF cores, history
<1>3. Typed'
  BY <1>1, <1>2 DEF SchedulesSomebody, HandlerHasThread
<1>4. (\A u \in Threads : pc'[u] \notin Locked) /\ (\A d \in Cores : phase[d] # "handler")
  BY <1>1 DEF OneOwner, Locked
<1>5. OneOwner' /\ TakenByOwner' /\ OwnerRuns'
  BY <1>1, <1>2, <1>4 DEF OneOwner, TakenByOwner, OwnerRuns
<1>6. NoPermitForTheQueued' /\ NobodyWaitsForAPermit'
  BY <1>1, <1>2, <1>4 DEF NoPermitForTheQueued, NobodyWaitsForAPermit, Locked
<1> QED BY <1>3, <1>5, <1>6

-----------------------------------------------------------------------------
(* Switches.                                                               *)

LEMMA TurnedTo ==
  ASSUME readyQ \in Seq(Threads)
  PROVE  /\ (IF readyQ = <<>> THEN None ELSE Head(readyQ)) \in Threads \cup {None}
         /\ readyQ # <<>> => Head(readyQ) \in Threads /\ Tail(readyQ) \in Seq(Threads)
OBVIOUS

(* The lock passes from the thread to the handler.                         *)
LEMMA BlockKeeps ==
  ASSUME IInv, NEW c \in Cores, NEW t, t = on[c], Block(c, t)
  PROVE  IInv'
<1> USE DEF IInv, Typed, TypeOK, SchedTypeOK
<1>1. /\ t \in Threads /\ pc[t] = "block" /\ phase[c] = "run"
      /\ pc' = [pc EXCEPT ![t] = "back"]
      /\ phase' = [phase EXCEPT ![c] = "handler"]
      /\ source' = [source EXCEPT ![c] = t]
      /\ IF_' = [IF_ EXCEPT ![c] = FALSE]
      /\ UNCHANGED <<sem, was, next, history>>
  BY DEF Block, At, block, SwitchFrom, GoTo, SetIF
<1>2. flags' = [flags EXCEPT ![t] = IF_[c]] /\ flags' \in [Threads -> BOOLEAN]
  <2>1. flags' = [flags EXCEPT ![t] = IF_[c]]
    BY DEF Block, block, SwitchFrom
  <2> QED BY <2>1, Zenon
<1>3. /\ readyQ' \in Seq(Threads) /\ on' \in [Cores -> Threads \cup {None}]
      /\ \A d \in Cores : d # c => on'[d] = on[d]
  BY TurnedTo DEF Block, block, SwitchFrom
<1> USE DEF sem, history
<1>4. Typed'
  BY <1>1, <1>2, <1>3, SemaphoreAssumption DEF SchedulesSomebody, HandlerHasThread, Steps
<1>5. (\A u \in Threads : pc'[u] \notin Locked) /\ (\A d \in Cores : phase[d] # "handler")
  BY <1>1 DEF OneOwner, Locked
<1>6. taken
  BY <1>1 DEF TakenByOwner, Locked
<1>7. OneOwner' /\ TakenByOwner' /\ OwnerRuns'
  BY <1>1, <1>3, <1>5, <1>6 DEF OneOwner, TakenByOwner, OwnerRuns
<1>8. NoPermitForTheQueued' /\ NobodyWaitsForAPermit'
  BY <1>1, <1>5 DEF NoPermitForTheQueued, NobodyWaitsForAPermit, Locked
<1> QED BY <1>4, <1>7, <1>8

(* The handler queues the thread, without a permit there, and unlocks.     *)
LEMMA HandlerKeeps ==
  ASSUME IInv, NEW c \in Cores, Handler(c)
  PROVE  IInv'
<1> USE DEF IInv, Typed, TypeOK, SchedTypeOK
<1>1. /\ phase[c] = "handler" /\ taken' = FALSE
      /\ phase' = [phase EXCEPT ![c] = "popf"]
      /\ source' = [source EXCEPT ![c] = None]
      /\ IF_' = [IF_ EXCEPT ![c] = FALSE]
      /\ waiting' = Append(waiting, source[c])
      /\ UNCHANGED <<count, readyQ, on, pc, was, next, flags, history>>
  BY DEF Handler, SetIF, HandlerReturns
<1> USE DEF history
<1>2. source[c] \in Threads
  BY <1>1 DEF HandlerHasThread
<1>3. waiting' \in Seq(Threads)
  BY <1>1, <1>2
<1>4. Typed'
  BY <1>1, <1>3 DEF SchedulesSomebody, HandlerHasThread
<1>5. (\A u \in Threads : pc[u] \notin Locked) /\ (\A d \in Cores : d # c => phase[d] # "handler")
  BY <1>1 DEF OneOwner
<1>6. OneOwner' /\ TakenByOwner' /\ OwnerRuns'
  BY <1>1, <1>5 DEF OneOwner, TakenByOwner, OwnerRuns
<1>7. count = 0
  BY <1>1 DEF NoPermitForTheQueued
<1>8. NoPermitForTheQueued' /\ NobodyWaitsForAPermit'
  BY <1>1, <1>7 DEF NoPermitForTheQueued, NobodyWaitsForAPermit
<1> QED BY <1>4, <1>6, <1>8

(* The core is switched to another thread, or comes out of a switch, while *)
(* it is in no hands but its own.                                          *)
LEMMA SwitchKeeps ==
  ASSUME IInv, NEW c \in Cores, UNCHANGED <<sem, was, next, history, source, pc>>,
         phase[c] # "handler", phase'[c] # "handler",
         phase' = [phase EXCEPT ![c] = phase'[c]], phase'[c] \in {"run", "popf"},
         phase[c] # "run" \/ on[c] = None \/ pc[on[c]] \notin Locked \/ IF_[c],
         readyQ' \in Seq(Threads), on' \in [Cores -> Threads \cup {None}],
         \A d \in Cores : d # c => on'[d] = on[d] /\ IF_'[d] = IF_[d],
         IF_' \in [Cores -> BOOLEAN], flags' \in [Threads -> BOOLEAN]
  PROVE  IInv'
<1> USE DEF IInv, Typed, TypeOK, SchedTypeOK, sem, history
<1>1. Typed'
  BY DEF SchedulesSomebody, HandlerHasThread
<1>2. \A d \in Cores : phase'[d] = "handler" <=> phase[d] = "handler"
  OBVIOUS
<1>3. OneOwner' /\ TakenByOwner'
  BY <1>2 DEF OneOwner, TakenByOwner
<1>4. OwnerRuns'
  <2>1. ASSUME NEW u \in Threads, pc'[u] \in Locked
        PROVE  \E d \in Cores : on'[d] = u /\ ~IF_'[d] /\ phase'[d] = "run"
    <3>1. PICK d \in Cores : on[d] = u /\ ~IF_[d] /\ phase[d] = "run"
      BY <2>1 DEF OwnerRuns
    <3>2. d # c
      BY <2>1, <3>1, SemaphoreAssumption
    <3> QED BY <3>1, <3>2
  <2> QED BY <2>1, <1>2 DEF OwnerRuns
<1>5. NoPermitForTheQueued' /\ NobodyWaitsForAPermit'
  BY <1>2 DEF NoPermitForTheQueued, NobodyWaitsForAPermit
<1> QED BY <1>1, <1>3, <1>4, <1>5

LEMMA PopfKeeps ==
  ASSUME IInv, NEW c \in Cores, Popf(c, on[c]), UNCHANGED <<sem, was, next, history>>
  PROVE  IInv'
<1> USE DEF IInv, Typed, TypeOK, SchedTypeOK
<1>1. /\ phase[c] = "popf" /\ phase' = [phase EXCEPT ![c] = "run"]
      /\ IF_' = [IF_ EXCEPT ![c] = (on[c] = None \/ flags[on[c]])]
      /\ flags' = [u \in Threads |-> u = on[c] \/ flags[u]]
      /\ UNCHANGED <<readyQ, on, source, pc>>
  BY DEF Popf, SetIF
<1>2. IF_' \in [Cores -> BOOLEAN] /\ flags' \in [Threads -> BOOLEAN]
  <2>1. on[c] \in Threads \cup {None}
    OBVIOUS
  <2>2. (on[c] = None \/ flags[on[c]]) \in BOOLEAN /\ \A u \in Threads : (u = on[c] \/ flags[u]) \in BOOLEAN
    BY <2>1, Zenon
  <2> QED BY <1>1, <2>2, Zenon
<1> QED BY <1>1, <1>2, SwitchKeeps

LEMMA DispatchKeeps ==
  ASSUME IInv, NEW c \in Cores, Dispatch(c, on[c]), UNCHANGED <<sem, was, next, history>>
  PROVE  IInv'
<1> USE DEF IInv, Typed, TypeOK, SchedTypeOK
<1>1. /\ on[c] = None /\ readyQ # <<>> /\ phase[c] = "run"
      /\ on' = [on EXCEPT ![c] = Head(readyQ)] /\ readyQ' = Tail(readyQ)
      /\ phase' = [phase EXCEPT ![c] = "popf"] /\ IF_' = [IF_ EXCEPT ![c] = FALSE]
      /\ UNCHANGED <<source, flags, pc>>
  BY DEF Dispatch, SetIF
<1>2. readyQ' \in Seq(Threads) /\ on' \in [Cores -> Threads \cup {None}]
  BY <1>1, TurnedTo
<1> QED BY <1>1, <1>2, SwitchKeeps

(* A thread is preempted with interrupts on, and rests outside: the owner  *)
(* of the lock is neither.                                                 *)
LEMMA GoToEndKeeps ==
  ASSUME IInv, NEW c \in Cores, Preempt(c, on[c]) \/ Rest(c, on[c]),
         UNCHANGED <<sem, was, next, history>>
  PROVE  IInv'
<1> USE DEF IInv, Typed, TypeOK, SchedTypeOK
<1> DEFINE t == on[c]
<1>1. /\ t \in Threads /\ readyQ # <<>> /\ phase[c] = "run"
      /\ on' = [on EXCEPT ![c] = IF readyQ = <<>> THEN None ELSE Head(readyQ)]
      /\ readyQ' = Append(Tail(readyQ), t)
      /\ phase' = [phase EXCEPT ![c] = "popf"] /\ IF_' = [IF_ EXCEPT ![c] = FALSE]
      /\ flags' = [flags EXCEPT ![t] = IF_[c]]
      /\ UNCHANGED <<source, pc>>
  BY DEF Preempt, Rest, At, GoToEnd, SwitchFrom, SetIF
<1>2. readyQ' \in Seq(Threads) /\ on' \in [Cores -> Threads \cup {None}]
  BY <1>1, TurnedTo
<1>3. flags' \in [Threads -> BOOLEAN]
  BY <1>1, Zenon
<1>4. pc[t] \notin Locked \/ IF_[c]
  BY DEF Preempt, Rest, At, Locked
<1> QED BY <1>1, <1>2, <1>3, <1>4, SwitchKeeps

LEMMA BackKeeps ==
  ASSUME IInv, NEW c \in Cores, NEW t, t = on[c], Back(c, t)
  PROVE  IInv'
<1> USE DEF IInv, Typed, TypeOK, SchedTypeOK
<1>1. /\ t \in Threads /\ pc[t] = "back" /\ phase[c] = "run"
      /\ pc' = [pc EXCEPT ![t] = "out"]
      /\ holds' = holds \cup {t}
      /\ was' = [was EXCEPT ![t] = FALSE]
      /\ UNCHANGED <<sem, readyQ, cores, next, flags, callerIF, signals>>
  BY DEF Back, At, RestoreIF, GoTo
<1>2. IF_' = [IF_ EXCEPT ![c] = ~was[t]] /\ IF_' \in [Cores -> BOOLEAN]
  <2>1. IF_' = [IF_ EXCEPT ![c] = ~was[t]]
    BY DEF Back, RestoreIF, SetIF
  <2> QED BY <2>1, Zenon
<1> USE DEF sem, cores
<1>3. Typed'
  BY <1>1, <1>2 DEF SchedulesSomebody, HandlerHasThread, Steps
<1>4. \A u \in Threads : (pc'[u] \in Locked <=> pc[u] \in Locked) /\ (pc'[u] = "block" => pc[u] = "block")
  BY <1>1 DEF Locked
<1>5. OneOwner' /\ TakenByOwner'
  BY <1>1, <1>4 DEF OneOwner, TakenByOwner
<1>6. OwnerRuns'
  <2>1. ASSUME NEW u \in Threads, pc'[u] \in Locked
        PROVE  \E d \in Cores : on'[d] = u /\ ~IF_'[d] /\ phase'[d] = "run"
    <3>1. PICK d \in Cores : on[d] = u /\ ~IF_[d] /\ phase[d] = "run"
      BY <2>1, <1>4 DEF OwnerRuns
    <3>2. d # c
      BY <1>1, <1>4, <2>1, <3>1 DEF Locked
    <3> QED BY <1>1, <1>2, <3>1, <3>2
  <2> QED BY <2>1, <1>1, <1>2 DEF OwnerRuns
<1>7. NoPermitForTheQueued' /\ NobodyWaitsForAPermit'
  BY <1>1, <1>4 DEF NoPermitForTheQueued, NobodyWaitsForAPermit
<1> QED BY <1>3, <1>5, <1>6, <1>7

LEMMA ScheduleKeeps ==
  ASSUME IInv, NEW c \in Cores, NEW t, t = on[c], Schedule(c, t)
  PROVE  IInv'
<1> USE DEF IInv, Typed, TypeOK, SchedTypeOK
<1>1. /\ t \in Threads /\ pc[t] = "schedule"
      /\ pc' = [pc EXCEPT ![t] = "out"]
      /\ next' = [next EXCEPT ![t] = None]
      /\ readyQ' = Append(readyQ, next[t])
      /\ UNCHANGED <<sem, cores, IF_, was, flags, history>>
  BY DEF Schedule, At, schedule, GoTo
<1>2. next[t] \in Threads
  BY <1>1 DEF SchedulesSomebody
<1>3. readyQ' \in Seq(Threads)
  BY <1>1, <1>2
<1> USE DEF sem, cores, history
<1>4. Typed'
  BY <1>1, <1>3 DEF SchedulesSomebody, HandlerHasThread, Steps
<1>5. \A u \in Threads : (pc'[u] \in Locked <=> pc[u] \in Locked) /\ (pc'[u] = "block" => pc[u] = "block")
  BY <1>1 DEF Locked
<1>6. OneOwner' /\ TakenByOwner' /\ OwnerRuns'
  BY <1>1, <1>5 DEF OneOwner, TakenByOwner, OwnerRuns
<1>7. NoPermitForTheQueued' /\ NobodyWaitsForAPermit'
  BY <1>1, <1>5 DEF NoPermitForTheQueued, NobodyWaitsForAPermit
<1> QED BY <1>4, <1>6, <1>7

-----------------------------------------------------------------------------

LEMMA StuttersKeep == IInv /\ UNCHANGED vars => IInv'
BY DEF vars, sched, cores, sem, history, IInv, Typed, TypeOK, SchedTypeOK, SchedulesSomebody,
       HandlerHasThread, OneOwner, TakenByOwner, OwnerRuns, NoPermitForTheQueued,
       NobodyWaitsForAPermit

(* A step keeps the invariant: one case per action.                        *)
LEMMA Inductive == IInv /\ [Next]_vars => IInv'
<1> SUFFICES ASSUME IInv, Next PROVE IInv'
  BY StuttersKeep
<1>1. PICK c \in Cores : Step(c, on[c])
  BY DEF Next
<1>2. CASE SemaphoreStep(c, on[c])
  BY <1>2, LockKeeps, OwnerKeeps, UnlockKeeps, BlockKeeps, BackKeeps, ScheduleKeeps DEF SemaphoreStep
<1>3. CASE CoreStep(c, on[c])
  BY <1>3, HandlerKeeps, PopfKeeps, DispatchKeeps DEF CoreStep
<1>4. CASE PreemptStep(c, on[c]) \/ RestStep(c, on[c])
  BY <1>4, GoToEndKeeps DEF PreemptStep, RestStep
<1>5. CASE CallDown(c, on[c]) \/ CallUp(c, on[c]) \/ ToggleIF(c, on[c])
  BY <1>5, OutsideKeeps
<1> QED BY <1>1, <1>2, <1>3, <1>4, <1>5 DEF Step

(* The invariant holds in all states of a semaphore.                       *)
THEOREM Invariance == Spec => []IInv
BY Initially, Inductive, PTL DEF Spec

(* No wake-up is lost: while there are permits nobody waits for one,       *)
(* although the waiter is queued on another thread's stack                 *)
(* (semaphore.h:31-38).                                                    *)
THEOREM NoWakeUpIsLost == Spec => []NobodyWaitsForAPermit
<1>1. IInv => NobodyWaitsForAPermit
  BY DEF IInv
<1> QED BY <1>1, Invariance, PTL

(* The lock of a semaphore, which down() keeps over a switch, is only held *)
(* on a core whose interrupts are off.                                     *)
OwnerIsUninterrupted ==
  taken => \E c \in Cores :
             ~IF_[c] /\ (phase[c] = "handler" \/ (on[c] # None /\ pc[on[c]] \in Locked))

(* Nobody spins on the owner's core for its lock, whatever the timer does. *)
THEOREM OwnerRunsUninterrupted == Spec => []OwnerIsUninterrupted
<1>1. IInv => OwnerIsUninterrupted
  BY SemaphoreAssumption
     DEF IInv, TakenByOwner, OwnerRuns, OwnerIsUninterrupted
<1> QED BY <1>1, Invariance, PTL

(* At most one thread or handler is between the exchange of ISL::lock()    *)
(* and the store of ISL::unlock() (atomic.h:250-269).                      *)
THEOREM SemaphoreExclusion == Spec => []OneOwner
<1>1. IInv => OneOwner
  BY DEF IInv
<1> QED BY <1>1, Invariance, PTL

-----------------------------------------------------------------------------

Ready == Elems(readyQ)
Waiting == Elems(waiting)

Apart ==
  /\ Once(readyQ) /\ Once(waiting)
  /\ \A c, d \in Cores : on[c] = on[d] /\ on[c] # None => c = d
  /\ \A c, d \in Cores : source[c] = source[d] /\ source[c] # None => c = d
  /\ \A u, v \in Threads : next[u] = next[v] /\ next[u] # None => u = v
  /\ Ready \cap Waiting = {}
  /\ \A c \in Cores : on[c] \notin Ready \cup Waiting /\ source[c] \notin Ready \cup Waiting
  /\ \A u \in Threads : next[u] \notin Ready \cup Waiting
  /\ \A c, d \in Cores : source[d] # None => on[c] # source[d]
  /\ \A u \in Threads, c \in Cores : next[u] # None => on[c] # next[u] /\ source[c] # next[u]

Somewhere ==
  \A t \in Threads : \/ t \in Ready \cup Waiting
                     \/ \E c \in Cores : on[c] = t \/ source[c] = t
                     \/ \E u \in Threads : next[u] = t

(* What a thread waits for in the place where it is.                       *)
Reasons ==
  /\ \A c \in Cores : source[c] # None => phase[c] = "handler" /\ pc[source[c]] = "back"
  /\ \A t \in Waiting : pc[t] = "back"
  /\ \A t \in Threads : next[t] # None => pc[t] \in {"unlock", "schedule"}
  /\ \A t \in holds : pc[t] \notin {"down", "test", "block", "back"}

PInv == IInv /\ Apart /\ Somewhere /\ Reasons

-----------------------------------------------------------------------------

LEMMA ThreadsOnly ==
  ASSUME IInv
  PROVE  /\ Ready \subseteq Threads /\ Waiting \subseteq Threads
         /\ None \notin Ready \cup Waiting
         /\ \A c \in Cores : on[c] \in Threads \cup {None} /\ source[c] \in Threads \cup {None}
         /\ \A t \in Threads : next[t] \in Threads \cup {None}
         /\ pc \in [Threads -> Steps] /\ holds \subseteq Threads
<1>1. readyQ \in Seq(Threads) /\ waiting \in Seq(Threads)
  BY DEF IInv, Typed, TypeOK, SchedTypeOK
<1>2. Ready \subseteq Threads /\ Waiting \subseteq Threads
  BY <1>1, LenProperties DEF Ready, Waiting, Elems
<1> QED BY <1>2, SemaphoreAssumption DEF IInv, Typed, TypeOK, SchedTypeOK

LEMMA PlacedInitially == Init => PInv
<1> SUFFICES ASSUME Init PROVE Apart /\ Somewhere /\ Reasons
  BY Initially DEF PInv
<1>1. /\ waiting = <<>> /\ holds = {}
      /\ \A c \in Cores : on[c] = None /\ source[c] = None
      /\ \A t \in Threads : next[t] = None
  BY DEF Init, SchedInit
<1>2. Cardinality(Threads) \in Nat
  BY SemaphoreAssumption, FS_CardinalityType
<1>3. PICK q \in [1..Cardinality(Threads) -> Threads] :
        {q[i] : i \in DOMAIN q} = Threads /\ readyQ = q
  BY DEF Init, SchedInit
<1>4. Ready = Threads /\ Waiting = {}
  BY <1>1, <1>3 DEF Ready, Waiting, Elems
<1>5. Once(readyQ)
  <2> DEFINE n == Cardinality(Threads)
  <2>1. q \in Surjection(1..n, Threads)
    BY <1>3 DEF Surjection
  <2>2. IsFiniteSet(1..n) /\ Cardinality(1..n) = n
    BY <1>2, FS_Interval
  <2>3. q \in Injection(1..n, Threads)
    BY <2>1, <2>2, FS_Surjection
  <2> QED BY <1>3, <2>3 DEF Injection, IsInjective, Once
<1> QED BY <1>1, <1>4, <1>5, SemaphoreAssumption DEF Apart, Somewhere, Reasons, Once

-----------------------------------------------------------------------------
(* A step of thread t in its own code, which no queue, core or handler     *)
(* notices.                                                                *)

LEMMA OwnCodeKeeps ==
  ASSUME PInv, IInv', NEW c \in Cores, NEW t \in Threads, t = on[c],
         UNCHANGED <<readyQ, on, source, waiting, next>>,
         \A d \in Cores : phase[d] = "handler" => phase'[d] = "handler",
         NEW s \in Steps, pc' = [pc EXCEPT ![t] = s],
         next[t] # None => s \in {"unlock", "schedule"},
         holds' \subseteq holds \cup {t},
         t \in holds' => s \notin {"down", "test", "block", "back"}
  PROVE  PInv'
<1> USE DEF PInv
<1>1. \A u \in Threads : pc'[u] = IF u = t THEN s ELSE pc[u]
  BY ThreadsOnly
<1>2. Ready' = Ready /\ Waiting' = Waiting
  BY DEF Ready, Waiting
<1>3. Apart' /\ Somewhere'
  BY <1>2 DEF Apart, Somewhere
<1>4. t \notin Waiting /\ \A d \in Cores : source[d] # t
  BY ThreadsOnly, SemaphoreAssumption DEF Apart
<1>5. Reasons'
  <2>1. \A d \in Cores : source'[d] # None => phase'[d] = "handler" /\ pc'[source'[d]] = "back"
    BY <1>1, <1>4, ThreadsOnly DEF Reasons
  <2>2. \A u \in Waiting' : pc'[u] = "back"
    BY <1>1, <1>2, <1>4, ThreadsOnly DEF Reasons
  <2>3. \A u \in Threads : next'[u] # None => pc'[u] \in {"unlock", "schedule"}
    BY <1>1 DEF Reasons
  <2>4. \A u \in holds' : pc'[u] \notin {"down", "test", "block", "back"}
    BY <1>1, ThreadsOnly DEF Reasons
  <2> QED BY <2>1, <2>2, <2>3, <2>4 DEF Reasons
<1> QED BY <1>3, <1>5

LEMMA OwnSteps ==
  ASSUME PInv, IInv', NEW c \in Cores, NEW t, t = on[c],
         \/ ToggleIF(c, t) \/ CallDown(c, t) \/ CallUp(c, t) \/ DownLock(c, t) \/ UpLock(c, t)
         \/ Test(c, t) \/ Leave(c, t) \/ UpUnlock(c, t) \/ Back(c, t)
  PROVE  PInv'
<1> USE DEF cores, sem, history
<1>1. t \in Threads
  BY ThreadsOnly DEF PInv, ToggleIF, CallDown, CallUp, DownLock, UpLock, Test, Leave, UpUnlock, Back, At
<1>2. next[t] # None => pc[t] \in {"unlock", "schedule"}
  BY <1>1 DEF PInv, Reasons
<1>3. t \in holds => pc[t] \notin {"down", "test", "block", "back"}
  BY DEF PInv, Reasons
<1>4. {"out", "down", "up", "test", "take", "leave", "block", "schedule"} \subseteq Steps
  BY DEF Steps
<1> DEFINE Goes(s) ==
      /\ UNCHANGED <<readyQ, on, phase, source, waiting, next>>
      /\ pc' = [pc EXCEPT ![t] = s]
<1>5. ASSUME NEW s \in Steps, Goes(s), next[t] # None => s \in {"unlock", "schedule"},
             holds' \subseteq holds \cup {t},
             t \in holds' => s \notin {"down", "test", "block", "back"}
      PROVE  PInv'
  BY <1>1, <1>5, OwnCodeKeeps
<1> HIDE DEF Goes
<1>6. CASE ToggleIF(c, t)
  <2>1. /\ pc[t] = "out" /\ pc' = pc /\ holds' = holds
        /\ UNCHANGED <<readyQ, on, phase, source, waiting, next>>
    BY <1>6 DEF ToggleIF, At
  <2>2. pc = [pc EXCEPT ![t] = "out"]
    BY <1>1, <2>1, ThreadsOnly DEF PInv
  <2>3. Goes("out")
    BY <2>1, <2>2 DEF Goes
  <2> QED BY <1>2, <1>4, <1>5, <2>1, <2>3
<1>7. CASE CallDown(c, t)
  <2>1. pc[t] = "out" /\ Goes("down") /\ holds' = holds /\ t \notin holds
    BY <1>7 DEF CallDown, At, GoTo, Goes
  <2> QED BY <1>2, <1>4, <1>5, <2>1
<1>8. CASE CallUp(c, t)
  <2>1. pc[t] = "out" /\ Goes("up") /\ holds' = holds
    BY <1>8 DEF CallUp, At, GoTo, Goes
  <2> QED BY <1>2, <1>4, <1>5, <2>1
<1>9. CASE DownLock(c, t)
  <2>1. pc[t] = "down" /\ Goes("test") /\ holds' = holds
    BY <1>9 DEF DownLock, Lock, At, GoTo, Goes
  <2> QED BY <1>2, <1>3, <1>4, <1>5, <2>1
<1>10. CASE UpLock(c, t)
  <2>1. pc[t] = "up" /\ Goes("take") /\ holds' = holds
    BY <1>10 DEF UpLock, Lock, At, GoTo, Goes
  <2> QED BY <1>2, <1>4, <1>5, <2>1
<1>11. CASE Test(c, t)
  <2>1. /\ pc[t] = "test"
        /\ \/ Goes("leave") /\ holds' = holds \cup {t}
           \/ Goes("block") /\ holds' = holds
    BY <1>11 DEF Test, At, GoTo, Goes
  <2> QED BY <1>2, <1>3, <1>4, <1>5, <2>1
<1>12. CASE Leave(c, t)
  <2>1. pc[t] = "leave" /\ Goes("out") /\ holds' = holds
    BY <1>12 DEF Leave, At, GoTo, Goes
  <2> QED BY <1>2, <1>4, <1>5, <2>1
<1>13. CASE UpUnlock(c, t)
  <2>1. /\ pc[t] = "unlock" /\ holds' = holds
        /\ Goes(IF next[t] = None THEN "out" ELSE "schedule")
    BY <1>13 DEF UpUnlock, At, GoTo, Goes
  <2> QED BY <1>4, <1>5, <2>1
<1>14. CASE Back(c, t)
  <2>1. pc[t] = "back" /\ Goes("out") /\ holds' = holds \cup {t}
    BY <1>14 DEF Back, At, GoTo, Goes
  <2> QED BY <1>2, <1>4, <1>5, <2>1
<1> QED BY <1>6, <1>7, <1>8, <1>9, <1>10, <1>11, <1>12, <1>13, <1>14

-----------------------------------------------------------------------------
(* The steps that move threads from place to place.                        *)

(* The core turns to the head of the ready queue, or to its idle thread.   *)
LEMMA TurnsTo ==
  ASSUME PInv, NEW r, NEW h,
         r = (IF readyQ = <<>> THEN <<>> ELSE Tail(readyQ)),
         h = (IF readyQ = <<>> THEN None ELSE Head(readyQ))
  PROVE  /\ r \in Seq(Threads) /\ Once(r) /\ Elems(r) = Ready \ {h}
         /\ h \in Threads \cup {None} /\ (h # None => h \in Ready)
<1>1. readyQ \in Seq(Threads) /\ Once(readyQ) /\ None \notin Threads
  BY SemaphoreAssumption DEF PInv, IInv, Typed, TypeOK, SchedTypeOK, Apart
<1>2. CASE readyQ = <<>>
  BY <1>1, <1>2 DEF Ready, Elems, Once
<1>3. CASE readyQ # <<>>
  BY <1>1, <1>3, Removed DEF Ready
<1> QED BY <1>2, <1>3

LEMMA BlockMoves ==
  ASSUME PInv, IInv', NEW c \in Cores, NEW t, t = on[c], Block(c, t)
  PROVE  PInv'
<1> USE DEF PInv
<1>1. /\ t \in Threads /\ pc[t] = "block" /\ phase[c] = "run"
      /\ pc' = [pc EXCEPT ![t] = "back"]
      /\ phase' = [phase EXCEPT ![c] = "handler"]
      /\ source' = [source EXCEPT ![c] = t]
      /\ on' = [on EXCEPT ![c] = IF readyQ = <<>> THEN None ELSE Head(readyQ)]
      /\ readyQ' = IF readyQ = <<>> THEN <<>> ELSE Tail(readyQ)
      /\ UNCHANGED <<waiting, next, holds>>
  BY ThreadsOnly DEF Block, At, block, SwitchFrom, GoTo, sem, history
<1>2. PICK h : h = IF readyQ = <<>> THEN None ELSE Head(readyQ)
  OBVIOUS
<1>3. /\ Once(readyQ') /\ Ready' = Ready \ {h} /\ Waiting' = Waiting
      /\ h \in Threads \cup {None} /\ (h # None => h \in Ready)
  BY <1>1, <1>2, TurnsTo DEF Ready, Waiting
<1>4. \A d \in Cores : /\ on'[d] = IF d = c THEN h ELSE on[d]
                       /\ source'[d] = IF d = c THEN t ELSE source[d]
                       /\ phase'[d] = IF d = c THEN "handler" ELSE phase[d]
  <2>1. on' = [on EXCEPT ![c] = h]
    BY <1>1, <1>2
  <2>2. DOMAIN on = Cores /\ DOMAIN source = Cores /\ DOMAIN phase = Cores
    BY DEF IInv, Typed, TypeOK, SchedTypeOK
  <2> QED BY <1>1, <2>1, <2>2
<1>5. \A u \in Threads : pc'[u] = IF u = t THEN "back" ELSE pc[u]
  BY <1>1, ThreadsOnly
<1>6. source[c] = None /\ t # None
  BY <1>1, SemaphoreAssumption DEF Reasons
<1>7. t \notin Ready \cup Waiting /\ next[t] = None
  BY <1>1 DEF Apart, Reasons
<1>8. Apart'
  <2> USE DEF Apart
  <2>1. Once(readyQ') /\ Once(waiting') /\ Ready' \cap Waiting' = {}
    BY <1>1, <1>3
  <2>2. \A d, e \in Cores : on'[d] = on'[e] /\ on'[d] # None => d = e
    BY <1>3, <1>4
  <2>3. \A d, e \in Cores : source'[d] = source'[e] /\ source'[d] # None => d = e
    BY <1>1, <1>4, <1>6
  <2>4. \A u, v \in Threads : next'[u] = next'[v] /\ next'[u] # None => u = v
    BY <1>1
  <2>5. \A d \in Cores : on'[d] \notin Ready' \cup Waiting' /\ source'[d] \notin Ready' \cup Waiting'
    <3>1. h \notin Ready' \cup Waiting' /\ t \notin Ready' \cup Waiting'
      BY <1>3, <1>7, ThreadsOnly
    <3>2. \A d \in Cores : on[d] \notin Ready' \cup Waiting' /\ source[d] \notin Ready' \cup Waiting'
      BY <1>3
    <3>3. \A d \in Cores : on'[d] \in {h, on[d]} /\ source'[d] \in {t, source[d]}
      BY <1>4
    <3> QED BY <3>1, <3>2, <3>3
  <2>6. \A u \in Threads : next'[u] \notin Ready' \cup Waiting'
    BY <1>1, <1>3
  <2>7. \A d, e \in Cores : source'[e] # None => on'[d] # source'[e]
    BY <1>1, <1>3, <1>4, <1>6, <1>7
  <2>8. \A u \in Threads, d \in Cores : next'[u] # None => on'[d] # next'[u] /\ source'[d] # next'[u]
    BY <1>1, <1>3, <1>4
  <2> QED BY <2>1, <2>2, <2>3, <2>4, <2>5, <2>6, <2>7, <2>8
<1>9. Somewhere'
  <2> SUFFICES ASSUME NEW u \in Threads
               PROVE  \/ u \in Ready' \cup Waiting'
                      \/ \E d \in Cores : on'[d] = u \/ source'[d] = u
                      \/ \E v \in Threads : next'[v] = u
    BY DEF Somewhere
  <2>1. CASE u = t
    BY <1>4, <2>1
  <2>2. CASE u # t /\ u \in Ready \cup Waiting
    BY <1>3, <1>4, <2>2
  <2>3. CASE u # t /\ u \notin Ready \cup Waiting
    BY <1>1, <1>4, <1>6, <2>3, SemaphoreAssumption DEF Somewhere
  <2> QED BY <2>1, <2>2, <2>3
<1>10. Reasons'
  <2>1. \A d \in Cores : source'[d] # None => phase'[d] = "handler" /\ pc'[source'[d]] = "back"
    <3> SUFFICES ASSUME NEW d \in Cores, source'[d] # None
                 PROVE  phase'[d] = "handler" /\ pc'[source'[d]] = "back"
      OBVIOUS
    <3>1. CASE d = c
      BY <1>1, <1>4, <1>5, <3>1
    <3>2. CASE d # c
      BY <1>4, <1>5, <3>2, ThreadsOnly DEF Reasons
    <3> QED BY <3>1, <3>2
  <2>2. \A u \in Waiting' : pc'[u] = "back"
    BY <1>3, <1>5, ThreadsOnly DEF Reasons
  <2>3. \A u \in Threads : next'[u] # None => pc'[u] \in {"unlock", "schedule"}
    BY <1>1, <1>5, <1>7 DEF Reasons
  <2>4. \A u \in holds' : pc'[u] \notin {"down", "test", "block", "back"}
    BY <1>1, <1>5, ThreadsOnly DEF Reasons
  <2> QED BY <2>1, <2>2, <2>3, <2>4 DEF Reasons
<1> QED BY <1>8, <1>9, <1>10

LEMMA HandlerMoves ==
  ASSUME PInv, IInv', NEW c \in Cores, Handler(c)
  PROVE  PInv'
<1> USE DEF PInv
<1>1. /\ phase[c] = "handler"
      /\ phase' = [phase EXCEPT ![c] = "popf"]
      /\ source' = [source EXCEPT ![c] = None]
      /\ waiting' = Append(waiting, source[c])
      /\ UNCHANGED <<readyQ, on, pc, next, holds>>
  BY DEF Handler, HandlerReturns, history
<1>2. PICK s \in Threads : s = source[c]
  BY <1>1 DEF IInv, Typed, TypeOK, SchedTypeOK, HandlerHasThread
<1>3. s # None /\ s \notin Ready \cup Waiting /\ pc[s] = "back"
  BY <1>2, SemaphoreAssumption DEF Apart, Reasons
<1>4. Ready' = Ready /\ Waiting' = Waiting \cup {s} /\ Once(waiting')
  <2>1. waiting \in Seq(Threads)
    BY DEF IInv, Typed, TypeOK
  <2> QED BY <1>1, <1>2, <1>3, <2>1, Appended DEF Ready, Waiting, Apart
<1>5. \A d \in Cores : /\ source'[d] = IF d = c THEN None ELSE source[d]
                       /\ phase'[d] = IF d = c THEN "popf" ELSE phase[d]
  BY <1>1 DEF IInv, Typed, TypeOK, SchedTypeOK
<1>6. Apart'
  <2> USE DEF Apart
  <2>1. Once(readyQ') /\ Once(waiting') /\ Ready' \cap Waiting' = {}
    BY <1>1, <1>3, <1>4
  <2>2. /\ \A d, e \in Cores : on'[d] = on'[e] /\ on'[d] # None => d = e
        /\ \A d, e \in Cores : source'[d] = source'[e] /\ source'[d] # None => d = e
    BY <1>1, <1>5
  <2>3. \A u, v \in Threads : next'[u] = next'[v] /\ next'[u] # None => u = v
    BY <1>1
  <2>4. \A d \in Cores : on'[d] \notin Ready' \cup Waiting' /\ source'[d] \notin Ready' \cup Waiting'
    BY <1>1, <1>2, <1>3, <1>4, <1>5, ThreadsOnly
  <2>5. \A u \in Threads : next'[u] \notin Ready' \cup Waiting'
    BY <1>1, <1>2, <1>3, <1>4
  <2>6. \A d, e \in Cores : source'[e] # None => on'[d] # source'[e]
    BY <1>1, <1>5
  <2>7. \A u \in Threads, d \in Cores : next'[u] # None => on'[d] # next'[u] /\ source'[d] # next'[u]
    BY <1>1, <1>5
  <2> QED BY <2>1, <2>2, <2>3, <2>4, <2>5, <2>6, <2>7
<1>7. Somewhere'
  BY <1>1, <1>2, <1>4, <1>5 DEF Somewhere
<1>8. Reasons'
  BY <1>1, <1>2, <1>3, <1>4, <1>5 DEF Reasons, Apart
<1> QED BY <1>6, <1>7, <1>8

LEMMA TakeMoves ==
  ASSUME PInv, IInv', NEW c \in Cores, NEW t, t = on[c], Take(c, t)
  PROVE  PInv'
<1> USE DEF PInv
<1>1. /\ t \in Threads /\ pc[t] = "take" /\ pc' = [pc EXCEPT ![t] = "unlock"]
      /\ holds' = holds \ {t}
      /\ UNCHANGED <<readyQ, on, phase, source>>
  BY ThreadsOnly DEF Take, At, GoTo, cores
<1>2. \A u \in Threads : pc'[u] = IF u = t THEN "unlock" ELSE pc[u]
  BY <1>1, ThreadsOnly
<1>3. t # None /\ next[t] = None /\ t \notin Waiting /\ \A d \in Cores : source[d] # t
  BY <1>1, SemaphoreAssumption DEF Apart, Reasons
<1>4. CASE waiting = <<>>
  <2>1. UNCHANGED <<waiting, next>> /\ "unlock" \in Steps
    BY <1>4 DEF Take, Steps
  <2>2. t \notin holds'
    BY <1>1
  <2> QED BY <1>1, <1>3, <2>1, <2>2, OwnCodeKeeps
<1>5. CASE waiting # <<>>
  <2>1. PICK h : h = Head(waiting)
    OBVIOUS
  <2>2. next' = [next EXCEPT ![t] = h] /\ waiting' = Tail(waiting)
    BY <1>5, <2>1 DEF Take
  <2>3. /\ h \in Waiting /\ h \in Threads /\ h # None
        /\ Ready' = Ready /\ Waiting' = Waiting \ {h} /\ Once(waiting')
    <3>1. waiting \in Seq(Threads) /\ Once(waiting)
      BY DEF IInv, Typed, TypeOK, Apart
    <3> QED BY <1>1, <1>5, <2>1, <2>2, <3>1, Removed, SemaphoreAssumption DEF Ready, Waiting
  <2>4. \A u \in Threads : next'[u] = IF u = t THEN h ELSE next[u]
    BY <2>2 DEF IInv, Typed, TypeOK
  <2>5. Apart'
    <3> USE DEF Apart
    <3>1. Once(readyQ') /\ Once(waiting') /\ Ready' \cap Waiting' = {}
      BY <1>1, <2>3
    <3>2. /\ \A d, e \in Cores : on'[d] = on'[e] /\ on'[d] # None => d = e
          /\ \A d, e \in Cores : source'[d] = source'[e] /\ source'[d] # None => d = e
      BY <1>1
    <3>3. \A u \in Threads : next[u] # h
      BY <2>3
    <3>4. \A u, v \in Threads : next'[u] = next'[v] /\ next'[u] # None => u = v
      BY <2>4, <3>3
    <3>5. \A d \in Cores : on'[d] \notin Ready' \cup Waiting' /\ source'[d] \notin Ready' \cup Waiting'
      BY <1>1, <2>3
    <3>6. \A u \in Threads : next'[u] \notin Ready' \cup Waiting'
      BY <2>3, <2>4
    <3>7. \A d, e \in Cores : source'[e] # None => on'[d] # source'[e]
      BY <1>1
    <3>8. \A d \in Cores : on[d] # h /\ source[d] # h
      BY <2>3
    <3>9. \A u \in Threads, d \in Cores : next'[u] # None => on'[d] # next'[u] /\ source'[d] # next'[u]
      BY <1>1, <2>4, <3>8
    <3> QED BY <3>1, <3>2, <3>4, <3>5, <3>6, <3>7, <3>9
  <2>6. Somewhere'
    <3> SUFFICES ASSUME NEW u \in Threads
                 PROVE  \/ u \in Ready' \cup Waiting'
                        \/ \E d \in Cores : on'[d] = u \/ source'[d] = u
                        \/ \E v \in Threads : next'[v] = u
      BY DEF Somewhere
    <3>1. CASE u = h
      BY <1>1, <2>4, <3>1
    <3>2. CASE u # h /\ \E v \in Threads : next[v] = u
      <4>1. PICK v \in Threads : next[v] = u
        BY <3>2
      <4>2. v # t
        BY <1>3, <4>1, SemaphoreAssumption
      <4> QED BY <2>4, <4>1, <4>2
    <3>3. CASE u # h /\ ~\E v \in Threads : next[v] = u
      BY <1>1, <2>3, <3>3 DEF Somewhere
    <3> QED BY <3>1, <3>2, <3>3
  <2>7. Reasons'
    <3>1. \A d \in Cores : source'[d] # None => phase'[d] = "handler" /\ pc'[source'[d]] = "back"
      BY <1>1, <1>2, <1>3, ThreadsOnly DEF Reasons
    <3>2. \A u \in Waiting' : pc'[u] = "back"
      BY <1>2, <1>3, <2>3, ThreadsOnly DEF Reasons
    <3>3. \A u \in Threads : next'[u] # None => pc'[u] \in {"unlock", "schedule"}
      BY <1>2, <2>4 DEF Reasons
    <3>4. \A u \in holds' : pc'[u] \notin {"down", "test", "block", "back"}
      BY <1>1, <1>2, ThreadsOnly DEF Reasons
    <3> QED BY <3>1, <3>2, <3>3, <3>4 DEF Reasons
  <2> QED BY <2>5, <2>6, <2>7
<1> QED BY <1>4, <1>5

LEMMA ScheduleMoves ==
  ASSUME PInv, IInv', NEW c \in Cores, NEW t, t = on[c], Schedule(c, t)
  PROVE  PInv'
<1> USE DEF PInv
<1>1. /\ t \in Threads /\ pc[t] = "schedule" /\ pc' = [pc EXCEPT ![t] = "out"]
      /\ next' = [next EXCEPT ![t] = None] /\ readyQ' = Append(readyQ, next[t])
      /\ UNCHANGED <<waiting, on, phase, source, holds>>
  BY ThreadsOnly DEF Schedule, schedule, At, GoTo, cores, sem, history
<1>2. PICK h \in Threads : h = next[t]
  BY <1>1 DEF IInv, Typed, TypeOK, SchedulesSomebody
<1>3. h # None /\ h \notin Ready \cup Waiting
  BY <1>1, <1>2, SemaphoreAssumption DEF Apart
<1>4. Ready' = Ready \cup {h} /\ Waiting' = Waiting /\ Once(readyQ')
  <2>1. readyQ \in Seq(Threads)
    BY DEF IInv, Typed, TypeOK, SchedTypeOK
  <2> QED BY <1>1, <1>2, <1>3, <2>1, Appended DEF Ready, Waiting, Apart
<1>5. \A u \in Threads : /\ next'[u] = IF u = t THEN None ELSE next[u]
                         /\ pc'[u] = IF u = t THEN "out" ELSE pc[u]
  BY <1>1, ThreadsOnly DEF IInv, Typed, TypeOK
<1>6. Apart'
  <2> USE DEF Apart
  <2>1. Once(readyQ') /\ Once(waiting') /\ Ready' \cap Waiting' = {}
    BY <1>1, <1>3, <1>4
  <2>2. /\ \A d, e \in Cores : on'[d] = on'[e] /\ on'[d] # None => d = e
        /\ \A d, e \in Cores : source'[d] = source'[e] /\ source'[d] # None => d = e
    BY <1>1
  <2>3. \A u, v \in Threads : next'[u] = next'[v] /\ next'[u] # None => u = v
    BY <1>5
  <2>4. \A d \in Cores : on[d] # h /\ source[d] # h
    BY <1>1, <1>2, <1>3
  <2>5. \A d \in Cores : on'[d] \notin Ready' \cup Waiting' /\ source'[d] \notin Ready' \cup Waiting'
    BY <1>1, <1>4, <2>4
  <2>6. \A u \in Threads : next'[u] \notin Ready' \cup Waiting'
    BY <1>1, <1>2, <1>3, <1>4, <1>5, ThreadsOnly
  <2>7. \A d, e \in Cores : source'[e] # None => on'[d] # source'[e]
    BY <1>1
  <2>8. \A u \in Threads, d \in Cores : next'[u] # None => on'[d] # next'[u] /\ source'[d] # next'[u]
    BY <1>1, <1>5
  <2> QED BY <2>1, <2>2, <2>3, <2>5, <2>6, <2>7, <2>8
<1>7. Somewhere'
  BY <1>1, <1>2, <1>4, <1>5 DEF Somewhere
<1>8. \A d \in Cores : source[d] # t
  BY <1>1, <1>3, SemaphoreAssumption DEF Apart
<1>9. Reasons'
  <2>1. \A d \in Cores : source'[d] # None => phase'[d] = "handler" /\ pc'[source'[d]] = "back"
    BY <1>1, <1>5, <1>8, ThreadsOnly DEF Reasons
  <2>2. \A u \in Waiting' : pc'[u] = "back"
    BY <1>1, <1>4, <1>5, ThreadsOnly DEF Reasons, Apart
  <2>3. \A u \in Threads : next'[u] # None => pc'[u] \in {"unlock", "schedule"}
    BY <1>5 DEF Reasons
  <2>4. \A u \in holds' : pc'[u] \notin {"down", "test", "block", "back"}
    BY <1>1, <1>5, ThreadsOnly DEF Reasons
  <2> QED BY <2>1, <2>2, <2>3, <2>4 DEF Reasons
<1> QED BY <1>6, <1>7, <1>9

(* The core turns to thread h, and the one that it leaves is ready again.  *)
LEMMA SwitchMoves ==
  ASSUME PInv, IInv', NEW c \in Cores, NEW h \in Threads, h \in Ready,
         on' = [on EXCEPT ![c] = h], Once(readyQ'),
         Ready' = IF on[c] = None THEN Ready \ {h} ELSE (Ready \ {h}) \cup {on[c]},
         \A d \in Cores : phase[d] = "handler" => phase'[d] = "handler",
         UNCHANGED <<waiting, next, holds, source, pc>>
  PROVE  PInv'
<1> USE DEF PInv
<1>1. \A d \in Cores : on'[d] = IF d = c THEN h ELSE on[d]
  BY DEF IInv, Typed, TypeOK, SchedTypeOK
<1>2. PICK t : t = on[c]
  OBVIOUS
<1>3. /\ h # None /\ h \notin Waiting /\ h \notin Ready'
      /\ \A d \in Cores : on[d] # h /\ source[d] # h
      /\ \A u \in Threads : next[u] # h
  BY SemaphoreAssumption DEF Apart
<1>4. t # None => /\ t \notin Ready \cup Waiting
                  /\ \A d \in Cores : source[d] # t /\ (d # c => on[d] # t)
                  /\ \A u \in Threads : next[u] # t
  BY <1>2, ThreadsOnly, SemaphoreAssumption DEF Apart
<1>5. Waiting' = Waiting /\ Ready' \subseteq (Ready \ {h}) \cup {t} /\ (t = None => t \notin Ready')
  BY <1>2, ThreadsOnly DEF Waiting
<1>6. Apart'
  <2> USE DEF Apart
  <2>1. Once(readyQ') /\ Once(waiting')
    OBVIOUS
  <2>2. Ready' \cap Waiting' = {}
    BY <1>4, <1>5, ThreadsOnly
  <2>3. \A d, e \in Cores : on'[d] = on'[e] /\ on'[d] # None => d = e
    BY <1>1, <1>3
  <2>4. \A d, e \in Cores : source'[d] = source'[e] /\ source'[d] # None => d = e
    OBVIOUS
  <2>5. \A u, v \in Threads : next'[u] = next'[v] /\ next'[u] # None => u = v
    OBVIOUS
  <2>6. \A d \in Cores : on'[d] \notin Ready' \cup Waiting'
    <3> SUFFICES ASSUME NEW d \in Cores PROVE on'[d] \notin Ready' \cup Waiting'
      OBVIOUS
    <3>1. CASE d = c
      BY <1>1, <1>3, <1>5, <3>1
    <3>2. CASE d # c
      BY <1>1, <1>4, <1>5, <3>2
    <3> QED BY <3>1, <3>2
  <2>7. \A d \in Cores : source'[d] \notin Ready' \cup Waiting'
    BY <1>4, <1>5
  <2>8. \A u \in Threads : next'[u] \notin Ready' \cup Waiting'
    BY <1>4, <1>5
  <2>9. \A d, e \in Cores : source'[e] # None => on'[d] # source'[e]
    BY <1>1, <1>3
  <2>10. \A u \in Threads, d \in Cores : next'[u] # None => on'[d] # next'[u] /\ source'[d] # next'[u]
    BY <1>1, <1>3
  <2> QED BY <2>1, <2>2, <2>3, <2>4, <2>5, <2>6, <2>7, <2>8, <2>9, <2>10
<1>7. Somewhere'
  <2> SUFFICES ASSUME NEW u \in Threads
               PROVE  \/ u \in Ready' \cup Waiting'
                      \/ \E d \in Cores : on'[d] = u \/ source'[d] = u
                      \/ \E v \in Threads : next'[v] = u
    BY DEF Somewhere
  <2>1. CASE u = h
    BY <1>1, <2>1
  <2>2. CASE u = t
    BY <1>2, <2>2, SemaphoreAssumption
  <2>3. CASE u # h /\ u # t
    BY <1>1, <1>2, <1>5, <2>3 DEF Somewhere
  <2> QED BY <2>1, <2>2, <2>3
<1>8. Reasons'
  BY <1>5 DEF Reasons
<1> QED BY <1>6, <1>7, <1>8

LEMMA CoreMoves ==
  ASSUME PInv, IInv', NEW c \in Cores, UNCHANGED <<sem, was, next, history>>,
         Popf(c, on[c]) \/ Dispatch(c, on[c]) \/ Preempt(c, on[c]) \/ Rest(c, on[c])
  PROVE  PInv'
<1> USE DEF sem, history
<1>1. readyQ \in Seq(Threads) /\ Once(readyQ) /\ phase \in [Cores -> {"run", "popf", "handler"}]
  BY DEF PInv, IInv, Typed, TypeOK, SchedTypeOK, Apart
<1>2. CASE Popf(c, on[c])
  <2>1. /\ phase[c] = "popf" /\ phase' = [phase EXCEPT ![c] = "run"]
        /\ UNCHANGED <<readyQ, on, source, pc>>
    BY <1>2 DEF Popf
  <2>2. \A d \in Cores : phase[d] = "handler" => phase'[d] = "handler"
    BY <1>1, <2>1
  <2>3. Apart' /\ Somewhere'
    BY <2>1 DEF PInv, Apart, Somewhere, Ready, Waiting
  <2>4. Reasons'
    BY <2>1, <2>2 DEF PInv, Reasons, Waiting
  <2> QED BY <2>3, <2>4 DEF PInv
<1>3. CASE Dispatch(c, on[c])
  <2>1. /\ on[c] = None /\ phase[c] = "run" /\ phase' = [phase EXCEPT ![c] = "popf"]
        /\ readyQ # <<>> /\ on' = [on EXCEPT ![c] = Head(readyQ)] /\ readyQ' = Tail(readyQ)
        /\ UNCHANGED <<source, pc>>
    BY <1>3 DEF Dispatch
  <2>2. \A d \in Cores : phase[d] = "handler" => phase'[d] = "handler"
    BY <1>1, <2>1
  <2>3. /\ Head(readyQ) \in Threads /\ Head(readyQ) \in Ready
        /\ Ready' = Ready \ {Head(readyQ)} /\ Once(readyQ')
    BY <1>1, <2>1, Removed DEF Ready
  <2> QED BY <2>1, <2>2, <2>3, SwitchMoves
<1>4. CASE Preempt(c, on[c]) \/ Rest(c, on[c])
  <2>1. /\ on[c] # None /\ phase[c] = "run" /\ phase' = [phase EXCEPT ![c] = "popf"]
        /\ readyQ # <<>> /\ on' = [on EXCEPT ![c] = Head(readyQ)]
        /\ readyQ' = Append(Tail(readyQ), on[c])
        /\ UNCHANGED <<source, pc>>
    BY <1>4 DEF Preempt, Rest, At, GoToEnd, SwitchFrom
  <2>2. \A d \in Cores : phase[d] = "handler" => phase'[d] = "handler"
    BY <1>1, <2>1
  <2>3. /\ Head(readyQ) \in Threads /\ Head(readyQ) \in Ready /\ Tail(readyQ) \in Seq(Threads)
        /\ Elems(Tail(readyQ)) = Ready \ {Head(readyQ)} /\ Once(Tail(readyQ))
    BY <1>1, <2>1, Removed DEF Ready
  <2>4. on[c] \in Threads /\ on[c] \notin Ready
    BY <2>1, ThreadsOnly DEF PInv, Apart
  <2>5. Ready' = (Ready \ {Head(readyQ)}) \cup {on[c]} /\ Once(readyQ')
    <3>1. on[c] \notin Elems(Tail(readyQ))
      BY <2>3, <2>4
    <3>2. /\ Elems(Append(Tail(readyQ), on[c])) = Elems(Tail(readyQ)) \cup {on[c]}
          /\ Once(Append(Tail(readyQ), on[c]))
      BY <2>3, <2>4, <3>1, Appended
    <3> QED BY <2>1, <2>3, <3>2 DEF Ready
  <2> QED BY <2>1, <2>2, <2>3, <2>5, SwitchMoves
<1> QED BY <1>2, <1>3, <1>4

-----------------------------------------------------------------------------

LEMMA PlacesInductive == PInv /\ [Next]_vars => PInv'
<1> SUFFICES ASSUME PInv, [Next]_vars PROVE PInv'
  OBVIOUS
<1>1. IInv'
  BY Inductive DEF PInv
<1>2. CASE UNCHANGED vars
  BY <1>1, <1>2 DEF PInv, Apart, Somewhere, Reasons, Ready, Waiting, vars, sched, cores, sem, history
<1>3. CASE Next
  <2>1. PICK c \in Cores : Step(c, on[c])
    BY <1>3 DEF Next
  <2>2. CASE SemaphoreStep(c, on[c])
    BY <1>1, <2>2, OwnSteps, BlockMoves, TakeMoves, ScheduleMoves DEF SemaphoreStep
  <2>3. CASE CoreStep(c, on[c]) \/ PreemptStep(c, on[c]) \/ RestStep(c, on[c])
    BY <1>1, <2>3, HandlerMoves, CoreMoves DEF CoreStep, PreemptStep, RestStep
  <2>4. CASE CallDown(c, on[c]) \/ CallUp(c, on[c]) \/ ToggleIF(c, on[c])
    BY <1>1, <2>4, OwnSteps
  <2> QED BY <2>1, <2>2, <2>3, <2>4 DEF Step
<1> QED BY <1>2, <1>3

LEMMA PlacesInvariance == Spec => []PInv
BY PlacedInitially, PlacesInductive, PTL DEF Spec

(* A thread that uses a semaphore is in one queue, on one core, about to   *)
(* be queued by one handler, or in the hands of one up() (semaphore.h:31,  *)
(* 48-55).                                                                 *)
THEOREM EveryThreadIsInOnePlace == Spec => []OneThreadOnePlace
<1>1. PInv => OneThreadOnePlace
  <2> SUFFICES ASSUME PInv, NEW t \in Threads
               PROVE  Cardinality(SchedPlaces(t) \cup Queued(t, waiting)
                        \cup {<<"next", u>> : u \in {v \in Threads : next[v] = t}}) = 1
    BY DEF OneThreadOnePlace, PInv, IInv, Typed
  <2> DEFINE P == SchedPlaces(t) \cup Queued(t, waiting)
                    \cup {<<"next", u>> : u \in {v \in Threads : next[v] = t}}
             In(p) == \/ \E i \in DOMAIN readyQ : p = <<"ready", i>> /\ readyQ[i] = t
                      \/ \E i \in DOMAIN waiting : p = <<"wait", i>> /\ waiting[i] = t
                      \/ \E c \in Cores : p = <<"on", c>> /\ on[c] = t
                      \/ \E c \in Cores : p = <<"source", c>> /\ source[c] = t
                      \/ \E u \in Threads : p = <<"next", u>> /\ next[u] = t
  <2>1. \A p : p \in P <=> In(p)
    BY DEF SchedPlaces, Queued
  <2>2. t # None
    BY SemaphoreAssumption
  <2>3. \A p, q : In(p) /\ In(q) => p = q
    BY <2>2 DEF PInv, Apart, Ready, Waiting, Elems, Once
  <2>4. \E p : In(p)
    BY DEF PInv, Somewhere, Ready, Waiting, Elems
  <2>5. PICK p : P = {p}
    BY <2>1, <2>3, <2>4
  <2> QED BY <2>5, FS_Singleton
<1> QED BY <1>1, PlacesInvariance, PTL

-----------------------------------------------------------------------------
(* The semaphore implements CountingSemaphore.                             *)

IsGranted(t) == pc[t] = "back" /\ t \notin Waiting /\ \A c \in Cores : source[c] # t

LEMMA GrantedSet ==
  /\ Granted = {t \in Threads : IsGranted(t)}
  /\ IsFiniteSet(Granted) /\ Cardinality(Granted) \in Nat
<1>1. Granted = {t \in Threads : IsGranted(t)}
  BY DEF Granted, IsGranted, Waiting, Elems
<1>2. Granted \subseteq Threads
  BY <1>1
<1> QED BY <1>1, <1>2, SemaphoreAssumption, FS_Subset, FS_CardinalityType

(* Of these steps the callers of down() and up() see nothing.              *)
LEMMA Unseen ==
  ASSUME PInv, NEW c \in Cores,
         \/ Handler(c)
         \/ \E t \in Threads \cup {None} :
              /\ t = on[c]
              /\ \/ ToggleIF(c, t) \/ CallDown(c, t) \/ CallUp(c, t) \/ DownLock(c, t) \/ UpLock(c, t)
                 \/ Leave(c, t) \/ UpUnlock(c, t) \/ Block(c, t) \/ Schedule(c, t)
         \/ PreemptStep(c, on[c]) \/ RestStep(c, on[c])
         \/ (Popf(c, on[c]) \/ Dispatch(c, on[c])) /\ UNCHANGED <<sem, was, next, history>>
  PROVE  UNCHANGED <<count, holds, Granted>>
<1> USE DEF cores, sem, history
<1>1. ASSUME UNCHANGED <<pc, waiting, source>> PROVE Granted' = Granted
  BY <1>1 DEF Granted
<1>2. ASSUME NEW t \in Threads, NEW s, s # "back", pc[t] # "back",
             pc' = [pc EXCEPT ![t] = s], UNCHANGED <<waiting, source>>
      PROVE  Granted' = Granted
  <2>1. \A u \in Threads : pc'[u] = "back" <=> pc[u] = "back"
    BY <1>2, ThreadsOnly DEF PInv
  <2> QED BY <1>2, <2>1 DEF Granted
<1>3. CASE Handler(c)
  <2>1. /\ phase[c] = "handler" /\ source' = [source EXCEPT ![c] = None]
        /\ waiting' = Append(waiting, source[c]) /\ UNCHANGED <<count, pc, holds>>
    BY <1>3 DEF Handler, HandlerReturns
  <2>2. source[c] \in Threads /\ waiting \in Seq(Threads)
    BY <2>1 DEF PInv, IInv, Typed, TypeOK, SchedTypeOK, HandlerHasThread
  <2>3. Waiting' = Waiting \cup {source[c]}
    BY <2>1, <2>2, Appended DEF Waiting
  <2>4. \A d \in Cores : source'[d] = IF d = c THEN None ELSE source[d]
    BY <2>1 DEF PInv, IInv, Typed, TypeOK, SchedTypeOK
  <2>5. \A u \in Threads : IsGranted(u)' <=> IsGranted(u)
    BY <2>1, <2>3, <2>4, SemaphoreAssumption DEF IsGranted
  <2>6. Granted' = {u \in Threads : IsGranted(u)'}
    BY DEF Granted, IsGranted, Waiting, Elems
  <2> QED BY <2>1, <2>5, <2>6, GrantedSet
<1>4. ASSUME NEW t \in Threads \cup {None}, t = on[c],
             \/ ToggleIF(c, t) \/ CallDown(c, t) \/ CallUp(c, t) \/ DownLock(c, t) \/ UpLock(c, t)
             \/ Leave(c, t) \/ UpUnlock(c, t) \/ Schedule(c, t)
      PROVE  UNCHANGED <<count, holds, Granted>>
  <2>1. /\ t \in Threads /\ pc[t] # "back"
        /\ pc' = pc \/ \E s : s # "back" /\ pc' = [pc EXCEPT ![t] = s]
        /\ UNCHANGED <<waiting, source, count, holds>>
    BY <1>4 DEF ToggleIF, CallDown, CallUp, DownLock, UpLock, Leave, UpUnlock, Schedule, Lock, At, GoTo
  <2> QED BY <1>1, <1>2, <2>1
<1>5. ASSUME NEW t \in Threads \cup {None}, t = on[c], Block(c, t)
      PROVE  UNCHANGED <<count, holds, Granted>>
  <2>1. /\ t \in Threads /\ pc[t] = "block" /\ phase[c] = "run"
        /\ pc' = [pc EXCEPT ![t] = "back"] /\ source' = [source EXCEPT ![c] = t]
        /\ UNCHANGED <<waiting, count, holds>>
    BY <1>5 DEF Block, block, At, GoTo
  <2>2. /\ \A d \in Cores : source'[d] = IF d = c THEN t ELSE source[d]
        /\ \A u \in Threads : pc'[u] = IF u = t THEN "back" ELSE pc[u]
    BY <2>1, ThreadsOnly DEF PInv, IInv, Typed, TypeOK, SchedTypeOK
  <2>3. source[c] = None
    BY <2>1 DEF PInv, Reasons
  <2>4. \A u \in Threads : IsGranted(u)' <=> IsGranted(u)
    BY <2>1, <2>2, <2>3, SemaphoreAssumption DEF IsGranted, Waiting
  <2>5. Granted' = {u \in Threads : IsGranted(u)'}
    BY DEF Granted, IsGranted, Waiting, Elems
  <2> QED BY <2>1, <2>4, <2>5, GrantedSet
<1>6. CASE \/ PreemptStep(c, on[c]) \/ RestStep(c, on[c])
           \/ (Popf(c, on[c]) \/ Dispatch(c, on[c])) /\ UNCHANGED <<sem, was, next, history>>
  BY <1>1, <1>6 DEF PreemptStep, RestStep, Preempt, Rest, GoToEnd, Popf, Dispatch
<1> QED BY <1>3, <1>4, <1>5, <1>6

LEMMA TestTakesAPermit ==
  ASSUME PInv, NEW c \in Cores, NEW t \in Threads, t = on[c], Test(c, t)
  PROVE  Permits!Down(t) \/ UNCHANGED Permits!vars
<1>1. /\ pc[t] = "test" /\ UNCHANGED <<waiting, source>>
      /\ \A u \in Threads : pc'[u] = "back" <=> pc[u] = "back"
  BY ThreadsOnly DEF Test, At, GoTo, cores, PInv
<1>2. Granted' = Granted
  BY <1>1 DEF Granted
<1>3. count \in Nat /\ t \notin holds
  BY <1>1 DEF PInv, IInv, Typed, TypeOK, Reasons
<1>4. CASE count = 0
  BY <1>2, <1>4 DEF Test, Permits!vars
<1>5. CASE count # 0
  <2>1. count' = count - 1 /\ holds' = holds \cup {t} /\ count > 0
    BY <1>3, <1>5 DEF Test
  <2> QED BY <1>2, <1>3, <2>1, GrantedSet DEF Permits!Down
<1> QED BY <1>4, <1>5

LEMMA BackTakesItsPermit ==
  ASSUME PInv, NEW c \in Cores, NEW t \in Threads, t = on[c], Back(c, t)
  PROVE  Permits!Down(t)
<1>1. /\ pc[t] = "back" /\ pc' = [pc EXCEPT ![t] = "out"] /\ holds' = holds \cup {t}
      /\ UNCHANGED <<waiting, source, count>>
  BY DEF Back, At, GoTo, cores, sem
<1>2. \A u \in Threads : pc'[u] = IF u = t THEN "out" ELSE pc[u]
  BY <1>1, ThreadsOnly DEF PInv
<1>3. t \in Granted
  BY <1>1, GrantedSet, SemaphoreAssumption DEF IsGranted, PInv, Apart
<1>4. Granted' = Granted \ {t}
  BY <1>1, <1>2 DEF Granted
<1>5. Cardinality(Granted') = Cardinality(Granted) - 1 /\ Cardinality(Granted) # 0
  <2>1. Cardinality(Granted \ {t}) = Cardinality(Granted) - 1
    BY <1>3, GrantedSet, FS_RemoveElement
  <2>2. Cardinality(Granted) # 0
    BY <1>3, GrantedSet, FS_EmptySet
  <2> QED BY <1>4, <2>1, <2>2
<1>6. count \in Nat /\ t \notin holds
  BY <1>1 DEF PInv, IInv, Typed, TypeOK, Reasons
<1> QED BY <1>1, <1>5, <1>6, GrantedSet DEF Permits!Down

LEMMA TakeGivesAPermit ==
  ASSUME PInv, NEW c \in Cores, NEW t \in Threads, t = on[c], Take(c, t)
  PROVE  Permits!Up(t)
<1>1. /\ pc[t] = "take" /\ holds' = holds \ {t} /\ UNCHANGED source
      /\ \A u \in Threads : pc'[u] = "back" <=> pc[u] = "back"
  BY ThreadsOnly DEF Take, At, GoTo, cores, PInv
<1>2. count \in Nat
  BY DEF PInv, IInv, Typed, TypeOK
<1>3. CASE waiting = <<>>
  <2>1. count' = count + 1 /\ waiting' = waiting
    BY <1>3 DEF Take
  <2>2. Granted' = Granted
    BY <1>1, <2>1 DEF Granted
  <2> QED BY <1>1, <1>2, <2>1, <2>2, GrantedSet DEF Permits!Up
<1>4. CASE waiting # <<>>
  <2>1. PICK h : h = Head(waiting)
    OBVIOUS
  <2>2. count' = count /\ waiting' = Tail(waiting)
    BY <1>4 DEF Take
  <2>3. waiting \in Seq(Threads) /\ Once(waiting)
    BY DEF PInv, IInv, Typed, TypeOK, Apart
  <2>4. h \in Threads /\ h \in Waiting /\ Waiting' = Waiting \ {h}
    BY <1>4, <2>1, <2>2, <2>3, Removed DEF Waiting
  <2>5. pc[h] = "back" /\ \A d \in Cores : source[d] # h
    BY <2>4 DEF PInv, Reasons, Apart
  <2>6. \A u \in Threads : IsGranted(u)' <=> IsGranted(u) \/ u = h
    BY <1>1, <2>4, <2>5 DEF IsGranted
  <2>7. Granted' = {u \in Threads : IsGranted(u)'}
    BY DEF Granted, IsGranted, Waiting, Elems
  <2>8. Granted' = Granted \cup {h} /\ h \notin Granted
    BY <2>4, <2>6, <2>7, GrantedSet DEF IsGranted
  <2>9. Cardinality(Granted') = Cardinality(Granted) + 1
    BY <2>8, GrantedSet, FS_AddElement
  <2> QED BY <1>1, <1>2, <2>2, <2>9, GrantedSet DEF Permits!Up
<1> QED BY <1>3, <1>4

LEMMA PermitStep == PInv /\ [Next]_vars => [Permits!Next]_(Permits!vars)
<1> SUFFICES ASSUME PInv, [Next]_vars PROVE Permits!Next \/ UNCHANGED Permits!vars
  OBVIOUS
<1>1. CASE UNCHANGED vars
  BY <1>1 DEF vars, sched, cores, sem, history, Permits!vars, Granted
<1>2. CASE Next
  <2>1. PICK c \in Cores : Step(c, on[c])
    BY <1>2 DEF Next
  <2>2. PICK t \in Threads \cup {None} : t = on[c]
    BY ThreadsOnly DEF PInv
  <2>3. CASE Test(c, on[c])
    <3>1. t \in Threads /\ Test(c, t)
      BY <2>2, <2>3 DEF Test, At, GoTo
    <3> QED BY <2>2, <3>1, TestTakesAPermit DEF Permits!Next
  <2>4. CASE Back(c, on[c])
    <3>1. t \in Threads /\ Back(c, t)
      BY <2>2, <2>4 DEF Back, At, RestoreIF, GoTo
    <3> QED BY <2>2, <3>1, BackTakesItsPermit DEF Permits!Next
  <2>5. CASE Take(c, on[c])
    <3>1. t \in Threads /\ Take(c, t)
      BY <2>2, <2>5 DEF Take, At, GoTo
    <3> QED BY <2>2, <3>1, TakeGivesAPermit DEF Permits!Next
  <2>6. CASE ~Test(c, on[c]) /\ ~Back(c, on[c]) /\ ~Take(c, on[c])
    <3>1. UNCHANGED <<count, holds, Granted>>
      BY <2>1, <2>2, <2>6, Unseen DEF Step, SemaphoreStep, CoreStep
    <3> QED BY <3>1 DEF Permits!vars
  <2> QED BY <2>3, <2>4, <2>5, <2>6
<1> QED BY <1>1, <1>2

(* A permit is taken once for every time that it is there: neither is one  *)
(* counted that up() has passed on to a waiter, nor is one lost on the way *)
(* to it (semaphore.h:45-55).                                              *)
THEOREM SemaphoreCounts == Spec => ImplementsCountingSemaphore
<1>1. Init => Permits!Init
  <2> SUFFICES ASSUME Init PROVE Permits!Init
    OBVIOUS
  <2>1. Granted = {} /\ count = Initial /\ holds = {}
    BY DEF Init, SchedInit, Granted
  <2> QED BY <2>1, FS_EmptySet, SemaphoreAssumption DEF Permits!Init
<1> QED BY <1>1, PermitStep, PlacesInvariance, PTL DEF Spec, ImplementsCountingSemaphore, Permits!Spec

-----------------------------------------------------------------------------
(* down() and up() leave interrupts as they were.                          *)

OwnCode == {"out", "down", "up", "schedule"}

IsOffStack(t) == \A c \in Cores : on[c] = t => phase[c] # "run"

(* What the caller wants is in the flag of the core that it runs on, on    *)
(* its stack while it is away, and in its local while it has the lock.     *)
Kept ==
  /\ \A c \in Cores : on[c] # None /\ phase[c] = "run" /\ pc[on[c]] \in OwnCode
                        => (IF_[c] <=> callerIF[on[c]])
  /\ \A t \in Threads : pc[t] \in OwnCode /\ IsOffStack(t) => (flags[t] <=> callerIF[t])
  /\ \A t \in Threads : pc[t] \in Locked \cup {"back"} => (was[t] <=> ~callerIF[t])

LEMMA OwnStepRestores ==
  ASSUME PInv, Kept, NEW c \in Cores, NEW t \in Threads, t = on[c], phase[c] = "run",
         UNCHANGED <<on, phase, flags>>,
         \A u \in Threads : u # t => /\ pc'[u] = pc[u] /\ was'[u] = was[u]
                                    /\ callerIF'[u] = callerIF[u],
         \A d \in Cores : d # c => IF_'[d] = IF_[d],
         pc'[t] # "back",
         pc'[t] \in OwnCode => (IF_'[c] <=> callerIF'[t]),
         pc'[t] \in Locked => (was'[t] <=> ~callerIF'[t])
  PROVE  Kept'
<1>1. \A d \in Cores : d # c => on[d] # t
  BY SemaphoreAssumption DEF PInv, Apart
<1>2. \A d \in Cores : on'[d] # None /\ phase'[d] = "run" /\ pc'[on'[d]] \in OwnCode
                       => (IF_'[d] <=> callerIF'[on'[d]])
  <2> SUFFICES ASSUME NEW d \in Cores, on'[d] # None, phase'[d] = "run", pc'[on'[d]] \in OwnCode
               PROVE  IF_'[d] <=> callerIF'[on'[d]]
    OBVIOUS
  <2>1. CASE d = c
    BY <2>1
  <2>2. CASE d # c
    <3>1. on[d] \in Threads /\ on[d] # t
      BY <1>1, <2>2, ThreadsOnly DEF PInv
    <3> QED BY <2>2, <3>1 DEF Kept
  <2> QED BY <2>1, <2>2
<1>3. \A u \in Threads : pc'[u] \in OwnCode /\ IsOffStack(u)' => (flags'[u] <=> callerIF'[u])
  BY DEF Kept, IsOffStack
<1>4. \A u \in Threads : pc'[u] \in Locked \cup {"back"} => (was'[u] <=> ~callerIF'[u])
  BY DEF Kept
<1> QED BY <1>2, <1>3, <1>4 DEF Kept

LEMMA OwnStepsRestore ==
  ASSUME PInv, Kept, NEW c \in Cores, NEW t, t = on[c],
         \/ ToggleIF(c, t) \/ CallDown(c, t) \/ CallUp(c, t) \/ DownLock(c, t) \/ UpLock(c, t)
         \/ Test(c, t) \/ Leave(c, t) \/ Take(c, t) \/ UpUnlock(c, t) \/ Schedule(c, t) \/ Back(c, t)
  PROVE  Kept'
<1> USE DEF cores, sem, history
<1>1. t \in Threads /\ phase[c] = "run" /\ UNCHANGED <<on, phase, flags>>
  BY ThreadsOnly
     DEF PInv, ToggleIF, CallDown, CallUp, DownLock, UpLock, Test, Leave, Take, UpUnlock, Schedule, Back, At
<1>2. /\ IF_ \in [Cores -> BOOLEAN] /\ was \in [Threads -> BOOLEAN]
      /\ callerIF \in [Threads -> BOOLEAN] /\ pc \in [Threads -> Steps]
  BY DEF PInv, IInv, Typed, TypeOK, SchedTypeOK
<1>3. pc[t] \in OwnCode => (IF_[c] <=> callerIF[t])
  BY <1>1, SemaphoreAssumption DEF Kept
<1>4. pc[t] \in Locked \cup {"back"} => (was[t] <=> ~callerIF[t])
  BY <1>1 DEF Kept
<1> USE DEF At, GoTo, SetIF, OwnCode, Locked
<1>5. CASE ToggleIF(c, t)
  <2>1. /\ pc' = pc /\ was' = was /\ pc[t] = "out" /\ IF_' = [IF_ EXCEPT ![c] = ~IF_[c]]
        /\ callerIF' = [callerIF EXCEPT ![t] = ~IF_[c]]
    BY <1>5 DEF ToggleIF
  <2>2. IF_'[c] <=> callerIF'[t]
    BY <1>1, <1>2, <2>1
  <2> QED BY <1>1, <1>2, <2>1, <2>2, OwnStepRestores
<1>6. CASE CallDown(c, t) \/ CallUp(c, t) \/ Schedule(c, t)
  <2>1. /\ UNCHANGED <<was, callerIF, IF_>> /\ pc[t] \in OwnCode
        /\ \A u \in Threads : u # t => pc'[u] = pc[u]
        /\ pc'[t] \in OwnCode
    BY <1>1, <1>2, <1>6 DEF CallDown, CallUp, Schedule
  <2> QED BY <1>1, <1>3, <2>1, OwnStepRestores
<1>7. CASE DownLock(c, t) \/ UpLock(c, t)
  <2>1. /\ IF_' = [IF_ EXCEPT ![c] = FALSE] /\ was' = [was EXCEPT ![t] = ~IF_[c]]
        /\ callerIF' = callerIF /\ pc[t] \in OwnCode
        /\ \A u \in Threads : u # t => pc'[u] = pc[u]
        /\ pc'[t] \in {"test", "take"}
    BY <1>1, <1>2, <1>7 DEF DownLock, UpLock, Lock
  <2>2. was'[t] <=> ~callerIF'[t]
    BY <1>1, <1>2, <1>3, <2>1
  <2> QED BY <1>1, <1>2, <2>1, <2>2, OwnStepRestores
<1>8. CASE Test(c, t) \/ Take(c, t)
  <2>1. /\ UNCHANGED <<was, callerIF, IF_>> /\ pc[t] \in Locked
        /\ \A u \in Threads : u # t => pc'[u] = pc[u]
        /\ pc'[t] \in {"leave", "block", "unlock"}
    BY <1>1, <1>2, <1>8 DEF Test, Take
  <2> QED BY <1>1, <1>4, <2>1, OwnStepRestores
<1>9. CASE Leave(c, t) \/ UpUnlock(c, t) \/ Back(c, t)
  <2>1. /\ IF_' = [IF_ EXCEPT ![c] = ~was[t]] /\ was' = [was EXCEPT ![t] = FALSE]
        /\ callerIF' = callerIF /\ pc[t] \in Locked \cup {"back"}
        /\ \A u \in Threads : u # t => pc'[u] = pc[u]
        /\ pc'[t] \in {"out", "schedule"}
    BY <1>1, <1>2, <1>9 DEF Leave, UpUnlock, Back, Unlock, RestoreIF
  <2>2. IF_'[c] <=> callerIF'[t]
    BY <1>1, <1>2, <1>4, <2>1
  <2> QED BY <1>1, <1>2, <2>1, <2>2, OwnStepRestores
<1> QED BY <1>5, <1>6, <1>7, <1>8, <1>9

(* Thread t, if it is one, leaves the core to thread h, if it is one.      *)
LEMMA TurnRestores ==
  ASSUME PInv, Kept, NEW c \in Cores, NEW t \in Threads \cup {None}, t = on[c], phase[c] = "run",
         NEW h \in Ready \cup {None}, on' = [on EXCEPT ![c] = h],
         NEW p \in {"popf", "handler"}, phase' = [phase EXCEPT ![c] = p],
         \A d \in Cores : d # c => IF_'[d] = IF_[d],
         \A u \in Threads : u # t => flags'[u] = flags[u] /\ pc'[u] = pc[u],
         t # None => flags'[t] = IF_[c] /\ pc'[t] \in {pc[t], "back"},
         pc'[t] = "back" => pc[t] \in Locked \cup {"back"},
         UNCHANGED <<was, callerIF>>
  PROVE  Kept'
<1>1. \A d \in Cores : /\ on'[d] = IF d = c THEN h ELSE on[d]
                       /\ phase'[d] = IF d = c THEN p ELSE phase[d]
  BY DEF PInv, IInv, Typed, TypeOK, SchedTypeOK
<1>2. \A d \in Cores : d # c => on[d] # t \/ on[d] = None
  BY DEF PInv, Apart
<1>3. \A d \in Cores : on'[d] # None /\ phase'[d] = "run" /\ pc'[on'[d]] \in OwnCode
                       => (IF_'[d] <=> callerIF'[on'[d]])
  <2> SUFFICES ASSUME NEW d \in Cores, on'[d] # None, phase'[d] = "run", pc'[on'[d]] \in OwnCode
               PROVE  IF_'[d] <=> callerIF'[on'[d]]
    OBVIOUS
  <2>1. d # c
    BY <1>1
  <2>2. on'[d] = on[d] /\ on[d] \in Threads /\ on[d] # t
    BY <1>1, <1>2, <2>1, ThreadsOnly DEF PInv
  <2> QED BY <1>1, <2>1, <2>2 DEF Kept
<1>4. ASSUME NEW u \in Threads, pc'[u] \in OwnCode, IsOffStack(u)'
      PROVE  flags'[u] <=> callerIF'[u]
  <2>1. CASE u = t
    <3>1. pc[t] \in OwnCode /\ t # None
      BY <1>4, <2>1, SemaphoreAssumption DEF OwnCode
    <3>2. IF_[c] <=> callerIF[t]
      BY <3>1 DEF Kept
    <3> QED BY <2>1, <3>1, <3>2
  <2>2. CASE u # t
    <3>1. IsOffStack(u)
      BY <1>1, <1>4, <2>2 DEF IsOffStack
    <3> QED BY <1>4, <2>2, <3>1 DEF Kept
  <2> QED BY <2>1, <2>2
<1>5. \A u \in Threads : pc'[u] \in Locked \cup {"back"} => (was'[u] <=> ~callerIF'[u])
  <2> SUFFICES ASSUME NEW u \in Threads, pc'[u] \in Locked \cup {"back"}
               PROVE  pc[u] \in Locked \cup {"back"}
    BY DEF Kept
  <2> QED BY SemaphoreAssumption
<1> QED BY <1>3, <1>4, <1>5 DEF Kept

LEMMA SwitchesRestore ==
  ASSUME PInv, Kept, NEW c \in Cores,
         \/ Block(c, on[c]) \/ PreemptStep(c, on[c]) \/ RestStep(c, on[c])
         \/ Dispatch(c, on[c]) /\ UNCHANGED <<sem, was, next, history>>
  PROVE  Kept'
<1> USE DEF sem, history
<1>1. PICK t \in Threads \cup {None} : t = on[c]
  BY ThreadsOnly DEF PInv
<1>2. PICK h : h = IF readyQ = <<>> THEN None ELSE Head(readyQ)
  OBVIOUS
<1>3. h \in Ready \cup {None}
  BY <1>2, TurnsTo
<1>4. /\ IF_ \in [Cores -> BOOLEAN] /\ flags \in [Threads -> BOOLEAN] /\ pc \in [Threads -> Steps]
      /\ phase \in [Cores -> {"run", "popf", "handler"}]
  BY DEF PInv, IInv, Typed, TypeOK, SchedTypeOK
<1>5. /\ phase[c] = "run" /\ on' = [on EXCEPT ![c] = h] /\ IF_' = [IF_ EXCEPT ![c] = FALSE]
      /\ UNCHANGED <<was, callerIF>>
  BY <1>2 DEF Block, block, PreemptStep, RestStep, Preempt, Rest, GoToEnd, Dispatch, SwitchFrom, At, SetIF
<1>6. \A d \in Cores : d # c => IF_'[d] = IF_[d]
  BY <1>4, <1>5
<1>7. CASE Block(c, on[c])
  <2>1. /\ t \in Threads /\ pc[t] = "block" /\ pc' = [pc EXCEPT ![t] = "back"]
        /\ flags' = [flags EXCEPT ![t] = IF_[c]] /\ phase' = [phase EXCEPT ![c] = "handler"]
    BY <1>1, <1>7 DEF Block, block, SwitchFrom, At, GoTo
  <2>2. pc[t] \in Locked
    BY <2>1 DEF Locked
  <2>3. /\ \A u \in Threads : u # t => flags'[u] = flags[u] /\ pc'[u] = pc[u]
        /\ flags'[t] = IF_[c] /\ pc'[t] = "back"
    BY <1>4, <2>1
  <2> QED BY <1>1, <1>3, <1>5, <1>6, <2>1, <2>2, <2>3, TurnRestores
<1>8. CASE PreemptStep(c, on[c]) \/ RestStep(c, on[c])
  <2>1. /\ t \in Threads /\ pc' = pc /\ flags' = [flags EXCEPT ![t] = IF_[c]]
        /\ phase' = [phase EXCEPT ![c] = "popf"]
    BY <1>1, <1>8 DEF PreemptStep, RestStep, Preempt, Rest, GoToEnd, SwitchFrom, At
  <2>2. (\A u \in Threads : u # t => flags'[u] = flags[u]) /\ flags'[t] = IF_[c]
    BY <1>4, <2>1
  <2> QED BY <1>1, <1>3, <1>5, <1>6, <2>1, <2>2, TurnRestores
<1>9. CASE Dispatch(c, on[c])
  <2>1. t = None /\ pc' = pc /\ flags' = flags /\ phase' = [phase EXCEPT ![c] = "popf"]
    BY <1>1, <1>9 DEF Dispatch
  <2>2. CASE pc[None] # "back"
    BY <1>1, <1>3, <1>5, <1>6, <2>1, <2>2, TurnRestores
  <2>3. CASE pc[None] = "back"
    BY <1>1, <1>3, <1>5, <1>6, <2>1, <2>3, TurnRestores
  <2> QED BY <2>2, <2>3
<1> QED BY <1>7, <1>8, <1>9

LEMMA ReturnsRestore ==
  ASSUME PInv, Kept, NEW c \in Cores,
         \/ Handler(c)
         \/ Popf(c, on[c]) /\ UNCHANGED <<sem, was, next, history>>
  PROVE  Kept'
<1> USE DEF history
<1>1. /\ IF_ \in [Cores -> BOOLEAN] /\ flags \in [Threads -> BOOLEAN] /\ callerIF \in [Threads -> BOOLEAN]
      /\ phase \in [Cores -> {"run", "popf", "handler"}] /\ on \in [Cores -> Threads \cup {None}]
  BY DEF PInv, IInv, Typed, TypeOK, SchedTypeOK
<1>2. CASE Handler(c)
  <2>1. /\ phase[c] = "handler" /\ phase' = [phase EXCEPT ![c] = "popf"]
        /\ IF_' = [IF_ EXCEPT ![c] = FALSE]
        /\ UNCHANGED <<on, pc, was, flags, callerIF>>
    BY <1>2 DEF Handler, HandlerReturns, SetIF
  <2>2. \A d \in Cores : phase'[d] = "run" <=> phase[d] = "run"
    BY <1>1, <2>1
  <2>3. \A d \in Cores : phase[d] = "run" => IF_'[d] = IF_[d]
    BY <1>1, <2>1
  <2> QED BY <2>1, <2>2, <2>3 DEF Kept, IsOffStack
<1>3. CASE Popf(c, on[c]) /\ UNCHANGED <<sem, was, next, history>>
  <2>1. PICK t \in Threads \cup {None} : t = on[c]
    BY <1>1
  <2>2. /\ phase[c] = "popf" /\ phase' = [phase EXCEPT ![c] = "run"]
        /\ IF_' = [IF_ EXCEPT ![c] = (t = None \/ flags[t])]
        /\ flags' = [u \in Threads |-> u = t \/ flags[u]]
        /\ UNCHANGED <<on, pc, was, callerIF>>
    BY <1>3, <2>1 DEF Popf, SetIF
  <2>3. /\ \A d \in Cores : d # c => IF_'[d] = IF_[d] /\ phase'[d] = phase[d]
        /\ phase'[c] = "run"
    BY <1>1, <2>2
  <2>4. t # None => (IF_'[c] <=> flags[t])
    BY <1>1, <2>2
  <2>5. \A u \in Threads : u # t => (flags'[u] <=> flags[u])
    BY <1>1, <2>2
  <2>6. t # None => IsOffStack(t)
    BY <2>1, <2>2 DEF PInv, Apart, IsOffStack
  <2>7. \A u \in Threads : IsOffStack(u)' => IsOffStack(u) /\ u # t
    BY <2>1, <2>2, <2>3, SemaphoreAssumption DEF IsOffStack
  <2>8. \A d \in Cores : on'[d] # None /\ phase'[d] = "run" /\ pc'[on'[d]] \in OwnCode
                         => (IF_'[d] <=> callerIF'[on'[d]])
    BY <2>1, <2>2, <2>3, <2>4, <2>6 DEF Kept
  <2> QED BY <2>2, <2>5, <2>7, <2>8 DEF Kept
<1> QED BY <1>2, <1>3

LEMMA RestoringInductive == PInv /\ Kept /\ [Next]_vars => Kept'
<1> SUFFICES ASSUME PInv, Kept, [Next]_vars PROVE Kept'
  OBVIOUS
<1>1. CASE UNCHANGED vars
  BY <1>1 DEF Kept, IsOffStack, vars, sched, cores, sem, history
<1>2. CASE Next
  <2>1. PICK c \in Cores : Step(c, on[c])
    BY <1>2 DEF Next
  <2>2. CASE SemaphoreStep(c, on[c]) \/ CallDown(c, on[c]) \/ CallUp(c, on[c]) \/ ToggleIF(c, on[c])
    BY <2>2, OwnStepsRestore, SwitchesRestore DEF SemaphoreStep
  <2>3. CASE CoreStep(c, on[c]) \/ PreemptStep(c, on[c]) \/ RestStep(c, on[c])
    BY <2>3, SwitchesRestore, ReturnsRestore DEF CoreStep
  <2> QED BY <2>1, <2>2, <2>3 DEF Step
<1> QED BY <1>1, <1>2

(* The lock is only held with interrupts off, and down() and up() give     *)
(* their caller its interrupt flag back, although the thread may have been *)
(* on another core in between (semaphore.h:24, 41, 52).                    *)
THEOREM InterruptsAreRestored == Spec => []RestoresInterrupts
<1>1. Init => Kept
  <2> SUFFICES ASSUME Init PROVE Kept
    OBVIOUS
  <2>1. /\ on = [c \in Cores |-> None] /\ flags = [t \in Threads |-> TRUE]
        /\ callerIF = [t \in Threads |-> TRUE] /\ pc = [t \in Threads |-> "out"]
    BY DEF Init, SchedInit
  <2> QED BY <2>1 DEF Kept, Locked
<1>2. PInv /\ Kept => RestoresInterrupts
  <2> SUFFICES ASSUME PInv, Kept PROVE RestoresInterrupts
    OBVIOUS
  <2>1. /\ IF_ \in [Cores -> BOOLEAN] /\ callerIF \in [Threads -> BOOLEAN]
        /\ on \in [Cores -> Threads \cup {None}]
    BY DEF PInv, IInv, Typed, TypeOK, SchedTypeOK
  <2>2. taken => \E c \in Cores : ~IF_[c] /\ (phase[c] = "handler" \/ (on[c] # None /\ pc[on[c]] \in Locked))
    BY SemaphoreAssumption DEF PInv, IInv, TakenByOwner, OwnerRuns
  <2>3. ASSUME NEW c \in Cores, on[c] # None, phase[c] = "run", pc[on[c]] = "out"
        PROVE  IF_[c] = callerIF[on[c]]
    <3>1. IF_[c] <=> callerIF[on[c]]
      BY <2>3 DEF Kept, OwnCode
    <3>2. IF_[c] \in BOOLEAN /\ callerIF[on[c]] \in BOOLEAN
      BY <2>1, <2>3
    <3> QED BY <3>1, <3>2
  <2> QED BY <2>2, <2>3 DEF RestoresInterrupts
<1> QED BY <1>1, <1>2, RestoringInductive, PlacesInvariance, PTL DEF Spec

=============================================================================
