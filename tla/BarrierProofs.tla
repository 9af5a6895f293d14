--------------------------- MODULE BarrierProofs ---------------------------
(***************************************************************************)
(* That a reusable barrier misses no signal and implements rounds, and     *)
(* that interrupts follow its lock, for any number of threads and cores    *)
(* and groups of any size.                                                 *)
(***************************************************************************)
EXTENDS ReusableBarrier, SequenceTheorems, FiniteSetTheorems, TLAPS

(* Queues in which nobody is twice, with what joins at the end and leaves  *)
(* at the head.                                                            *)
Elems(q) == {q[i] : i \in DOMAIN q}
Once(q) == \A i, j \in DOMAIN q : q[i] = q[j] => i = j

(* What comes to the end of a queue is added to it.                        *)
LEMMA Appended ==
  ASSUME NEW S, NEW q \in Seq(S), NEW x \in S
  PROVE  /\ Elems(Append(q, x)) = Elems(q) \cup {x}
         /\ Once(q) /\ x \notin Elems(q) => Once(Append(q, x))
<1>1. /\ Len(q) \in Nat /\ DOMAIN q = 1..Len(q)
      /\ DOMAIN Append(q, x) = 1..Len(q) \cup {Len(q) + 1}
      /\ \A i \in 1..Len(q) : Append(q, x)[i] = q[i]
      /\ Append(q, x)[Len(q) + 1] = x
  BY AppendProperties, LenProperties
<1>2. Elems(Append(q, x)) = Elems(q) \cup {x}
  BY <1>1 DEF Elems
<1>3. Once(q) /\ x \notin Elems(q) => Once(Append(q, x))
  BY <1>1 DEF Elems, Once
<1> QED BY <1>2, <1>3

(* What leaves a queue at its head is in it no more.                       *)
LEMMA Removed ==
  ASSUME NEW S, NEW q \in Seq(S), q # <<>>, Once(q)
  PROVE  /\ Tail(q) \in Seq(S) /\ Head(q) \in S /\ Head(q) \in Elems(q)
         /\ Elems(Tail(q)) = Elems(q) \ {Head(q)} /\ Once(Tail(q))
<1>1. /\ Head(q) = q[1] /\ Head(q) \in S /\ Tail(q) \in Seq(S)
      /\ Len(q) \in Nat /\ Len(q) # 0 /\ DOMAIN q = 1..Len(q)
      /\ DOMAIN Tail(q) = 1..(Len(q) - 1)
      /\ \A i \in 1..(Len(q) - 1) : Tail(q)[i] = q[i + 1]
  BY HeadTailProperties, LenProperties, EmptySeq
<1>2. 1 \in DOMAIN q /\ \A i \in 1..(Len(q) - 1) : i + 1 \in DOMAIN q /\ i + 1 # 1
  BY <1>1
<1>3. Once(Tail(q))
  BY <1>1, <1>2 DEF Once
<1>4. ASSUME NEW x \in Elems(q), x # Head(q) PROVE x \in Elems(Tail(q))
  <2>1. PICK i \in DOMAIN q : x = q[i]
    BY <1>4 DEF Elems
  <2>2. i - 1 \in DOMAIN Tail(q) /\ Tail(q)[i - 1] = x
    BY <1>1, <1>4, <2>1
  <2> QED BY <2>2 DEF Elems
<1>5. ASSUME NEW x \in Elems(Tail(q)) PROVE x \in Elems(q) /\ x # Head(q)
  <2>1. PICK i \in 1..(Len(q) - 1) : x = Tail(q)[i]
    BY <1>1, <1>5 DEF Elems
  <2>2. i + 1 \in DOMAIN q /\ q[i + 1] = x /\ i + 1 # 1
    BY <1>1, <1>2, <2>1
  <2> QED BY <1>1, <1>2, <2>2 DEF Elems, Once
<1>6. Head(q) \in Elems(q)
  BY <1>1, <1>2 DEF Elems
<1> QED BY <1>1, <1>3, <1>4, <1>5, <1>6

-----------------------------------------------------------------------------

Typed ==
  /\ readyQ \in Seq(Threads) /\ queue \in Seq(Threads)
  /\ on \in [Cores -> Threads \cup {None}]
  /\ phase \in [Cores -> {"run", "popf", "handler", "locked", "schedule"}]
  /\ source \in [Cores -> Threads \cup {None}]
  /\ pc \in [Threads -> Steps]
  /\ epoch \in Nat /\ barrierEpoch \in Nat
  /\ old_epoch \in [Threads -> Nat] /\ t_ \in [Threads -> Nat]
  /\ \A c \in Cores : phase[c] \in {"handler", "locked", "schedule"} => source[c] # None

(* The lock has one owner: a thread in sync(), or a core in the handler of *)
(* wait().                                                                 *)
OneOwner ==
  /\ \A t, u \in Threads : pc[t] \in Locked /\ pc[u] \in Locked => t = u
  /\ \A c, d \in Cores : phase[c] = "locked" /\ phase[d] = "locked" => c = d
  /\ \A t \in Threads, c \in Cores : ~(pc[t] \in Locked /\ phase[c] = "locked")
  /\ \A t \in Threads : pc[t] \in Locked => taken
  /\ \A c \in Cores : phase[c] = "locked" => taken

(* The group that the thread has joined is not complete.                   *)
Waits(t) == barrierEpoch <= t_[t]

(* Whoever is on the way into the queue waits, unless the epoch tells it   *)
(* that there was a signal.                                                *)
EpochTells ==
  /\ \A t \in Threads : old_epoch[t] <= epoch
  /\ \A t \in Threads : pc[t] = "wait" => Waits(t)
  /\ \A t \in Threads : pc[t] = "block" /\ old_epoch[t] = epoch => Waits(t)
  /\ \A c \in Cores : phase[c] \in {"handler", "locked"} /\ old_epoch[source[c]] = epoch
                        => Waits(source[c])

(* Only notifyAll() has threads in its queue that do not wait any more.    *)
QueuedWait ==
  (\A t \in Threads : pc[t] # "notify") => \A i \in DOMAIN queue : Waits(queue[i])

IInv == Typed /\ OneOwner /\ EpochTells /\ QueuedWait

-----------------------------------------------------------------------------

LEMMA Initially == Init => IInv
<1> SUFFICES ASSUME Init PROVE IInv
  OBVIOUS
<1> USE DEF Init, SchedInit, ConditionInit
<1>1. PICK q \in [1..Cardinality(Threads) -> Threads] : readyQ = q
  OBVIOUS
<1>2. Cardinality(Threads) \in Nat
  BY BarrierAssumption, FS_CardinalityType
<1>3. readyQ \in Seq(Threads)
  BY <1>1, <1>2
<1>4. Typed
  BY <1>3 DEF Typed, Steps
<1>5. OneOwner /\ EpochTells /\ QueuedWait
  BY DEF OneOwner, EpochTells, QueuedWait, Locked, ConditionLocked
<1> QED BY <1>4, <1>5 DEF IInv

(* A step of thread t in its own code that leaves queues and epochs as     *)
(* they are, and neither enters nor leaves wait().                         *)
LEMMA OwnStepKeeps ==
  ASSUME IInv, NEW t \in Threads, NEW s \in Steps, pc' = [pc EXCEPT ![t] = s],
         UNCHANGED <<queue, readyQ, cores, epoch, old_epoch, barrierEpoch>>,
         t_' = t_ \/ t_' = [t_ EXCEPT ![t] = barrierEpoch],
         s \in Locked => IF pc[t] \in Locked THEN taken' = taken ELSE ~taken /\ taken' = TRUE,
         s \notin Locked => taken' = (IF pc[t] \in Locked THEN FALSE ELSE taken),
         s \notin {"block", "notify"}, s = "wait" => Waits(t)',
         pc[t] = "notify" => queue = <<>>
  PROVE  IInv'
<1> USE DEF IInv, cores
<1>1. Typed'
  BY DEF Typed
<1>2. \A u \in Threads : pc'[u] = IF u = t THEN s ELSE pc[u]
  BY DEF Typed
<1>3. OneOwner'
  BY <1>2 DEF OneOwner
<1>4. \A u \in Threads : Waits(u) => Waits(u)'
  <2>1. \A u \in Threads : t_'[u] = t_[u] \/ t_'[u] = barrierEpoch
    BY DEF Typed
  <2> QED BY <2>1 DEF Waits, Typed
<1>5. EpochTells'
  <2>1. \A c \in Cores : phase[c] \in {"handler", "locked"} => source[c] \in Threads
    BY DEF Typed
  <2> QED BY <1>2, <1>4, <2>1 DEF EpochTells
<1>6. QueuedWait'
  BY <1>2, <1>4 DEF QueuedWait, Typed
<1> QED BY <1>1, <1>3, <1>5, <1>6

-----------------------------------------------------------------------------
(* The steps of the condition and of the barrier that are not of this      *)
(* kind.                                                                   *)

(* wait() notes the epoch and gives the lock up: no signal so far.         *)
LEMMA WaitKeeps ==
  ASSUME IInv, NEW c \in Cores, NEW t \in Threads, Wait(c, t), UNCHANGED barrierVars
  PROVE  IInv'
<1> USE DEF IInv, cores, barrierVars
<1>1. /\ pc[t] = "wait" /\ pc' = [pc EXCEPT ![t] = "block"] /\ taken' = FALSE
      /\ old_epoch' = [old_epoch EXCEPT ![t] = epoch]
      /\ UNCHANGED <<epoch, queue, readyQ, cores, barrierEpoch, t_>>
  BY DEF Wait, At, unlock, GoTo
<1>2. \A u \in Threads : /\ pc'[u] = IF u = t THEN "block" ELSE pc[u]
                         /\ old_epoch'[u] = IF u = t THEN epoch ELSE old_epoch[u]
  BY <1>1 DEF Typed
<1>3. Typed'
  BY <1>1 DEF Typed, Steps, ConditionSteps
<1>4. (\A u \in Threads : pc'[u] \notin Locked) /\ (\A d \in Cores : phase[d] # "locked")
  BY <1>1, <1>2 DEF OneOwner, Locked, ConditionLocked
<1>5. OneOwner'
  BY <1>1, <1>4 DEF OneOwner
<1>6. \A u : Waits(u)' <=> Waits(u)
  BY <1>1 DEF Waits
<1>7. Waits(t)
  BY <1>1 DEF EpochTells
<1>8. \A d \in Cores : phase[d] \in {"handler", "locked"} => source[d] \in Threads
  BY DEF Typed
<1>9. EpochTells'
  BY <1>1, <1>2, <1>6, <1>7, <1>8 DEF EpochTells, Typed
<1>10. QueuedWait'
  BY <1>1, <1>2, <1>6 DEF QueuedWait
<1> QED BY <1>3, <1>5, <1>9, <1>10

LEMMA TurnedTo ==
  ASSUME readyQ \in Seq(Threads)
  PROVE  /\ (IF readyQ = <<>> THEN None ELSE Head(readyQ)) \in Threads \cup {None}
         /\ readyQ # <<>> => Head(readyQ) \in Threads /\ Tail(readyQ) \in Seq(Threads)
OBVIOUS

LEMMA BlockKeeps ==
  ASSUME IInv, NEW c \in Cores, NEW t \in Threads, Block(c, t), UNCHANGED barrierVars
  PROVE  IInv'
<1> USE DEF IInv, lockVars, conditionVars, barrierVars
<1>1. /\ pc[t] = "block" /\ phase[c] = "run"
      /\ pc' = [pc EXCEPT ![t] = "back"]
      /\ phase' = [phase EXCEPT ![c] = "handler"]
      /\ source' = [source EXCEPT ![c] = t]
      /\ UNCHANGED <<taken, epoch, queue, old_epoch, barrierEpoch, t_>>
  BY DEF Block, At, block, GoTo
<1>2. readyQ' \in Seq(Threads) /\ on' \in [Cores -> Threads \cup {None}]
  BY TurnedTo DEF Block, block, SwitchFrom, Typed
<1>3. Typed'
  BY <1>1, <1>2, BarrierAssumption DEF Typed, Steps, ConditionSteps
<1>4. \A u \in Threads : pc'[u] = IF u = t THEN "back" ELSE pc[u]
  BY <1>1 DEF Typed
<1>5. \A d \in Cores : /\ phase'[d] = IF d = c THEN "handler" ELSE phase[d]
                       /\ source'[d] = IF d = c THEN t ELSE source[d]
  BY <1>1 DEF Typed
<1>6. OneOwner'
  BY <1>1, <1>4, <1>5 DEF OneOwner, Locked, ConditionLocked
<1>7. \A u : Waits(u)' <=> Waits(u)
  BY <1>1 DEF Waits
<1>8. EpochTells'
  BY <1>1, <1>4, <1>5, <1>7 DEF EpochTells
<1>9. QueuedWait'
  BY <1>1, <1>4, <1>7 DEF QueuedWait
<1> QED BY <1>3, <1>6, <1>8, <1>9

(* The last thread of the group: from here on no epoch is the current one. *)
LEMMA CompleteKeeps ==
  ASSUME IInv, NEW c \in Cores, NEW t \in Threads, Complete(c, t)
  PROVE  IInv'
<1> USE DEF IInv, cores, lockVars
<1>1. /\ pc[t] = "enter" /\ pc' = [pc EXCEPT ![t] = "notify"]
      /\ epoch' = epoch + 1 /\ barrierEpoch' = barrierEpoch + 1
      /\ t_' = [t_ EXCEPT ![t] = barrierEpoch]
      /\ UNCHANGED <<taken, queue, old_epoch, readyQ, cores>>
  BY DEF Complete, At, StartNotify, GoTo
<1>2. \A u \in Threads : pc'[u] = IF u = t THEN "notify" ELSE pc[u]
  BY <1>1 DEF Typed
<1>3. Typed'
  BY <1>1 DEF Typed, Steps, ConditionSteps
<1>4. OneOwner'
  BY <1>1, <1>2 DEF OneOwner, Locked, ConditionLocked
<1>5. \A u \in Threads : old_epoch'[u] <= epoch' /\ old_epoch'[u] # epoch'
  BY <1>1 DEF EpochTells, Typed
<1>6. \A u \in Threads : pc'[u] # "wait"
  BY <1>1, <1>2 DEF OneOwner, Locked, ConditionLocked
<1>7. \A d \in Cores : phase[d] \in {"handler", "locked"} => source[d] \in Threads
  BY DEF Typed
<1>8. EpochTells'
  BY <1>1, <1>5, <1>6, <1>7 DEF EpochTells
<1>9. QueuedWait'
  BY <1>2 DEF QueuedWait
<1> QED BY <1>3, <1>4, <1>8, <1>9

LEMMA NotifyKeeps ==
  ASSUME IInv, NEW c \in Cores, NEW t \in Threads, Notify(c, t), UNCHANGED barrierVars
  PROVE  IInv'
<1> USE DEF IInv, cores, lockVars, barrierVars
<1>1. /\ pc[t] = "notify" /\ queue # <<>>
      /\ readyQ' = Append(readyQ, Head(queue)) /\ queue' = Tail(queue)
      /\ UNCHANGED <<taken, epoch, old_epoch, cores, pc, barrierEpoch, t_>>
  BY DEF Notify, At, schedule
<1>2. Head(queue) \in Threads /\ queue' \in Seq(Threads)
  BY <1>1 DEF Typed
<1>3. readyQ' \in Seq(Threads)
  BY <1>1, <1>2 DEF Typed
<1>4. Typed'
  BY <1>1, <1>2, <1>3 DEF Typed
<1>5. OneOwner' /\ QueuedWait'
  BY <1>1 DEF OneOwner, QueuedWait
<1>6. EpochTells'
  BY <1>1 DEF EpochTells, Waits
<1> QED BY <1>4, <1>5, <1>6

-----------------------------------------------------------------------------
(* Steps of a core in which no thread takes a step.                        *)

LEMMA HandlerLockKeeps ==
  ASSUME IInv, NEW c \in Cores, HandlerLock(c) \/ DoNotQueue(c), UNCHANGED barrierVars
  PROVE  IInv'
<1> USE DEF IInv, conditionVars, barrierVars
<1>1. /\ \/ phase[c] = "handler" /\ ~taken /\ taken' = TRUE /\ phase' = [phase EXCEPT ![c] = "locked"]
         \/ phase[c] = "locked" /\ taken' = FALSE /\ phase' = [phase EXCEPT ![c] = "schedule"]
      /\ UNCHANGED <<epoch, queue, old_epoch, readyQ, on, source, pc, barrierEpoch, t_>>
  BY DEF HandlerLock, DoNotQueue, lock, unlock
<1>2. Typed'
  BY <1>1 DEF Typed
<1>3. \A d \in Cores : d # c => phase'[d] = phase[d]
  BY <1>1 DEF Typed
<1>4. OneOwner'
  BY <1>1, <1>2, <1>3 DEF OneOwner, Typed
<1>5. EpochTells'
  BY <1>1, <1>3 DEF EpochTells, Waits, Typed
<1>6. QueuedWait'
  BY <1>1 DEF QueuedWait, Waits
<1> QED BY <1>2, <1>4, <1>5, <1>6

LEMMA QueueKeeps ==
  ASSUME IInv, NEW c \in Cores, Queue(c), UNCHANGED barrierVars
  PROVE  IInv'
<1> USE DEF IInv, barrierVars
<1> DEFINE s == source[c]
<1>1. /\ phase[c] = "locked" /\ epoch = old_epoch[s] /\ taken' = FALSE
      /\ phase' = [phase EXCEPT ![c] = "popf"] /\ source' = [source EXCEPT ![c] = None]
      /\ queue' = Append(queue, s)
      /\ UNCHANGED <<epoch, old_epoch, readyQ, on, pc, barrierEpoch, t_>>
  BY DEF Queue, HandlerReturns, unlock
<1>2. s \in Threads /\ Waits(s)
  BY <1>1 DEF Typed, EpochTells
<1>3. queue' \in Seq(Threads) /\ Len(queue') = Len(queue) + 1
      /\ (\A i \in 1..Len(queue) : queue'[i] = queue[i]) /\ queue'[Len(queue) + 1] = s
  BY <1>1, <1>2 DEF Typed
<1>4. Typed'
  BY <1>1, <1>3 DEF Typed
<1>5. \A d \in Cores : d # c => phase'[d] = phase[d] /\ source'[d] = source[d]
  BY <1>1 DEF Typed
<1>6. phase'[c] = "popf"
  BY <1>1 DEF Typed
<1>7. OneOwner'
  BY <1>1, <1>5, <1>6 DEF OneOwner
<1>8. EpochTells'
  BY <1>1, <1>5, <1>6 DEF EpochTells, Waits
<1>9. QueuedWait'
  <2>1. SUFFICES ASSUME \A t \in Threads : pc[t] # "notify", NEW i \in DOMAIN queue'
                 PROVE  Waits(queue'[i])
    BY <1>1 DEF QueuedWait, Waits
  <2>2. i \in 1..(Len(queue) + 1) /\ Len(queue) \in Nat /\ DOMAIN queue = 1..Len(queue)
    BY <1>3, <2>1 DEF Typed
  <2>3. CASE i = Len(queue) + 1
    BY <2>3, <1>2, <1>3
  <2>4. CASE i \in 1..Len(queue)
    BY <2>1, <2>2, <2>4, <1>3 DEF QueuedWait
  <2> QED BY <2>2, <2>3, <2>4
<1> QED BY <1>4, <1>7, <1>8, <1>9

(* The handler schedules, a core is switched to another thread or comes    *)
(* out of a switch.                                                        *)
LEMMA SwitchKeeps ==
  ASSUME IInv, NEW c \in Cores,
         UNCHANGED <<taken, epoch, queue, old_epoch, barrierEpoch, t_, pc>>,
         phase[c] \in {"run", "popf", "schedule"}, NEW p \in {"run", "popf"},
         phase' = [phase EXCEPT ![c] = p],
         source' = source \/ source' = [source EXCEPT ![c] = None],
         readyQ' \in Seq(Threads), on' \in [Cores -> Threads \cup {None}]
  PROVE  IInv'
<1> USE DEF IInv
<1>1. \A d \in Cores : (d # c => phase'[d] = phase[d] /\ source'[d] = source[d]) /\ phase'[c] = p
  BY DEF Typed
<1>2. Typed'
  BY <1>1 DEF Typed
<1>3. OneOwner' /\ QueuedWait'
  BY <1>1 DEF OneOwner, QueuedWait, Waits
<1>4. EpochTells'
  BY <1>1 DEF EpochTells, Waits
<1> QED BY <1>2, <1>3, <1>4

LEMMA CoreKeeps ==
  ASSUME IInv, NEW c \in Cores,
         Schedule(c) \/ Popf(c, on[c]) \/ Dispatch(c, on[c]) \/ Preempt(c, on[c]) \/ Rest(c, on[c]),
         UNCHANGED <<taken, epoch, queue, old_epoch, barrierEpoch, t_>>
  PROVE  IInv'
<1> USE DEF IInv
<1>1. CASE Schedule(c)
  <2>1. /\ phase[c] = "schedule" /\ readyQ' = Append(readyQ, source[c])
        /\ phase' = [phase EXCEPT ![c] = "popf"] /\ source' = [source EXCEPT ![c] = None]
        /\ UNCHANGED <<on, pc>>
    BY <1>1 DEF Schedule, schedule, HandlerReturns
  <2>2. source[c] \in Threads
    BY <2>1 DEF Typed
  <2>3. readyQ' \in Seq(Threads) /\ on' \in [Cores -> Threads \cup {None}]
    BY <2>1, <2>2 DEF Typed
  <2> QED BY <2>1, <2>3, SwitchKeeps
<1>2. CASE Popf(c, on[c])
  <2>1. /\ phase[c] = "popf" /\ phase' = [phase EXCEPT ![c] = "run"]
        /\ UNCHANGED <<readyQ, on, source, pc>>
    BY <1>2 DEF Popf
  <2> QED BY <2>1, SwitchKeeps DEF Typed
<1>3. CASE Dispatch(c, on[c])
  <2>1. /\ phase[c] = "run" /\ phase' = [phase EXCEPT ![c] = "popf"] /\ readyQ # <<>>
        /\ on' = [on EXCEPT ![c] = Head(readyQ)] /\ readyQ' = Tail(readyQ)
        /\ UNCHANGED <<source, pc>>
    BY <1>3 DEF Dispatch
  <2>2. readyQ' \in Seq(Threads) /\ on' \in [Cores -> Threads \cup {None}]
    BY <2>1, TurnedTo DEF Typed
  <2> QED BY <2>1, <2>2, SwitchKeeps
<1>4. CASE Preempt(c, on[c]) \/ Rest(c, on[c])
  <2>1. /\ phase[c] = "run" /\ phase' = [phase EXCEPT ![c] = "popf"] /\ readyQ # <<>>
        /\ on' = [on EXCEPT ![c] = IF readyQ = <<>> THEN None ELSE Head(readyQ)]
        /\ readyQ' = Append(Tail(readyQ), on[c]) /\ on[c] # None
        /\ UNCHANGED <<source, pc>>
    BY <1>4 DEF Preempt, Rest, At, GoToEnd, SwitchFrom
  <2>2. readyQ' \in Seq(Threads) /\ on' \in [Cores -> Threads \cup {None}]
    BY <2>1, TurnedTo DEF Typed
  <2> QED BY <2>1, <2>2, SwitchKeeps
<1> QED BY <1>1, <1>2, <1>3, <1>4

-----------------------------------------------------------------------------

(* The own steps of a thread, as OwnStepKeeps has them.                    *)
LEMMA ThreadKeeps ==
  ASSUME IInv, NEW c \in Cores, NEW t \in Threads,
         \/ Call(c, t) \/ Lock(c, t) \/ Join(c, t) \/ Test(c, t) \/ Leave(c, t)
         \/ Relock(c, t, "test") /\ UNCHANGED barrierVars
         \/ Notified(c, t, "unlock") /\ UNCHANGED barrierVars
  PROVE  IInv'
<1> USE DEF cores, lockVars, conditionVars, barrierVars
<1> DEFINE Same == UNCHANGED <<queue, readyQ, cores, epoch, old_epoch, barrierEpoch>>
           To(s) == pc' = [pc EXCEPT ![t] = s]
<1>1. /\ {"sync", "enter", "test", "wait", "unlock", "out"} \subseteq Steps
      /\ \A s \in {"enter", "test", "wait", "unlock"} : s \in Locked
      /\ \A s \in {"out", "sync", "back"} : s \notin Locked
      /\ "notify" \in Locked
  BY DEF Steps, ConditionSteps, Locked, ConditionLocked
<1>2. CASE Call(c, t)
  <2>1. pc[t] = "out" /\ To("sync") /\ Same /\ t_' = t_ /\ taken' = taken
    BY <1>2 DEF Call, At, GoTo
  <2> QED BY <1>1, <2>1, OwnStepKeeps
<1>3. CASE Lock(c, t)
  <2>1. pc[t] = "sync" /\ To("enter") /\ Same /\ t_' = t_ /\ ~taken /\ taken' = TRUE
    BY <1>3 DEF Lock, lock, At, GoTo
  <2> QED BY <1>1, <2>1, OwnStepKeeps
<1>4. CASE Join(c, t)
  <2>1. /\ pc[t] = "enter" /\ To("test") /\ Same /\ taken' = taken
        /\ t_' = [t_ EXCEPT ![t] = barrierEpoch]
    BY <1>4 DEF Join, At, GoTo
  <2> QED BY <1>1, <2>1, OwnStepKeeps
<1>5. CASE Test(c, t)
  <2>1. /\ pc[t] = "test" /\ To(IF Waits(t) THEN "wait" ELSE "unlock") /\ Same
        /\ taken' = taken /\ t_' = t_
    BY <1>5 DEF Test, At, GoTo, Waits
  <2>2. CASE Waits(t)
    <3>1. To("wait") /\ Waits(t)'
      BY <2>1, <2>2 DEF Waits
    <3> QED BY <1>1, <2>1, <3>1, OwnStepKeeps
  <2>3. CASE ~Waits(t)
    <3>1. To("unlock")
      BY <2>1, <2>3
    <3> QED BY <1>1, <2>1, <3>1, OwnStepKeeps
  <2> QED BY <2>2, <2>3
<1>6. CASE Leave(c, t)
  <2>1. pc[t] = "unlock" /\ To("out") /\ Same /\ t_' = t_ /\ taken' = FALSE
    BY <1>6 DEF Leave, unlock, At, GoTo
  <2> QED BY <1>1, <2>1, OwnStepKeeps
<1>7. CASE Relock(c, t, "test") /\ UNCHANGED barrierVars
  <2>1. pc[t] = "back" /\ To("test") /\ Same /\ t_' = t_ /\ ~taken /\ taken' = TRUE
    BY <1>7 DEF Relock, lock, At, GoTo
  <2> QED BY <1>1, <2>1, OwnStepKeeps
<1>8. CASE Notified(c, t, "unlock") /\ UNCHANGED barrierVars
  <2>1. /\ pc[t] = "notify" /\ To("unlock") /\ Same /\ t_' = t_ /\ taken' = taken
        /\ queue = <<>>
    BY <1>8 DEF Notified, At, GoTo
  <2> QED BY <1>1, <2>1, OwnStepKeeps
<1> QED BY <1>2, <1>3, <1>4, <1>5, <1>6, <1>7, <1>8

LEMMA StuttersKeep == IInv /\ UNCHANGED vars => IInv'
BY DEF vars, sched, cores, lockVars, conditionVars, barrierVars, IInv, Typed, OneOwner,
       EpochTells, QueuedWait, Waits

(* A step keeps the invariant: one case per action.                        *)
LEMMA Inductive == IInv /\ [Next]_vars => IInv'
<1> SUFFICES ASSUME IInv, Next PROVE IInv'
  BY StuttersKeep
<1>1. PICK c \in Cores : Step(c, on[c])
  BY DEF Next
<1>2. on[c] # None => on[c] \in Threads
  BY DEF IInv, Typed
<1>3. CASE BarrierStep(c, on[c])
  <2>1. on[c] \in Threads
    BY <1>2, <1>3 DEF BarrierStep, ConditionStep, Lock, Complete, Join, Test, Leave,
                      Wait, Block, Relock, Notify, Notified, At
  <2> QED BY <1>3, <2>1, ThreadKeeps, CompleteKeeps, WaitKeeps, BlockKeeps, NotifyKeeps
             DEF BarrierStep, ConditionStep
<1>4. CASE HandlerStep(c) /\ UNCHANGED barrierVars
  BY <1>4, HandlerLockKeeps, QueueKeeps, CoreKeeps
     DEF HandlerStep, Schedule, lockVars, conditionVars, barrierVars
<1>5. CASE \/ (Popf(c, on[c]) \/ Dispatch(c, on[c])) /\ UNCHANGED <<lockVars, conditionVars, barrierVars>>
           \/ PreemptStep(c, on[c]) \/ RestStep(c, on[c])
  BY <1>5, CoreKeeps DEF PreemptStep, RestStep, lockVars, conditionVars, barrierVars
<1>6. CASE Call(c, on[c])
  BY <1>2, <1>6, ThreadKeeps DEF Call, At
<1> QED BY <1>1, <1>3, <1>4, <1>5, <1>6 DEF Step, CoreStep

(* The invariant holds in all states of a barrier.                         *)
THEOREM Invariance == Spec => []IInv
BY Initially, Inductive, PTL DEF Spec

(* "No missed signals" (condition.h:34): wait() gives its lock up before   *)
(* the switch, and yet nobody is queued for a group that is complete.      *)
THEOREM NoSignalIsMissed == Spec => []NoMissedSignal
<1>1. IInv => NoMissedSignal
  <2> SUFFICES ASSUME IInv, ~taken PROVE \A i \in DOMAIN queue : barrierEpoch <= t_[queue[i]]
    BY DEF NoMissedSignal
  <2>1. \A t \in Threads : pc[t] # "notify"
    BY DEF IInv, OneOwner, Locked, ConditionLocked
  <2> QED BY <2>1 DEF IInv, QueuedWait, Waits
<1> QED BY <1>1, Invariance, PTL

(* The monitor's lock has one owner, be it a thread in sync() or a handler *)
(* that runs for one that has left its core (condition.h:75).              *)
THEOREM BarrierExclusion == Spec => []OneOwner
<1>1. IInv => OneOwner
  BY DEF IInv
<1> QED BY <1>1, Invariance, PTL

-----------------------------------------------------------------------------
(* The barrier implements BarrierRounds.  Where a thread is does not       *)
(* matter for this, only how far it is in sync().                          *)

Arrived == {t \in Inside : Waits(t)}
Released == {t \in Inside : ~Waits(t)}

(* count is what the group lacks, and nobody leaves it too early.          *)
Counted ==
  /\ count \in 1..initial_count
  /\ Cardinality(Arrived) + count = initial_count
  /\ \A t \in Threads : t_[t] <= barrierEpoch
  /\ \A t \in Threads : pc[t] \in {"notify", "unlock"} => ~Waits(t)

LEMMA InsideIsFinite == IsFiniteSet(Arrived)
<1>1. Arrived \subseteq Threads
  BY DEF Arrived, Inside
<1> QED BY <1>1, BarrierAssumption, FS_Subset

LEMMA CountedInitially == Init => Counted /\ Arrived = {} /\ Released = {}
<1> SUFFICES ASSUME Init PROVE Counted /\ Arrived = {} /\ Released = {}
  OBVIOUS
<1>1. /\ \A t \in Threads : pc[t] = "out" /\ t_[t] = 0
      /\ count = initial_count /\ barrierEpoch = 0
  BY DEF Init, SchedInit
<1>2. Arrived = {} /\ Released = {}
  BY <1>1 DEF Arrived, Released, Inside
<1>3. Counted
  BY <1>1, <1>2, FS_EmptySet, BarrierAssumption DEF Counted
<1> QED BY <1>2, <1>3

(* Steps of which the callers of sync() see nothing.                       *)
LEMMA NothingToSee ==
  ASSUME Counted, UNCHANGED <<count, barrierEpoch, t_>>, Inside' = Inside,
         \A t \in Threads : pc'[t] \in {"notify", "unlock"} => ~Waits(t)
  PROVE  Counted' /\ Arrived' = Arrived /\ Released' = Released
<1>1. \A t : Waits(t)' <=> Waits(t)
  BY DEF Waits
<1>2. Arrived' = Arrived /\ Released' = Released
  BY <1>1 DEF Arrived, Released
<1>3. count' \in 1..initial_count /\ Cardinality(Arrived') + count' = initial_count
  BY <1>2 DEF Counted
<1>4. \A t \in Threads : t_'[t] <= barrierEpoch'
  BY DEF Counted
<1>5. \A t \in Threads : pc'[t] \in {"notify", "unlock"} => ~Waits(t)'
  BY DEF Waits
<1> QED BY <1>2, <1>3, <1>4, <1>5 DEF Counted

LEMMA OtherSteps ==
  ASSUME IInv, Counted, NEW c \in Cores, Step(c, on[c]),
         ~Join(c, on[c]), ~Complete(c, on[c]), ~Leave(c, on[c])
  PROVE  Counted' /\ Arrived' = Arrived /\ Released' = Released
<1> DEFINE t == on[c]
<1> USE DEF barrierVars
<1>1. pc \in [Threads -> Steps] /\ (t # None => t \in Threads)
  BY DEF IInv, Typed
<1>2. CASE UNCHANGED <<pc, barrierVars>>
  BY <1>2, NothingToSee DEF Counted, Inside
<1>3. ASSUME NEW s, t # None, pc' = [pc EXCEPT ![t] = s], UNCHANGED <<count, barrierEpoch, t_>>,
             pc[t] \in {"out", "sync", "enter"} <=> s \in {"out", "sync", "enter"},
             s \in {"notify", "unlock"} => ~Waits(t)
      PROVE  Counted' /\ Arrived' = Arrived /\ Released' = Released
  <2>1. \A u \in Threads : pc'[u] = IF u = t THEN s ELSE pc[u]
    BY <1>1, <1>3
  <2>2. \A u \in Threads : pc'[u] \in {"notify", "unlock"} => ~Waits(u)
    BY <1>3, <2>1 DEF Counted
  <2>3. Inside' = Inside
    BY <1>1, <1>3, <2>1 DEF Inside
  <2> QED BY <1>3, <2>2, <2>3, NothingToSee
<1>4. CASE \/ Call(c, t) \/ Lock(c, t)
           \/ ConditionStep(c, t, "test", "unlock") /\ UNCHANGED barrierVars
  <2>1. CASE Call(c, t)
    BY <1>3, <2>1 DEF Call, At, GoTo
  <2>2. CASE Lock(c, t)
    BY <1>3, <2>2 DEF Lock, At, GoTo
  <2>3. CASE Wait(c, t) /\ UNCHANGED barrierVars
    BY <1>3, <2>3 DEF Wait, At, GoTo
  <2>4. CASE Block(c, t) /\ UNCHANGED barrierVars
    BY <1>3, <2>4 DEF Block, block, At, GoTo
  <2>5. CASE Relock(c, t, "test") /\ UNCHANGED barrierVars
    BY <1>3, <2>5 DEF Relock, At, GoTo
  <2>6. CASE Notify(c, t) /\ UNCHANGED barrierVars
    BY <1>2, <2>6 DEF Notify
  <2>7. CASE Notified(c, t, "unlock") /\ UNCHANGED barrierVars
    <3>1. ~Waits(t)
      BY <1>1, <2>7 DEF Notified, At, Counted
    <3> QED BY <1>3, <2>7, <3>1 DEF Notified, At, GoTo
  <2> QED BY <1>4, <2>1, <2>2, <2>3, <2>4, <2>5, <2>6, <2>7 DEF ConditionStep
<1>5. CASE Test(c, t)
  <2>1. /\ t # None /\ pc[t] = "test" /\ UNCHANGED <<count, barrierEpoch, t_>>
        /\ pc' = [pc EXCEPT ![t] = IF Waits(t) THEN "wait" ELSE "unlock"]
    BY <1>5 DEF Test, At, GoTo, Waits
  <2> QED BY <1>3, <2>1
<1>6. CASE CoreStep(c, t) \/ PreemptStep(c, t) \/ RestStep(c, t)
  <2>1. UNCHANGED <<pc, barrierVars>>
    BY <1>6 DEF CoreStep, HandlerStep, HandlerLock, Queue, DoNotQueue, Schedule, Popf, Dispatch,
                PreemptStep, RestStep, Preempt, Rest, GoToEnd
  <2> QED BY <1>2, <2>1
<1> HIDE DEF barrierVars
<1> QED BY <1>4, <1>5, <1>6 DEF Step, BarrierStep

LEMMA JoinComes ==
  ASSUME IInv, Counted, NEW t \in Threads, NEW c, Join(c, t)
  PROVE  /\ Counted' /\ t \notin Arrived \cup Released
         /\ Cardinality(Arrived) + 1 # initial_count
         /\ Arrived' = Arrived \cup {t} /\ Released' = Released
<1>1. /\ pc[t] = "enter" /\ count # 1 /\ count' = count - 1 /\ barrierEpoch' = barrierEpoch
      /\ t_' = [t_ EXCEPT ![t] = barrierEpoch] /\ pc' = [pc EXCEPT ![t] = "test"]
  BY DEF Join, At, GoTo
<1>2. \A u \in Threads : /\ t_'[u] = IF u = t THEN barrierEpoch ELSE t_[u]
                         /\ pc'[u] = IF u = t THEN "test" ELSE pc[u]
  BY <1>1 DEF IInv, Typed
<1>3. t \notin Inside /\ Inside' = Inside \cup {t} /\ barrierEpoch \in Nat
  BY <1>1, <1>2 DEF Inside, IInv, Typed
<1>4. Waits(t)' /\ \A u \in Threads : u # t => (Waits(u)' <=> Waits(u))
  BY <1>1, <1>2, <1>3 DEF Waits
<1>5. Inside \subseteq Threads
  BY DEF Inside
<1>6. Arrived' = Arrived \cup {t} /\ Released' = Released /\ t \notin Arrived \cup Released
  BY <1>3, <1>4, <1>5 DEF Arrived, Released
<1>7. Cardinality(Arrived') = Cardinality(Arrived) + 1 /\ Cardinality(Arrived) \in Nat
  BY <1>6, InsideIsFinite, FS_AddElement, FS_CardinalityType
<1>8. Counted'
  BY <1>1, <1>2, <1>3, <1>4, <1>7, BarrierAssumption DEF Counted
<1> QED BY <1>1, <1>6, <1>7, <1>8, BarrierAssumption DEF Counted

LEMMA CompleteComes ==
  ASSUME IInv, Counted, NEW t \in Threads, NEW c, Complete(c, t)
  PROVE  /\ Counted' /\ t \notin Arrived \cup Released
         /\ Cardinality(Arrived) + 1 = initial_count
         /\ Arrived' = {} /\ Released' = Released \cup Arrived \cup {t}
<1>1. /\ pc[t] = "enter" /\ count = 1 /\ count' = initial_count /\ barrierEpoch' = barrierEpoch + 1
      /\ t_' = [t_ EXCEPT ![t] = barrierEpoch] /\ pc' = [pc EXCEPT ![t] = "notify"]
  BY DEF Complete, StartNotify, At, GoTo
<1>2. \A u \in Threads : /\ t_'[u] = IF u = t THEN barrierEpoch ELSE t_[u]
                         /\ pc'[u] = IF u = t THEN "notify" ELSE pc[u]
  BY <1>1 DEF IInv, Typed
<1>3. t \notin Inside /\ Inside' = Inside \cup {t} /\ barrierEpoch \in Nat
  BY <1>1, <1>2 DEF Inside, IInv, Typed
<1>4. \A u \in Threads : ~Waits(u)' /\ t_'[u] <= barrierEpoch'
  <2>1. \A u \in Threads : t_[u] <= barrierEpoch /\ t_[u] \in Nat
    BY DEF Counted, IInv, Typed
  <2> QED BY <1>1, <1>2, <1>3, <2>1 DEF Waits
<1>5. Inside \subseteq Threads
  BY DEF Inside
<1>6. Arrived' = {} /\ Released' = Inside \cup {t}
  BY <1>3, <1>4, <1>5 DEF Arrived, Released
<1>7. Released' = Released \cup Arrived \cup {t} /\ t \notin Arrived \cup Released
  BY <1>3, <1>6 DEF Arrived, Released
<1>8. Counted'
  BY <1>1, <1>4, <1>6, FS_EmptySet, BarrierAssumption DEF Counted
<1>9. Cardinality(Arrived) + 1 = initial_count
  BY <1>1 DEF Counted
<1> QED BY <1>6, <1>7, <1>8, <1>9

LEMMA LeaveLeaves ==
  ASSUME IInv, Counted, NEW t \in Threads, NEW c, Leave(c, t)
  PROVE  /\ Counted' /\ t \in Released
         /\ Arrived' = Arrived /\ Released' = Released \ {t}
<1>1. /\ pc[t] = "unlock" /\ pc' = [pc EXCEPT ![t] = "out"]
      /\ UNCHANGED <<count, barrierEpoch, t_>>
  BY DEF Leave, At, GoTo, barrierVars
<1>2. \A u \in Threads : pc'[u] = IF u = t THEN "out" ELSE pc[u]
  BY <1>1 DEF IInv, Typed
<1>3. t \in Inside /\ ~Waits(t) /\ Inside' = Inside \ {t}
  BY <1>1, <1>2 DEF Inside, Counted
<1>4. \A u : Waits(u)' <=> Waits(u)
  BY <1>1 DEF Waits
<1>5. Arrived' = Arrived /\ Released' = Released \ {t} /\ t \in Released
  BY <1>3, <1>4 DEF Arrived, Released
<1>6. Counted'
  BY <1>1, <1>2, <1>4, <1>5 DEF Counted
<1> QED BY <1>5, <1>6

LEMMA SameCardinality == \A S : Rounds!Cardinality(S) = Cardinality(S)
BY DEF Rounds!Cardinality, Cardinality

(* A step of the barrier is a step of the rounds, or none.                 *)
LEMMA RoundStep ==
  IInv /\ Counted /\ [Next]_vars => Counted' /\ [Rounds!Next]_(Rounds!vars)
<1> SUFFICES ASSUME IInv, Counted, [Next]_vars
             PROVE  Counted' /\ (Rounds!Next \/ UNCHANGED Rounds!vars)
  OBVIOUS
<1>1. /\ Arrived = {t \in Inside : barrierEpoch <= t_[t]}
      /\ Released = {t \in Inside : barrierEpoch > t_[t]}
  <2>1. \A t \in Inside : t_[t] \in Nat /\ barrierEpoch \in Nat
    BY DEF Inside, IInv, Typed
  <2> QED BY <2>1 DEF Arrived, Released, Waits
<1>2. IInv'
  BY Inductive
<1>3. /\ Arrived' = {t \in Inside' : barrierEpoch' <= t_'[t]}
      /\ Released' = {t \in Inside' : barrierEpoch' > t_'[t]}
  <2>1. \A t \in Inside' : t_'[t] \in Nat /\ barrierEpoch' \in Nat
    BY <1>2 DEF Inside, IInv, Typed
  <2> QED BY <2>1 DEF Arrived, Released, Waits
<1>4. ASSUME Arrived' = Arrived, Released' = Released PROVE UNCHANGED Rounds!vars
  BY <1>1, <1>3, <1>4 DEF Rounds!vars
<1>5. CASE UNCHANGED vars
  <2>1. Counted' /\ Arrived' = Arrived /\ Released' = Released
    BY <1>5, NothingToSee DEF vars, sched, barrierVars, Inside, Counted
  <2> QED BY <1>4, <2>1
<1>6. ASSUME NEW c \in Cores, Step(c, on[c])
      PROVE  Counted' /\ (Rounds!Next \/ UNCHANGED Rounds!vars)
  <2>1. on[c] # None => on[c] \in Threads
    BY DEF IInv, Typed
  <2>2. CASE Join(c, on[c])
    <3>1. PICK t \in Threads : t = on[c]
      BY <2>1, <2>2 DEF Join, At
    <3>2. Join(c, t)
      BY <2>2, <3>1 DEF Join, At, GoTo
    <3>3. Rounds!Come(t)
      BY <1>1, <1>3, <3>2, JoinComes, SameCardinality DEF Rounds!Come
    <3> QED BY <3>2, <3>3, JoinComes DEF Rounds!Next
  <2>3. CASE Complete(c, on[c])
    <3>1. PICK t \in Threads : t = on[c]
      BY <2>1, <2>3 DEF Complete, At
    <3>2. Complete(c, t)
      BY <2>3, <3>1 DEF Complete, At, StartNotify, GoTo
    <3>3. Rounds!Come(t)
      BY <1>1, <1>3, <3>2, CompleteComes, SameCardinality DEF Rounds!Come
    <3> QED BY <3>2, <3>3, CompleteComes DEF Rounds!Next
  <2>4. CASE Leave(c, on[c])
    <3>1. PICK t \in Threads : t = on[c]
      BY <2>1, <2>4 DEF Leave, At
    <3>2. Leave(c, t)
      BY <2>4, <3>1 DEF Leave, At, GoTo
    <3>3. Rounds!Leave(t)
      BY <1>1, <1>3, <3>2, LeaveLeaves DEF Rounds!Leave
    <3> QED BY <3>2, <3>3, LeaveLeaves DEF Rounds!Next
  <2>5. CASE ~Join(c, on[c]) /\ ~Complete(c, on[c]) /\ ~Leave(c, on[c])
    BY <1>4, <1>6, <2>5, OtherSteps
  <2> QED BY <2>2, <2>3, <2>4, <2>5
<1> QED BY <1>5, <1>6 DEF Next

(* The threads go through the barrier in groups of initial_count, and a    *)
(* thread that is back for the next round does not get into the group of   *)
(* those that are still leaving (barrier.h:52-64).                         *)
THEOREM BarrierIsRounds == Spec => ImplementsRounds
<1>1. Init => Counted /\ Rounds!Init
  <2> SUFFICES ASSUME Init PROVE Counted /\ Rounds!Init
    OBVIOUS
  <2>1. Inside = {}
    BY DEF Init, SchedInit, Inside
  <2> QED BY <2>1, CountedInitially DEF Rounds!Init
<1>2. IInv /\ Counted /\ [Next]_vars => Counted' /\ [Rounds!Next]_(Rounds!vars)
  BY RoundStep
<1> QED BY <1>1, <1>2, Invariance, PTL DEF Spec, ImplementsRounds, Rounds!Spec

-----------------------------------------------------------------------------
(* That interrupts follow the lock: they are off with it and on without,   *)
(* on whatever core a thread comes back.  A thread's flag says something   *)
(* about its core only if no other core runs it, and so the proof begins   *)
(* with the places of threads.                                             *)

Ready == Elems(readyQ)
Waiting == Elems(queue)

(* No thread is in two places.                                             *)
Apart ==
  /\ Once(readyQ) /\ Once(queue) /\ Ready \cap Waiting = {}
  /\ \A c, d \in Cores : on[c] = on[d] /\ on[c] # None => c = d
  /\ \A c, d \in Cores : source[c] = source[d] /\ source[c] # None => c = d
  /\ \A c, d \in Cores : source[d] # None => on[c] # source[d]
  /\ \A c \in Cores : on[c] \notin Ready \cup Waiting /\ source[c] \notin Ready \cup Waiting
  /\ \A c \in Cores : source[c] # None => phase[c] \in {"handler", "locked", "schedule"}

(* Threads leave their cores with interrupts on.  The field was holds what *)
(* the owner of the lock found: a thread interrupts on, a handler off.     *)
Follows ==
  /\ \A t \in Threads : flags[t]
  /\ \A c \in Cores : phase[c] # "run" => ~IF_[c]
  /\ \A c \in Cores : on[c] # None /\ phase[c] = "run" => (IF_[c] <=> pc[on[c]] \notin Locked)
  /\ \A t \in Threads : pc[t] \in Locked => ~was /\ \E c \in Cores : on[c] = t /\ phase[c] = "run"
  /\ \A c \in Cores : phase[c] = "locked" => was
  /\ taken => (\E t \in Threads : pc[t] \in Locked) \/ (\E c \in Cores : phase[c] = "locked")

FInv == IInv /\ TypeOK /\ Apart /\ Follows

-----------------------------------------------------------------------------

LEMMA ThreadsOnly ==
  ASSUME IInv
  PROVE  /\ Ready \subseteq Threads /\ Waiting \subseteq Threads
         /\ None \notin Ready \cup Waiting /\ None \notin Threads
         /\ readyQ \in Seq(Threads) /\ queue \in Seq(Threads)
         /\ DOMAIN on = Cores /\ DOMAIN source = Cores /\ DOMAIN phase = Cores
         /\ \A c \in Cores : on[c] \in Threads \cup {None} /\ source[c] \in Threads \cup {None}
         /\ pc \in [Threads -> Steps]
<1>1. readyQ \in Seq(Threads) /\ queue \in Seq(Threads)
  BY DEF IInv, Typed
<1>2. Ready \subseteq Threads /\ Waiting \subseteq Threads
  BY <1>1, LenProperties DEF Ready, Waiting, Elems
<1> QED BY <1>1, <1>2, BarrierAssumption DEF IInv, Typed

LEMMA FollowsInitially == Init => FInv
<1> SUFFICES ASSUME Init PROVE TypeOK /\ Apart /\ Follows
  BY Initially DEF FInv
<1>1. /\ queue = <<>> /\ taken = FALSE /\ was = FALSE
      /\ on = [c \in Cores |-> None] /\ source = [c \in Cores |-> None]
      /\ phase = [c \in Cores |-> "run"] /\ IF_ = [c \in Cores |-> TRUE]
      /\ flags = [t \in Threads |-> TRUE] /\ pc = [t \in Threads |-> "out"]
      /\ count = initial_count /\ calls = 0
  BY DEF Init, SchedInit, ConditionInit
<1>2. Cardinality(Threads) \in Nat
  BY BarrierAssumption, FS_CardinalityType
<1>3. PICK q \in [1..Cardinality(Threads) -> Threads] :
        {q[i] : i \in DOMAIN q} = Threads /\ readyQ = q
  BY DEF Init, SchedInit
<1>4. Ready = Threads /\ Waiting = {}
  BY <1>1, <1>3 DEF Ready, Waiting, Elems
<1>5. Once(readyQ)
  <2> DEFINE n == Cardinality(Threads)
  <2>1. q \in Surjection(1..n, Threads)
    BY <1>3 DEF Surjection
  <2>2. IsFiniteSet(1..n) /\ Cardinality(1..n) = n
    BY <1>2, FS_Interval
  <2>3. q \in Injection(1..n, Threads)
    BY <2>1, <2>2, FS_Surjection
  <2> QED BY <1>3, <2>3 DEF Injection, IsInjective, Once
<1>6. TypeOK
  <2>1. Typed
    BY Initially DEF IInv
  <2>2. SchedTypeOK({"handler", "locked", "schedule"}, Steps)
    BY <1>1, <2>1 DEF Typed, SchedTypeOK
  <2>3. ConditionTypeOK
    BY <1>1, <2>1 DEF Typed, ConditionTypeOK
  <2>4. count \in 1..initial_count /\ calls \in 0..MaxCalls
    BY <1>1, BarrierAssumption
  <2> QED BY <2>1, <2>2, <2>3, <2>4 DEF Typed, TypeOK
<1>7. Follows
  BY <1>1 DEF Follows, Locked, ConditionLocked
<1>8. Apart
  BY <1>1, <1>4, <1>5, BarrierAssumption DEF Apart, Once
<1> QED BY <1>6, <1>7, <1>8

(* IInv types most of the state already.                                   *)
LEMMA TypeKept ==
  ASSUME FInv, IInv', [Next]_vars
  PROVE  TypeOK'
<1>1. TypeOK /\ Typed'
  BY DEF FInv, IInv
<1>2. SUFFICES /\ IF_' \in [Cores -> BOOLEAN] /\ flags' \in [Threads -> BOOLEAN]
               /\ taken' \in BOOLEAN /\ was' \in BOOLEAN
               /\ count' \in 1..initial_count /\ calls' \in 0..MaxCalls
  BY <1>1 DEF TypeOK, Typed, SchedTypeOK, ConditionTypeOK
<1> USE DEF TypeOK, SchedTypeOK, ConditionTypeOK, SetIF, lock, unlock, cores, lockVars,
            conditionVars, barrierVars
<1>3. CASE UNCHANGED vars
  BY <1>1, <1>3 DEF vars, sched
<1>4. CASE Next
  <2>1. PICK c \in Cores : Step(c, on[c])
    BY <1>4 DEF Next
  <2>2. on[c] \in Threads \cup {None}
    BY <1>1
  <2> PICK t : t = on[c]
    OBVIOUS
  <2>3. CASE \/ Lock(c, t) \/ Leave(c, t)
             \/ (Wait(c, t) \/ Relock(c, t, "test")) /\ UNCHANGED barrierVars
    BY <1>1, <2>3 DEF Lock, Leave, Wait, Relock
  <2>4. CASE Complete(c, t) \/ Join(c, t) \/ Call(c, t) \/ Test(c, t)
    BY <1>1, <2>4, BarrierAssumption DEF Complete, Join, Call, Test
  <2>5. CASE (Notify(c, t) \/ Notified(c, t, "unlock")) /\ UNCHANGED barrierVars
    BY <1>1, <2>5 DEF Notify, Notified
  <2>6. CASE HandlerStep(c) /\ UNCHANGED barrierVars
    BY <1>1, <2>6 DEF HandlerStep, HandlerLock, Queue, DoNotQueue, Schedule
  <2>7. CASE \/ Block(c, t) /\ UNCHANGED barrierVars
             \/ PreemptStep(c, t) \/ RestStep(c, t)
             \/ (Popf(c, t) \/ Dispatch(c, t)) /\ UNCHANGED <<lockVars, conditionVars, barrierVars>>
    <3>1. /\ taken' = taken /\ was' = was /\ count' = count /\ calls' = calls
          /\ \/ /\ IF_' = [IF_ EXCEPT ![c] = FALSE]
                /\ flags' = [flags EXCEPT ![t] = IF_[c]] \/ flags' = flags
             \/ /\ IF_' = [IF_ EXCEPT ![c] = (t = None \/ flags[t])]
                /\ flags' = [u \in Threads |-> u = t \/ flags[u]]
      BY <2>7 DEF Block, block, PreemptStep, RestStep, Preempt, Rest, GoToEnd, SwitchFrom, Popf, Dispatch
    <3>2. t = None \/ t \in Threads
      BY <2>2
    <3>3. flags' \in [Threads -> BOOLEAN]
      BY <1>1, <3>1
    <3>4. IF_' \in [Cores -> BOOLEAN]
      <4>1. PICK b \in BOOLEAN : IF_' = [IF_ EXCEPT ![c] = b]
        BY <1>1, <3>1, <3>2
      <4> QED BY <1>1, <4>1
    <3> QED BY <1>1, <3>1, <3>3, <3>4
  <2>8. Step(c, t)
    BY <2>1
  <2> HIDE DEF TypeOK, SchedTypeOK, ConditionTypeOK, lock, unlock, cores, lockVars, conditionVars, barrierVars
  <2> QED BY <2>3, <2>4, <2>5, <2>6, <2>7, <2>8
          DEF Step, BarrierStep, ConditionStep, CoreStep
<1> QED BY <1>3, <1>4

-----------------------------------------------------------------------------
(* Threads stay in one place.                                              *)

LEMMA StaysApart ==
  ASSUME Apart, UNCHANGED <<readyQ, on, source, queue>>,
         \A d \in Cores : source[d] # None => phase'[d] \in {"handler", "locked", "schedule"}
  PROVE  Apart'
BY DEF Apart, Ready, Waiting

(* The core turns to the head of the ready queue, or to its idle thread.   *)
LEMMA TurnsTo ==
  ASSUME IInv, Apart, NEW r, NEW h,
         r = (IF readyQ = <<>> THEN <<>> ELSE Tail(readyQ)),
         h = (IF readyQ = <<>> THEN None ELSE Head(readyQ))
  PROVE  /\ r \in Seq(Threads) /\ Once(r) /\ Elems(r) = Ready \ {h}
         /\ h \in Threads \cup {None} /\ (h # None => h \in Ready)
<1>1. readyQ \in Seq(Threads) /\ Once(readyQ) /\ None \notin Threads
  BY ThreadsOnly DEF Apart
<1>2. CASE readyQ = <<>>
  BY <1>1, <1>2 DEF Ready, Elems, Once
<1>3. CASE readyQ # <<>>
  BY <1>1, <1>3, Removed DEF Ready
<1> QED BY <1>2, <1>3

LEMMA BlockMoves ==
  ASSUME IInv, Apart, NEW c \in Cores, NEW t \in Threads, t = on[c], Block(c, t)
  PROVE  Apart'
<1>1. /\ phase[c] = "run"
      /\ phase' = [phase EXCEPT ![c] = "handler"]
      /\ source' = [source EXCEPT ![c] = t]
      /\ on' = [on EXCEPT ![c] = IF readyQ = <<>> THEN None ELSE Head(readyQ)]
      /\ readyQ' = IF readyQ = <<>> THEN <<>> ELSE Tail(readyQ)
      /\ queue' = queue
  BY DEF Block, At, block, SwitchFrom, conditionVars
<1>2. PICK h : h = IF readyQ = <<>> THEN None ELSE Head(readyQ)
  OBVIOUS
<1>3. /\ Once(readyQ') /\ Ready' = Ready \ {h} /\ Waiting' = Waiting
      /\ h \in Threads \cup {None} /\ (h # None => h \in Ready)
  BY <1>1, <1>2, TurnsTo DEF Ready, Waiting
<1>4. \A d \in Cores : /\ on'[d] = IF d = c THEN h ELSE on[d]
                       /\ source'[d] = IF d = c THEN t ELSE source[d]
                       /\ phase'[d] = IF d = c THEN "handler" ELSE phase[d]
  <2>1. on' = [on EXCEPT ![c] = h]
    BY <1>1, <1>2
  <2> QED BY <1>1, <2>1, ThreadsOnly
<1>5. source[c] = None /\ t # None /\ t \notin Ready \cup Waiting
  BY <1>1, ThreadsOnly DEF Apart
<1> USE DEF Apart
<1>6. Once(readyQ') /\ Once(queue') /\ Ready' \cap Waiting' = {}
  BY <1>1, <1>3
<1>7. \A d, e \in Cores : on'[d] = on'[e] /\ on'[d] # None => d = e
  BY <1>3, <1>4
<1>8. \A d, e \in Cores : source'[d] = source'[e] /\ source'[d] # None => d = e
  BY <1>4, <1>5
<1>9. \A d, e \in Cores : source'[e] # None => on'[d] # source'[e]
  BY <1>3, <1>4, <1>5
<1>10. \A d \in Cores : on'[d] \notin Ready' \cup Waiting' /\ source'[d] \notin Ready' \cup Waiting'
  <2>1. h \notin Ready' \cup Waiting' /\ t \notin Ready' \cup Waiting'
    BY <1>3, <1>5, ThreadsOnly
  <2>2. \A d \in Cores : on[d] \notin Ready' \cup Waiting' /\ source[d] \notin Ready' \cup Waiting'
    BY <1>3
  <2> QED BY <1>4, <2>1, <2>2
<1>11. \A d \in Cores : source'[d] # None => phase'[d] \in {"handler", "locked", "schedule"}
  BY <1>4
<1> QED BY <1>6, <1>7, <1>8, <1>9, <1>10, <1>11

(* A handler puts its thread into the wait queue or the ready queue.       *)
LEMMA HandlerMoves ==
  ASSUME IInv, Apart, NEW c \in Cores, Queue(c) \/ Schedule(c)
  PROVE  Apart'
<1> DEFINE s == source[c]
<1>1. /\ phase[c] \in {"locked", "schedule"}
      /\ phase' = [phase EXCEPT ![c] = "popf"] /\ source' = [source EXCEPT ![c] = None]
      /\ on' = on
      /\ \/ queue' = Append(queue, s) /\ readyQ' = readyQ
         \/ readyQ' = Append(readyQ, s) /\ queue' = queue
  BY DEF Queue, Schedule, schedule, HandlerReturns, conditionVars
<1>2. s \in Threads /\ s # None
  BY <1>1, ThreadsOnly DEF IInv, Typed
<1>3. s \notin Ready /\ s \notin Waiting
  BY DEF Apart
<1>4. /\ Once(readyQ') /\ Once(queue')
      /\ \/ Ready' = Ready /\ Waiting' = Waiting \cup {s}
         \/ Ready' = Ready \cup {s} /\ Waiting' = Waiting
  <2>1. CASE queue' = Append(queue, s) /\ readyQ' = readyQ
    <3>1. Elems(queue') = Elems(queue) \cup {s} /\ Once(queue')
      BY <1>2, <1>3, <2>1, ThreadsOnly, Appended DEF Apart, Waiting
    <3> QED BY <2>1, <3>1 DEF Apart, Ready, Waiting
  <2>2. CASE readyQ' = Append(readyQ, s) /\ queue' = queue
    <3>1. Elems(readyQ') = Elems(readyQ) \cup {s} /\ Once(readyQ')
      BY <1>2, <1>3, <2>2, ThreadsOnly, Appended DEF Apart, Ready
    <3> QED BY <2>2, <3>1 DEF Apart, Ready, Waiting
  <2> QED BY <1>1, <2>1, <2>2
<1>5. \A d \in Cores : /\ source'[d] = IF d = c THEN None ELSE source[d]
                       /\ d # c => phase'[d] = phase[d]
  BY <1>1, ThreadsOnly
<1>6. \A d \in Cores : source'[d] # s /\ on[d] # s
  BY <1>2, <1>5 DEF Apart
<1>7. Ready' \cap Waiting' = {}
  BY <1>3, <1>4 DEF Apart
<1>8. \A d \in Cores : on'[d] \notin Ready' \cup Waiting' /\ source'[d] \notin Ready' \cup Waiting'
  <2>1. None \notin Ready' \cup Waiting'
    BY <1>2, <1>4, ThreadsOnly
  <2> QED BY <1>1, <1>4, <1>5, <1>6, <2>1 DEF Apart
<1> QED BY <1>1, <1>4, <1>5, <1>7, <1>8 DEF Apart

LEMMA NotifyMoves ==
  ASSUME IInv, Apart, NEW c \in Cores, NEW t, Notify(c, t)
  PROVE  Apart'
<1>1. /\ queue # <<>> /\ readyQ' = Append(readyQ, Head(queue)) /\ queue' = Tail(queue)
      /\ UNCHANGED <<on, source, phase>>
  BY DEF Notify, schedule, cores
<1>2. /\ Head(queue) \in Threads /\ Head(queue) \in Waiting
      /\ Waiting' = Waiting \ {Head(queue)} /\ Once(queue')
  BY <1>1, ThreadsOnly, Removed DEF Apart, Waiting
<1>3. Ready' = Ready \cup {Head(queue)} /\ Once(readyQ')
  BY <1>1, <1>2, ThreadsOnly, Appended DEF Apart, Ready
<1>4. Ready' \cap Waiting' = {} /\ Ready' \cup Waiting' = Ready \cup Waiting
  BY <1>2, <1>3 DEF Apart
<1> QED BY <1>1, <1>2, <1>3, <1>4 DEF Apart

LEMMA SwitchMoves ==
  ASSUME IInv, Apart, NEW c \in Cores,
         Dispatch(c, on[c]) \/ Preempt(c, on[c]) \/ Rest(c, on[c]),
         queue' = queue
  PROVE  Apart'
<1> DEFINE o == on[c]
           h == Head(readyQ)
<1>1. /\ phase[c] = "run" /\ readyQ # <<>> /\ phase' = [phase EXCEPT ![c] = "popf"]
      /\ on' = [on EXCEPT ![c] = h] /\ source' = source
      /\ \/ o = None /\ readyQ' = Tail(readyQ)
         \/ o # None /\ readyQ' = Append(Tail(readyQ), o)
  BY DEF Dispatch, Preempt, Rest, At, GoToEnd, SwitchFrom
<1>2. /\ Tail(readyQ) \in Seq(Threads) /\ Once(Tail(readyQ)) /\ Elems(Tail(readyQ)) = Ready \ {h}
      /\ h \in Threads /\ h \in Ready
  BY <1>1, ThreadsOnly, Removed DEF Apart, Ready
<1>3. o \notin Ready \cup Waiting /\ o \in Threads \cup {None} /\ source[c] = None
  BY <1>1, ThreadsOnly DEF Apart
<1>4. Once(readyQ') /\ Ready' = (Ready \ {h}) \cup ({o} \ {None})
  <2>1. CASE o = None /\ readyQ' = Tail(readyQ)
    BY <1>2, <2>1 DEF Ready
  <2>2. CASE o # None /\ readyQ' = Append(Tail(readyQ), o)
    <3>1. o \in Threads /\ o \notin Elems(Tail(readyQ))
      BY <1>2, <1>3, <2>2
    <3>2. ASSUME NEW r \in Seq(Threads), Once(r), NEW x \in Threads, x \notin Elems(r)
          PROVE  Elems(Append(r, x)) = Elems(r) \cup {x} /\ Once(Append(r, x))
      BY <3>2, Appended
    <3>3. Elems(readyQ') = Elems(Tail(readyQ)) \cup {o} /\ Once(readyQ')
      BY <1>2, <2>2, <3>1, <3>2
    <3> QED BY <1>2, <2>2, <3>3 DEF Ready
  <2> QED BY <1>1, <2>1, <2>2
<1>5. Waiting' = Waiting
  BY DEF Waiting
<1>6. \A d \in Cores : /\ on'[d] = IF d = c THEN h ELSE on[d]
                       /\ phase'[d] = IF d = c THEN "popf" ELSE phase[d]
  BY <1>1, ThreadsOnly
<1> USE DEF Apart
<1>7. \A d, e \in Cores : on'[d] = on'[e] /\ on'[d] # None => d = e
  BY <1>2, <1>6
<1>8. \A d, e \in Cores : source'[e] # None => on'[d] # source'[e]
  BY <1>1, <1>2, <1>6
<1>9. \A d \in Cores : on'[d] \notin Ready' \cup Waiting' /\ source'[d] \notin Ready' \cup Waiting'
  <2>1. h \notin Ready' \cup Waiting'
    BY <1>2, <1>3, <1>4, <1>5
  <2>2. ASSUME NEW d \in Cores, d # c PROVE on[d] \notin Ready' \cup Waiting'
    BY <1>3, <1>4, <1>5, <2>2
  <2>3. ASSUME NEW d \in Cores PROVE source[d] \notin Ready' \cup Waiting'
    BY <1>4, <1>5, <2>3
  <2> QED BY <1>1, <1>6, <2>1, <2>2, <2>3
<1>10. Ready' \cap Waiting' = {}
  BY <1>3, <1>4, <1>5
<1>11. \A d \in Cores : source'[d] # None => phase'[d] \in {"handler", "locked", "schedule"}
  BY <1>1, <1>3, <1>6
<1> QED BY <1>1, <1>4, <1>7, <1>8, <1>9, <1>10, <1>11

LEMMA ApartInductive ==
  ASSUME FInv, [Next]_vars
  PROVE  Apart'
<1> USE DEF FInv
<1>1. CASE UNCHANGED vars
  BY <1>1, StaysApart DEF vars, sched, cores, conditionVars, Apart
<1>2. CASE Next
  <2>1. PICK c \in Cores : Step(c, on[c])
    BY <1>2 DEF Next
  <2>2. PICK t : t = on[c]
    OBVIOUS
  <2>3. CASE \/ Lock(c, t) \/ Leave(c, t) \/ Wait(c, t) \/ Relock(c, t, "test")
             \/ Complete(c, t) \/ Join(c, t) \/ Call(c, t) \/ Test(c, t) \/ Notified(c, t, "unlock")
    <3>1. UNCHANGED <<readyQ, on, source, phase, queue>>
      BY <2>3 DEF Lock, Leave, Wait, Relock, Complete, Join, Call, Test, Notified, cores, conditionVars
    <3> QED BY <3>1, StaysApart DEF Apart
  <2>4. CASE \/ HandlerLock(c) \/ DoNotQueue(c)
             \/ Popf(c, t) /\ UNCHANGED conditionVars
    <3>1. /\ UNCHANGED <<readyQ, on, source, queue>>
          /\ \/ phase' = [phase EXCEPT ![c] = "locked"]
             \/ phase' = [phase EXCEPT ![c] = "schedule"]
             \/ phase[c] = "popf" /\ phase' = [phase EXCEPT ![c] = "run"]
      BY <2>4 DEF HandlerLock, DoNotQueue, Popf, conditionVars
    <3>2. \A d \in Cores : source[d] # None => phase'[d] \in {"handler", "locked", "schedule"}
      BY <3>1, ThreadsOnly DEF Apart
    <3> QED BY <3>1, <3>2, StaysApart
  <2>5. CASE Block(c, t)
    <3>1. t \in Threads
      BY <2>2, <2>5, ThreadsOnly DEF Block, At
    <3> QED BY <2>2, <2>5, <3>1, BlockMoves
  <2>6. CASE Queue(c) \/ Schedule(c) \/ Notify(c, t)
    BY <2>6, HandlerMoves, NotifyMoves
  <2>7. CASE (Dispatch(c, t) \/ Preempt(c, t) \/ Rest(c, t)) /\ UNCHANGED conditionVars
    BY <2>2, <2>7, SwitchMoves DEF conditionVars
  <2>8. Step(c, t)
    BY <2>1, <2>2
  <2> QED BY <2>3, <2>4, <2>5, <2>6, <2>7, <2>8
          DEF Step, BarrierStep, ConditionStep, CoreStep, HandlerStep, PreemptStep, RestStep
<1> QED BY <1>1, <1>2

-----------------------------------------------------------------------------
(* Interrupts follow the lock.                                             *)

LEMMA OwnStepFollows ==
  ASSUME FInv, NEW c \in Cores, NEW t \in Threads, t = on[c], phase[c] = "run",
         UNCHANGED <<on, phase, flags>>,
         NEW s \in Steps, pc' = [pc EXCEPT ![t] = s],
         \A d \in Cores : d # c => IF_'[d] = IF_[d],
         IF_'[c] <=> s \notin Locked,
         \/ (s \in Locked <=> pc[t] \in Locked) /\ UNCHANGED <<taken, was>>
         \/ s \in Locked /\ ~taken /\ ~was'
         \/ s \notin Locked /\ pc[t] \in Locked /\ ~taken' /\ UNCHANGED was
  PROVE  Follows'
<1> USE DEF FInv
<1>1. \A u \in Threads : pc'[u] = IF u = t THEN s ELSE pc[u]
  BY ThreadsOnly
<1>2. \A d \in Cores : on[d] = t => d = c
  BY ThreadsOnly DEF Apart
<1>3. \A d \in Cores : on[d] # None => on[d] \in Threads
  BY ThreadsOnly
<1>4. pc[t] \in Locked =>
        (\A u \in Threads : u # t => pc[u] \notin Locked) /\ (\A d \in Cores : phase[d] # "locked")
  BY DEF IInv, OneOwner
<1>5. ~taken => (\A u \in Threads : pc[u] \notin Locked) /\ (\A d \in Cores : phase[d] # "locked")
  BY DEF IInv, OneOwner
<1> USE DEF Follows
<1>6. \A d \in Cores : phase'[d] # "run" => ~IF_'[d]
  OBVIOUS
<1>7. \A d \in Cores : on'[d] # None /\ phase'[d] = "run" => (IF_'[d] <=> pc'[on'[d]] \notin Locked)
  <2> SUFFICES ASSUME NEW d \in Cores, on[d] # None, phase[d] = "run"
               PROVE  IF_'[d] <=> pc'[on[d]] \notin Locked
    OBVIOUS
  <2>1. CASE d = c
    BY <1>1, <2>1
  <2>2. CASE d # c
    BY <1>1, <1>2, <1>3, <2>2
  <2> QED BY <2>1, <2>2
<1>8. \A u \in Threads : pc'[u] \in Locked => ~was' /\ \E d \in Cores : on'[d] = u /\ phase'[d] = "run"
  BY <1>1, <1>4, <1>5
<1>9. \A d \in Cores : phase'[d] = "locked" => was'
  BY <1>4, <1>5
<1>10. taken' => (\E u \in Threads : pc'[u] \in Locked) \/ (\E d \in Cores : phase'[d] = "locked")
  <2>1. CASE s \in Locked
    BY <1>1, <2>1
  <2>2. CASE s \notin Locked
    BY <1>1, <2>2
  <2> QED BY <2>1, <2>2
<1>11. \A u \in Threads : flags'[u]
  OBVIOUS
<1> QED BY <1>6, <1>7, <1>8, <1>9, <1>10, <1>11

LEMMA OwnStepsFollow ==
  ASSUME FInv, NEW c \in Cores, NEW t, t = on[c],
         \/ Lock(c, t) \/ Leave(c, t) \/ Wait(c, t) \/ Relock(c, t, "test") \/ Complete(c, t)
         \/ Join(c, t) \/ Call(c, t) \/ Test(c, t) \/ Notified(c, t, "unlock") \/ Notify(c, t)
  PROVE  Follows'
<1> USE DEF FInv, cores, lockVars
<1>1. t \in Threads /\ phase[c] = "run"
  BY ThreadsOnly DEF Lock, Leave, Wait, Relock, Complete, Join, Call, Test, Notified, Notify, At
<1>2. /\ {"out", "sync", "enter", "test", "unlock", "wait", "block", "back", "notify"} \subseteq Steps
      /\ {"enter", "test", "unlock", "wait", "notify"} \subseteq Locked
      /\ "out" \notin Locked /\ "sync" \notin Locked /\ "block" \notin Locked /\ "back" \notin Locked
  BY DEF Steps, ConditionSteps, Locked, ConditionLocked
<1>3. (IF_[c] <=> pc[t] \notin Locked) /\ (pc[t] \in Locked => ~was)
  BY <1>1, ThreadsOnly DEF Follows
<1>4. IF_ \in [Cores -> BOOLEAN]
  BY DEF TypeOK, SchedTypeOK
<1>5. UNCHANGED <<on, phase, flags>>
  BY DEF Lock, Leave, Wait, Relock, Complete, Join, Call, Test, Notified, Notify
<1>6. ASSUME NEW s \in Steps, pc' = [pc EXCEPT ![t] = s], UNCHANGED IF_,
             s \in Locked <=> pc[t] \in Locked, UNCHANGED <<taken, was>>
      PROVE  Follows'
  <2>1. IF_'[c] <=> s \notin Locked
    BY <1>3, <1>6
  <2> QED BY <1>1, <1>5, <1>6, <2>1, OwnStepFollows
<1>7. ASSUME NEW s \in Steps, pc' = [pc EXCEPT ![t] = s], s \in Locked, pc[t] \notin Locked, lock(c)
      PROVE  Follows'
  <2>1. /\ ~taken /\ was' = ~IF_[c] /\ IF_' = [IF_ EXCEPT ![c] = FALSE]
    BY <1>7 DEF lock, SetIF
  <2>2. ~was' /\ ~IF_'[c] /\ \A d \in Cores : d # c => IF_'[d] = IF_[d]
    BY <1>3, <1>4, <1>7, <2>1
  <2> QED BY <1>1, <1>5, <1>7, <2>1, <2>2, OwnStepFollows
<1>8. ASSUME NEW s \in Steps, pc' = [pc EXCEPT ![t] = s], s \notin Locked, pc[t] \in Locked, unlock(c)
      PROVE  Follows'
  <2>1. /\ ~taken' /\ was' = was /\ IF_' = [IF_ EXCEPT ![c] = IF_[c] \/ ~was]
    BY <1>8 DEF unlock, SetIF
  <2>2. IF_'[c] /\ \A d \in Cores : d # c => IF_'[d] = IF_[d]
    BY <1>3, <1>4, <1>8, <2>1
  <2> QED BY <1>1, <1>5, <1>8, <2>1, <2>2, OwnStepFollows
<1>9. CASE Lock(c, t) \/ Relock(c, t, "test")
  BY <1>2, <1>7, <1>9 DEF Lock, Relock, At, GoTo
<1>10. CASE Leave(c, t) \/ Wait(c, t)
  BY <1>2, <1>8, <1>10 DEF Leave, Wait, At, GoTo
<1>11. CASE Complete(c, t) \/ Join(c, t) \/ Call(c, t) \/ Notified(c, t, "unlock")
  BY <1>2, <1>6, <1>11 DEF Complete, StartNotify, Join, Call, Notified, At, GoTo
<1>12. CASE Test(c, t)
  BY <1>2, <1>6, <1>12 DEF Test, At, GoTo
<1>13. CASE Notify(c, t)
  <2>1. pc[t] = "notify" /\ pc' = pc /\ UNCHANGED <<taken, was, IF_>>
    BY <1>13 DEF Notify, At
  <2>2. pc' = [pc EXCEPT ![t] = "notify"]
    BY <1>1, <2>1, ThreadsOnly
  <2> QED BY <1>2, <1>6, <2>1, <2>2
<1> QED BY <1>9, <1>10, <1>11, <1>12, <1>13

LEMMA HandlerFollows ==
  ASSUME FInv, NEW c \in Cores, HandlerStep(c)
  PROVE  Follows'
<1> USE DEF FInv
<1>1. IF_ \in [Cores -> BOOLEAN] /\ DOMAIN phase = Cores
  BY ThreadsOnly DEF TypeOK, SchedTypeOK
<1>2. /\ phase[c] \in {"handler", "locked", "schedule"} /\ UNCHANGED <<on, pc, flags>>
      /\ \/ /\ phase[c] = "handler" /\ ~taken /\ was' = ~IF_[c]
            /\ phase' = [phase EXCEPT ![c] = "locked"] /\ IF_' = [IF_ EXCEPT ![c] = FALSE]
         \/ /\ phase[c] = "locked" /\ ~taken' /\ was' = was
            /\ \/ phase' = [phase EXCEPT ![c] = "popf"]
               \/ phase' = [phase EXCEPT ![c] = "schedule"]
            /\ IF_' = [IF_ EXCEPT ![c] = IF_[c] \/ ~was]
         \/ /\ phase[c] = "schedule" /\ UNCHANGED <<taken, was, IF_>>
            /\ phase' = [phase EXCEPT ![c] = "popf"]
  BY DEF HandlerStep, HandlerLock, Queue, DoNotQueue, Schedule, HandlerReturns, lock, unlock, SetIF, lockVars
<1>3. /\ ~IF_[c]
      /\ phase[c] = "locked" => was
  BY <1>2 DEF Follows
<1>4. \A d \in Cores : ~IF_'[c] /\ (d # c => IF_'[d] = IF_[d] /\ phase'[d] = phase[d])
  BY <1>1, <1>2, <1>3
<1>5. /\ phase'[c] # "run"
      /\ phase[c] = "handler" => phase'[c] = "locked" /\ was'
      /\ phase[c] # "handler" => phase'[c] # "locked"
  BY <1>1, <1>2, <1>3
<1>6. \/ ~taken /\ (\A u \in Threads : pc[u] \notin Locked) /\ (\A d \in Cores : phase[d] # "locked")
      \/ /\ phase[c] = "locked" /\ ~taken' /\ (\A u \in Threads : pc[u] \notin Locked)
         /\ \A d \in Cores : d # c => phase[d] # "locked"
      \/ phase[c] = "schedule" /\ UNCHANGED <<taken, was>>
  BY <1>2 DEF IInv, OneOwner
<1> USE DEF Follows
<1>7. \A d \in Cores : phase'[d] # "run" => ~IF_'[d]
  BY <1>4
<1>8. \A d \in Cores : on'[d] # None /\ phase'[d] = "run" => (IF_'[d] <=> pc'[on'[d]] \notin Locked)
  BY <1>2, <1>4, <1>5
<1>9. \A u \in Threads : pc'[u] \in Locked => ~was' /\ \E d \in Cores : on'[d] = u /\ phase'[d] = "run"
  <2> SUFFICES ASSUME NEW u \in Threads, pc[u] \in Locked
               PROVE  ~was' /\ \E d \in Cores : on[d] = u /\ phase'[d] = "run"
    BY <1>2
  <2>1. phase[c] = "schedule" /\ was' = was
    BY <1>6
  <2>2. PICK d \in Cores : on[d] = u /\ phase[d] = "run"
    OBVIOUS
  <2> QED BY <1>4, <2>1, <2>2
<1>10. \A d \in Cores : phase'[d] = "locked" => was'
  BY <1>2, <1>4, <1>5, <1>6
<1>11. taken' => (\E u \in Threads : pc'[u] \in Locked) \/ (\E d \in Cores : phase'[d] = "locked")
  BY <1>2, <1>4, <1>5, <1>6
<1> QED BY <1>2, <1>7, <1>8, <1>9, <1>10, <1>11

(* A core is given to another thread, or comes out of a switch.            *)
LEMMA SwitchFollows ==
  ASSUME FInv, NEW c \in Cores, UNCHANGED <<taken, was>>,
         Block(c, on[c]) \/ Popf(c, on[c]) \/ Dispatch(c, on[c]) \/ Preempt(c, on[c]) \/ Rest(c, on[c])
  PROVE  Follows'
<1> USE DEF FInv
<1> DEFINE t == on[c]
<1>1. /\ IF_ \in [Cores -> BOOLEAN] /\ flags \in [Threads -> BOOLEAN]
      /\ on[c] \in Threads \cup {None} /\ None \notin Threads
      /\ \A d \in Cores : on[d] # None => on[d] \in Threads
  BY ThreadsOnly DEF TypeOK, SchedTypeOK
<1>2. CASE Popf(c, on[c])
  <2>1. /\ phase[c] = "popf" /\ phase' = [phase EXCEPT ![c] = "run"]
        /\ IF_' = [IF_ EXCEPT ![c] = (t = None \/ flags[t])]
        /\ flags' = [u \in Threads |-> u = t \/ flags[u]]
        /\ UNCHANGED <<on, pc>>
    BY <1>2 DEF Popf, SetIF
  <2>2. \A d \in Cores : IF d = c THEN IF_'[d] /\ phase'[d] = "run"
                                  ELSE IF_'[d] = IF_[d] /\ phase'[d] = phase[d]
    BY <1>1, <2>1, ThreadsOnly DEF Follows
  <2>3. \A u \in Threads : flags'[u]
    BY <2>1 DEF Follows
  <2>4. t # None => pc[t] \notin Locked
    BY <1>1, <2>1 DEF Follows, Apart
  <2> QED BY <2>1, <2>2, <2>3, <2>4 DEF Follows
<1>3. CASE Block(c, on[c]) \/ Dispatch(c, on[c]) \/ Preempt(c, on[c]) \/ Rest(c, on[c])
  <2>1. /\ phase[c] = "run" /\ IF_' = [IF_ EXCEPT ![c] = FALSE]
        /\ \E p \in {"handler", "popf"} : phase' = [phase EXCEPT ![c] = p]
        /\ \E h : on' = [on EXCEPT ![c] = h]
        /\ \/ t = None /\ flags' = flags
           \/ t # None /\ flags' = [flags EXCEPT ![t] = IF_[c]] /\ (IF_[c] \/ pc[t] \in {"block", "out"})
        /\ \/ pc' = pc
           \/ t # None /\ pc[t] = "block" /\ pc' = [pc EXCEPT ![t] = "back"]
    BY <1>3 DEF Block, block, Dispatch, Preempt, Rest, At, GoTo, GoToEnd, SwitchFrom, SetIF
  <2>2. "block" \notin Locked /\ "out" \notin Locked /\ "back" \notin Locked
    BY DEF Locked, ConditionLocked
  <2>3. t # None => IF_[c] /\ pc[t] \notin Locked
    BY <1>1, <2>1, <2>2 DEF Follows
  <2>4. \A u \in Threads : flags'[u]
    BY <1>1, <2>1, <2>3 DEF Follows
  <2>5. \A d \in Cores : IF d = c THEN ~IF_'[d] /\ phase'[d] \in {"handler", "popf"}
                                  ELSE IF_'[d] = IF_[d] /\ phase'[d] = phase[d] /\ on'[d] = on[d]
    BY <1>1, <2>1, ThreadsOnly
  <2>6. \A u \in Threads : pc'[u] \in Locked <=> pc[u] \in Locked
    BY <1>1, <2>1, <2>2, ThreadsOnly
  <2>7. \A d \in Cores : on'[d] # None /\ phase'[d] = "run" => (IF_'[d] <=> pc'[on'[d]] \notin Locked)
    BY <1>1, <2>5, <2>6 DEF Follows
  <2>8. \A u \in Threads : pc'[u] \in Locked => ~was' /\ \E d \in Cores : on'[d] = u /\ phase'[d] = "run"
    <3> SUFFICES ASSUME NEW u \in Threads, pc[u] \in Locked
                 PROVE  ~was' /\ \E d \in Cores : on'[d] = u /\ phase'[d] = "run"
      BY <2>6
    <3>1. PICK d \in Cores : on[d] = u /\ phase[d] = "run"
      BY DEF Follows
    <3>2. d # c
      BY <1>1, <2>3, <3>1
    <3> QED BY <2>5, <3>1, <3>2 DEF Follows
  <2>9. taken' => (\E u \in Threads : pc'[u] \in Locked) \/ (\E d \in Cores : phase'[d] = "locked")
    BY <2>1, <2>5, <2>6 DEF Follows
  <2>10. \A d \in Cores : (phase'[d] # "run" => ~IF_'[d]) /\ (phase'[d] = "locked" => was')
    BY <2>5 DEF Follows
  <2> QED BY <2>4, <2>7, <2>8, <2>9, <2>10 DEF Follows
<1> QED BY <1>2, <1>3

LEMMA FollowsInductive == FInv /\ [Next]_vars => FInv'
<1> SUFFICES ASSUME FInv, [Next]_vars PROVE FInv'
  OBVIOUS
<1>1. IInv'
  BY Inductive DEF FInv
<1>2. TypeOK' /\ Apart'
  BY <1>1, TypeKept, ApartInductive
<1>3. Follows'
  <2>1. CASE UNCHANGED vars
    BY <2>1 DEF FInv, Follows, vars, sched, cores, lockVars
  <2>2. CASE Next
    <3>1. PICK c \in Cores : Step(c, on[c])
      BY <2>2 DEF Next
    <3>2. PICK t : t = on[c]
      OBVIOUS
    <3>3. CASE \/ Lock(c, t) \/ Leave(c, t) \/ Wait(c, t) \/ Relock(c, t, "test") \/ Complete(c, t)
               \/ Join(c, t) \/ Call(c, t) \/ Test(c, t) \/ Notified(c, t, "unlock") \/ Notify(c, t)
      BY <3>2, <3>3, OwnStepsFollow
    <3>4. CASE HandlerStep(c)
      BY <3>4, HandlerFollows
    <3>5. CASE Block(c, t)
      BY <3>2, <3>5, SwitchFollows DEF Block, lockVars
    <3>6. CASE /\ Popf(c, t) \/ Dispatch(c, t) \/ Preempt(c, t) \/ Rest(c, t)
               /\ UNCHANGED lockVars
      BY <3>2, <3>6, SwitchFollows DEF lockVars
    <3>7. Step(c, t)
      BY <3>1, <3>2
    <3> QED BY <3>3, <3>4, <3>5, <3>6, <3>7
            DEF Step, BarrierStep, ConditionStep, CoreStep, PreemptStep, RestStep
  <2> QED BY <2>1, <2>2
<1> QED BY <1>1, <1>2, <1>3 DEF FInv

(* Interrupts are off with the lock and on without (condition.h:63, 87),   *)
(* and off during a switch, whichever cores the threads go to.             *)
THEOREM InterruptsFollow == Spec => []InterruptsFollowTheLock
<1>1. FInv => InterruptsFollowTheLock
  <2> SUFFICES ASSUME FInv PROVE InterruptsFollowTheLock
    OBVIOUS
  <2>1. taken => \E c \in Cores :
                   ~IF_[c] /\ (phase[c] = "locked" \/ (on[c] # None /\ pc[on[c]] \in Locked))
    BY BarrierAssumption DEF FInv, Follows
  <2> QED BY <2>1 DEF FInv, Follows, InterruptsFollowTheLock
<1> QED BY <1>1, FollowsInitially, FollowsInductive, PTL DEF Spec

=============================================================================
