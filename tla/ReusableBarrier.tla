--------------------------- MODULE ReusableBarrier ---------------------------
(***************************************************************************)
(* The reusable barrier of kernel/barrier.h, a monitor with one condition, *)
(* as threads use it again and again on a few cores.                       *)
(***************************************************************************)
EXTENDS Condition

CONSTANTS
  initial_count,
  MaxCalls  \* BOUND: the calls of sync()

ASSUME BarrierAssumption ==
  /\ IsFiniteSet(Threads) /\ None \notin Threads
  /\ initial_count \in Nat \ {0} /\ MaxCalls \in Nat

VARIABLES
  count,         \* how many threads the group still lacks
  barrierEpoch,  \* ReusableBarrier::epoch
  t_,            \* per thread, the local t of sync()
  calls          \* how often sync() was called

barrierVars == <<count, barrierEpoch, t_, calls>>
vars == <<sched, lockVars, conditionVars, barrierVars>>

Steps == ConditionSteps \cup {"out", "sync", "enter", "test", "unlock"}
Locked == ConditionLocked \cup {"enter", "test", "unlock"}

TypeOK ==
  /\ SchedTypeOK({"handler", "locked", "schedule"}, Steps)
  /\ ConditionTypeOK
  /\ count \in 1..initial_count
  /\ barrierEpoch \in Nat
  /\ t_ \in [Threads -> Nat]
  /\ calls \in 0..MaxCalls

Init ==
  /\ SchedInit
  /\ ConditionInit
  /\ count = initial_count
  /\ barrierEpoch = 0
  /\ t_ = [t \in Threads |-> 0]
  /\ calls = 0

-----------------------------------------------------------------------------

Call(c, t) ==
  /\ At(c, t, "out")
  /\ calls < MaxCalls
  /\ calls' = calls + 1
  /\ GoTo(t, "sync")
  /\ UNCHANGED <<lockVars, conditionVars, readyQ, cores, IF_, flags, count, barrierEpoch, t_>>

Lock(c, t) ==
  /\ At(c, t, "sync")
  /\ lock(c)
  /\ GoTo(t, "enter")
  /\ UNCHANGED <<conditionVars, barrierVars, readyQ, cores, flags>>

(* The last thread of a group: the barrier is as new before anybody else   *)
(* has left.                                                               *)
Complete(c, t) ==
  /\ At(c, t, "enter") /\ count = 1
  /\ t_' = [t_ EXCEPT ![t] = barrierEpoch]
  /\ barrierEpoch' = barrierEpoch + 1
  /\ count' = initial_count
  /\ StartNotify(t)
  /\ UNCHANGED <<lockVars, queue, old_epoch, readyQ, cores, IF_, flags, calls>>

Join(c, t) ==
  /\ At(c, t, "enter") /\ count # 1
  /\ t_' = [t_ EXCEPT ![t] = barrierEpoch]
  /\ count' = count - 1
  /\ GoTo(t, "test")
  /\ UNCHANGED <<lockVars, conditionVars, readyQ, cores, IF_, flags, barrierEpoch, calls>>

(* Fault: whoever wakes up leaves.                                         *)
TestOnce(c, t) ==
  /\ At(c, t, "test")
  /\ GoTo(t, IF old_epoch[t] = epoch THEN "wait" ELSE "unlock")
  /\ UNCHANGED <<lockVars, conditionVars, barrierVars, readyQ, cores, IF_, flags>>

(* while (epoch <= t)                                                      *)
Test(c, t) ==
  /\ At(c, t, "test")
  /\ GoTo(t, IF barrierEpoch <= t_[t] THEN "wait" ELSE "unlock")
  /\ UNCHANGED <<lockVars, conditionVars, barrierVars, readyQ, cores, IF_, flags>>

Leave(c, t) ==
  /\ At(c, t, "unlock")
  /\ unlock(c)
  /\ GoTo(t, "out")
  /\ UNCHANGED <<conditionVars, barrierVars, readyQ, cores, flags>>

-----------------------------------------------------------------------------

BarrierStep(c, t) ==
  \/ Lock(c, t) \/ Complete(c, t) \/ Join(c, t) \/ Test(c, t) \/ Leave(c, t)
  \/ ConditionStep(c, t, "test", "unlock") /\ UNCHANGED barrierVars

CoreStep(c, t) ==
  \/ HandlerStep(c) /\ UNCHANGED barrierVars
  \/ (Popf(c, t) \/ Dispatch(c, t)) /\ UNCHANGED <<lockVars, conditionVars, barrierVars>>

PreemptStep(c, t) == Preempt(c, t) /\ UNCHANGED <<lockVars, conditionVars, barrierVars>>
RestStep(c, t) == Rest(c, t) /\ UNCHANGED <<lockVars, conditionVars, barrierVars>>

Step(c, t) ==
  BarrierStep(c, t) \/ CoreStep(c, t) \/ Call(c, t) \/ PreemptStep(c, t) \/ RestStep(c, t)

Next == \E c \in Cores : Step(c, on[c])

(* A core goes on with a switch.  A thread that gets a core again and      *)
(* again goes on in sync(): the timer does not tick between every two      *)
(* steps.  No thread outside sync() keeps a core for ever while others     *)
(* want it.  Nobody has to call sync().                                    *)
Fairness ==
  /\ \A c \in Cores : WF_vars(CoreStep(c, on[c])) /\ SF_vars(RestStep(c, on[c]))
  /\ \A t \in Threads : SF_vars(\E c \in Cores : on[c] = t /\ BarrierStep(c, t))

Spec == Init /\ [][Next]_vars /\ Fairness

-----------------------------------------------------------------------------

(* The threads that sync() counted and that have not left it.              *)
Inside == {t \in Threads : pc[t] \notin {"out", "sync", "enter"}}

Rounds ==
  INSTANCE BarrierRounds WITH
    Count <- initial_count,
    arrived <- {t \in Inside : barrierEpoch <= t_[t]},
    released <- {t \in Inside : barrierEpoch > t_[t]}

(* Nobody passes before the group is complete, and a thread that is back   *)
(* for the next round does not mix with those that are still leaving.      *)
ImplementsRounds == Rounds!Spec

(* "No missed signals" (condition.h:34): once the lock is free, whoever is *)
(* in the queue waits for a group that is not complete.                    *)
NoMissedSignal ==
  ~taken => \A i \in DOMAIN queue : barrierEpoch <= t_[queue[i]]

(* The assertions of wait() about interrupts (condition.h:63, 87): off     *)
(* with the lock, on without.  From block() up to the popf of the thread   *)
(* that is switched to, no interrupt comes.                                *)
InterruptsFollowTheLock ==
  /\ TypeOK
  /\ \A c \in Cores : phase[c] # "run" => ~IF_[c]
  /\ taken => \E c \in Cores :
                ~IF_[c] /\ (phase[c] = "locked" \/ (on[c] # None /\ pc[on[c]] \in Locked))
  /\ \A c \in Cores :
       on[c] # None /\ phase[c] = "run" => (IF_[c] <=> pc[on[c]] \notin Locked)

(* Everybody of a complete group leaves.                                   *)
EveryoneLeaves ==
  \A t \in Threads : (t \in Inside /\ barrierEpoch > t_[t]) ~> (t \notin Inside)

=============================================================================
