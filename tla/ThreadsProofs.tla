---------------------------- MODULE ThreadsProofs ----------------------------
(***************************************************************************)
(* Proofs about the thread module, for any number of cores and workers.    *)
(*                                                                         *)
(* That a thread is in one place, that block() is not entered twice on a   *)
(* stack and even that the state is well typed depend on each other: the   *)
(* timer may only stack a second block() on a thread that is in its own    *)
(* code, which it knows from no_preempt of the active thread; the flag is  *)
(* reliable because no other core clears it, which no core does because    *)
(* each TCB is in the hands of one.  Hence one inductive invariant.        *)
(***************************************************************************)
EXTENDS Threads, TLAPS, FiniteSetTheorems, SequenceTheorems

(* The threads that are queued and switched to by the queues' rules.       *)
Movable == Workers \cup {Reaper}

Elems(q) == {q[i] : i \in DOMAIN q}
Injective(q) == \A i, j \in DOMAIN q : q[i] = q[j] => i = j

HeldBy(c) == Held(c) \cap Movable
Victims == {it[u] : u \in Threads_} \ {None}

(* OnePlace, with the five places as sets.                                 *)
Homes ==
  /\ Injective(readyQ) /\ Injective(zombies)
  /\ \A u, v \in Threads_ : it[u] # None /\ it[u] = it[v] => u = v
  /\ \A c, d \in Cores : c # d => HeldBy(c) \cap HeldBy(d) = {}
  /\ \A c \in Cores : HeldBy(c) \cap (Elems(readyQ) \cup Elems(zombies) \cup parked \cup Victims) = {}
  /\ Elems(readyQ) \cap (Elems(zombies) \cup parked \cup Victims) = {}
  /\ Elems(zombies) \cap (parked \cup Victims) = {}
  /\ parked \cap Victims = {}
  /\ \A t \in Movable :
       t \in tcbs \cup {Reaper} <=>
         \/ t \in Elems(readyQ) \/ t \in Elems(zombies) \/ t \in parked \/ t \in Victims
         \/ \E c \in Cores : t \in HeldBy(c)

(* An idle thread is met on its own core only, and a core that is in a     *)
(* handler is on the stack of another thread than the one it gives away.   *)
Idles ==
  \A c \in Cores :
    /\ isIdle(stack[c]) => stack[c] = c
    /\ isIdle(source[c]) => source[c] = c
    /\ isIdle(locals[stack[c]].next_tcb) => locals[stack[c]].next_tcb = c
    /\ source[c] # None => source[c] # stack[c] /\ pc[stack[c]] = "resume"

(* A thread that no core is on stands behind a switch.                     *)
OffStack == \A t \in Threads_ : (\A c \in Cores : stack[c] # t) => pc[t] = "resume"

(* The locals of block().                                                  *)
LocalsOnlyInBlock == \A t \in Threads_ : pc[t] \notin InBlock => locals[t] = NoLocals

LocalsOfBlock ==
  \A c \in Cores :
    LET t == stack[c] IN
    pc[t] \in InBlock =>
      /\ locals[t].core_id = c /\ locals[t].me = t
      /\ locals[t].next_tcb # t
      /\ locals[t].next_tcb = None <=> pc[t] = "remove"

ActiveIsOnStack ==
  \A c \in Cores :
    activeThreads[c] = IF pc[stack[c]] = "switch" THEN locals[stack[c]].next_tcb
                                                  ELSE stack[c]

(* block() is under way with the flags set that keep the timer out of it   *)
(* ("both save areas have the no_preempt flag set", context.s:30).         *)
Protected ==
  \A c \in Cores :
    LET t == stack[c] IN
    /\ pc[t] \in InBlock => no_preempt[t]
    /\ pc[t] \in {"activate", "switch"} => no_preempt[locals[t].next_tcb]

(* EFLAGS.IF on the core, and in the word that popf will take.             *)
Interrupts ==
  /\ \A c \in Cores :
       LET t == stack[c] IN
       /\ pc[t] \in OwnCode => IF_[c]
       /\ pc[t] = "resume" => ~IF_[c]
       /\ pc[t] \in InBlock => /\ call[t] # "start"
                               /\ call[t] \in {"yield", "stop"} => IF_[c]
  /\ \A t \in Threads_ :
       pc[t] = "resume" /\ call[t] \in {"start", "yield", "stop"} => flags[t]

(* What the thread does outside block().                                   *)
Doing(t) == IF pc[t] \in OwnCode THEN pc[t] ELSE ret[t]

OwnCodeState ==
  /\ \A t \in Threads_ : Doing(t) = "delete" <=> it[t] # None
  /\ \A t \in Movable : pc[t] # "boot" /\ ret[t] # "boot"
  /\ \A t \in Cores : ret[t] = "work"
  /\ \A w \in Workers \ tcbs : ret[w] = "work"
  /\ \A t \in Threads_ : call[t] = "stop" /\ pc[t] \notin OwnCode => ret[t] = "work"

(* Who calls block() for what, and that stop() is the end.                 *)
CallState ==
  /\ \A t \in Threads_ : call[t] = "wait" => t \in Workers
  /\ call[Reaper] # "stop"
  /\ \A t \in Cores : call[t] \in {"start", "stop"}
  /\ \A w \in Elems(zombies) \cup Victims : call[w] = "stop"
  /\ \A w \in Workers :
       call[w] = "stop" =>
         /\ w \notin Elems(readyQ) /\ w \notin parked
         /\ \A c \in Cores : /\ locals[stack[c]].next_tcb # w
                             /\ stack[c] = w => pc[w] \in InBlock

Arrivals == arrived = Cardinality({c \in Cores : pc[c] # "boot"})

IInv ==
  /\ TypeOK
  /\ Homes
  /\ Idles
  /\ OffStack
  /\ LocalsOnlyInBlock
  /\ LocalsOfBlock
  /\ ActiveIsOnStack
  /\ Protected
  /\ Interrupts
  /\ OwnCodeState
  /\ CallState
  /\ Arrivals

-----------------------------------------------------------------------------

(* Queues as sets.                                                         *)
LEMMA AppendElems ==
  ASSUME NEW S, NEW q \in Seq(S), NEW x \in S
  PROVE  /\ Append(q, x) \in Seq(S)
         /\ Elems(Append(q, x)) = Elems(q) \cup {x}
         /\ Injective(q) /\ x \notin Elems(q) => Injective(Append(q, x))
<1>1. /\ Append(q, x) \in Seq(S)
      /\ Len(Append(q, x)) = Len(q) + 1
      /\ \A i \in 1..Len(q) : Append(q, x)[i] = q[i]
      /\ Append(q, x)[Len(q) + 1] = x
      /\ Len(q) \in Nat /\ DOMAIN q = 1..Len(q)
      /\ DOMAIN Append(q, x) = 1..(Len(q) + 1)
  BY AppendProperties, LenProperties
<1>2. 1..(Len(q) + 1) = 1..Len(q) \cup {Len(q) + 1}
  BY <1>1
<1>3. Elems(Append(q, x)) = Elems(q) \cup {x}
  BY <1>1, <1>2 DEF Elems
<1>4. ASSUME Injective(q), x \notin Elems(q) PROVE Injective(Append(q, x))
  BY <1>1, <1>2, <1>4 DEF Elems, Injective
<1>5. QED
  BY <1>1, <1>3, <1>4

LEMMA TailElems ==
  ASSUME NEW S, NEW q \in Seq(S), q # <<>>
  PROVE  /\ Tail(q) \in Seq(S)
         /\ Head(q) \in S
         /\ Elems(q) = Elems(Tail(q)) \cup {Head(q)}
         /\ Injective(q) => Injective(Tail(q)) /\ Head(q) \notin Elems(Tail(q))
<1>1. /\ Head(q) \in S /\ Head(q) = q[1]
      /\ Tail(q) \in Seq(S)
      /\ Len(Tail(q)) = Len(q) - 1
      /\ \A i \in 1..(Len(q) - 1) : Tail(q)[i] = q[i + 1]
      /\ Len(q) \in Nat /\ Len(q) # 0 /\ DOMAIN q = 1..Len(q)
      /\ DOMAIN Tail(q) = 1..(Len(q) - 1)
  BY HeadTailProperties, LenProperties, EmptySeq
<1>2. \A i \in 1..Len(q) : i = 1 \/ (i - 1 \in 1..(Len(q) - 1) /\ Tail(q)[i - 1] = q[i])
  BY <1>1
<1>3. Elems(q) = Elems(Tail(q)) \cup {Head(q)}
  <2>1. ASSUME NEW x \in Elems(q) PROVE x \in Elems(Tail(q)) \cup {Head(q)}
    <3>1. PICK i \in 1..Len(q) : x = q[i]
      BY <1>1, <2>1 DEF Elems
    <3>2. QED
      BY <1>1, <1>2, <3>1 DEF Elems
  <2>2. ASSUME NEW x \in Elems(Tail(q)) PROVE x \in Elems(q)
    <3>1. PICK i \in 1..(Len(q) - 1) : x = q[i + 1]
      BY <1>1, <2>2 DEF Elems
    <3>2. i + 1 \in DOMAIN q
      BY <1>1
    <3>3. QED
      BY <3>1, <3>2 DEF Elems
  <2>3. 1 \in DOMAIN q
    BY <1>1
  <2>4. Head(q) \in Elems(q)
    BY <1>1, <2>3 DEF Elems
  <2>5. QED
    BY <2>1, <2>2, <2>4
<1>4. ASSUME Injective(q) PROVE Injective(Tail(q)) /\ Head(q) \notin Elems(Tail(q))
  BY <1>1, <1>4 DEF Elems, Injective
<1>5. QED
  BY <1>1, <1>3, <1>4

(* Two cores never have the same TCB in hand.                              *)
LEMMA HeldOnce ==
  ASSUME Idles, Homes, TypeOK,
         NEW c \in Cores, NEW d \in Cores, NEW t,
         t \in Held(c), t \in Held(d), t # None
  PROVE  c = d
<1>1. t \in Threads_
  BY DEF Held, TypeOK, Locals
<1>2. CASE t \in Cores
  BY <1>2 DEF Idles, Held, isIdle
<1>3. CASE t \in Movable
  BY <1>3 DEF Homes, HeldBy
<1>4. QED
  BY <1>1, <1>2, <1>3 DEF Threads_, Movable

-----------------------------------------------------------------------------

(* What the invariant says about the core that takes a step.               *)
LEMMA CoreFacts ==
  ASSUME IInv, NEW c \in Cores
  PROVE  /\ stack[c] \in Threads_
         /\ stack[c] # None
         /\ \A d \in Cores : stack[d] = stack[c] => d = c
         /\ pc[stack[c]] # "switch" => activeThreads[c] = stack[c]
<1>1. stack[c] \in Threads_ /\ stack[c] # None
  BY ThreadsAssumption DEF IInv, TypeOK, Threads_
<1>2. \A d \in Cores : stack[d] \in Held(d)
  BY DEF Held
<1>3. \A d \in Cores : stack[d] = stack[c] => d = c
  BY <1>1, <1>2, HeldOnce DEF IInv
<1>4. QED
  BY <1>1, <1>3 DEF IInv, ActiveIsOnStack

(* What a core has in hand is nowhere else.                                *)
LEMMA HeldApart ==
  ASSUME IInv, NEW c \in Cores, NEW t \in Movable, t \in Held(c)
  PROVE  /\ t \notin Elems(readyQ) /\ t \notin Elems(zombies)
         /\ t \notin parked /\ t \notin Victims
         /\ t \in tcbs \cup {Reaper}
         /\ \A d \in Cores : t \in Held(d) => d = c
<1>1. t \in HeldBy(c)
  BY DEF HeldBy
<1>2. t # None
  BY ThreadsAssumption DEF Movable
<1>3. QED
  BY <1>1, <1>2, HeldOnce DEF IInv, Homes

(* Entering block() from the own code of a thread.                         *)
LEMMA EnterStep ==
  ASSUME IInv, NEW c \in Cores, NEW t, t = stack[c], source[c] = None,
         pc[t] \in OwnCode,
         NEW why \in Calls \ {"start"}, NEW back \in OwnCode,
         Enter(c, t, why, back),
         IF_' \in [Cores -> BOOLEAN], \A d \in Cores : d # c => IF_'[d] = IF_[d],
         why \in {"yield", "stop"} => IF_'[c],
         why = "wait" => t \in Workers,
         why = "stop" => t # Reaper /\ back = "work",
         t \in Cores => why = "stop",
         back # "boot", back = "delete" <=> it[t] # None,
         pc[t] # "boot"
  PROVE  IInv'
<1> USE DEF IInv
<1>1. /\ t \in Threads_ /\ activeThreads[c] = t
      /\ \A d \in Cores : d # c => stack[d] # t
  BY CoreFacts DEF OwnCode
<1>2. /\ locals' = [locals EXCEPT ![t] = [core_id |-> c, me |-> t, next_tcb |-> None]]
      /\ no_preempt' = [no_preempt EXCEPT ![t] = TRUE]
      /\ call' = [call EXCEPT ![t] = why]
      /\ ret' = [ret EXCEPT ![t] = back]
      /\ pc' = [pc EXCEPT ![t] = "remove"]
      /\ UNCHANGED <<queues, tcbs, arrived, switching, flags, it>>
  BY <1>1 DEF Enter, GoTo
<1> USE <1>1, <1>2 DEF queues, switching, Calls, OwnCode, InBlock
<1>3. locals[t] = NoLocals
  BY DEF LocalsOnlyInBlock
<1>4. \A d \in Cores : Held(d)' = Held(d) /\ locals'[stack[d]].next_tcb = locals[stack[d]].next_tcb
  BY <1>3 DEF Held, TypeOK, NoLocals
<1>5. TypeOK'
  BY DEF TypeOK, Locals, Threads_
<1>6. Homes'
  <2>1. /\ Elems(readyQ)' = Elems(readyQ) /\ Elems(zombies)' = Elems(zombies)
        /\ Injective(readyQ)' = Injective(readyQ) /\ Injective(zombies)' = Injective(zombies)
        /\ Victims' = Victims
    BY DEF Elems, Injective, Victims
  <2>2. \A d \in Cores : HeldBy(d)' = HeldBy(d)
    BY <1>4 DEF HeldBy
  <2>3. QED
    BY <2>1, <2>2 DEF Homes
<1>7. Idles'
  BY <1>4, <1>1, <1>3 DEF Idles, TypeOK, NoLocals
<1>8. OffStack'
  BY DEF OffStack, TypeOK
<1>9. LocalsOnlyInBlock'
  BY DEF LocalsOnlyInBlock, TypeOK
<1>10. LocalsOfBlock'
  BY ThreadsAssumption DEF LocalsOfBlock, TypeOK, Threads_
<1>11. ActiveIsOnStack'
  BY DEF ActiveIsOnStack, TypeOK
<1>12. Protected'
  BY DEF Protected, TypeOK
<1>13. Interrupts'
  BY DEF Interrupts, TypeOK
<1>14. OwnCodeState'
  <2>1. \A u \in Threads_ : (Doing(u) = "delete" <=> it[u] # None)'
    BY DEF OwnCodeState, Doing, TypeOK
  <2>2. t \in Workers => t \in tcbs
    BY HeldApart, ThreadsAssumption DEF Held, Movable
  <2>3. QED
    BY <2>1, <2>2 DEF OwnCodeState, TypeOK, Movable, Threads_
<1>15. CallState'
  <2>1. Elems(readyQ)' = Elems(readyQ) /\ Elems(zombies)' = Elems(zombies) /\ Victims' = Victims
    BY DEF Elems, Victims
  <2>2. t \in Workers =>
          /\ t \notin Elems(readyQ) /\ t \notin Elems(zombies)
          /\ t \notin parked /\ t \notin Victims
          /\ \A d \in Cores : t \in Held(d) => d = c
    BY HeldApart DEF Held, Movable
  <2>3. \A d \in Cores : locals'[stack[d]].next_tcb \in Held(d)
    BY <1>4 DEF Held
  <2>4. Elems(zombies) \cup Victims \subseteq Workers
    BY DEF Elems, Victims, TypeOK
  <2>5. ASSUME NEW w \in Workers, call'[w] = "stop"
        PROVE  /\ w \notin Elems(readyQ) /\ w \notin parked
               /\ \A d \in Cores : /\ locals'[stack[d]].next_tcb # w
                                   /\ stack[d] = w => pc'[w] \in InBlock
    <3>1. CASE w = t
      <4>1. locals'[t].next_tcb = None /\ w # None
        BY ThreadsAssumption DEF TypeOK
      <4>2. \A d \in Cores : locals'[stack[d]].next_tcb # w
        BY <2>2, <2>3, <3>1, <4>1
      <4>3. QED
        BY <2>2, <3>1, <4>2 DEF TypeOK
    <3>2. CASE w # t
      BY <1>4, <2>5, <3>2 DEF CallState, TypeOK, Threads_
    <3>3. QED
      BY <3>1, <3>2
  <2>6. call'[Reaper] # "stop" /\ \A u \in Threads_ : call'[u] = "wait" => u \in Workers
    BY DEF CallState, TypeOK, Threads_
  <2>7. \A u \in Cores : call'[u] \in {"start", "stop"}
    BY DEF CallState, TypeOK, Threads_
  <2>8. \A w \in Elems(zombies) \cup Victims : call'[w] = "stop"
    BY <2>2, <2>4 DEF CallState, TypeOK, Threads_
  <2>9. QED
    BY <2>1, <2>5, <2>6, <2>7, <2>8 DEF CallState
<1>16. Arrivals'
  <2>1. \A d \in Cores : pc'[d] = "boot" <=> pc[d] = "boot"
    BY DEF TypeOK
  <2>2. QED
    BY <2>1 DEF Arrivals
<1>17. QED
  BY <1>5, <1>6, <1>7, <1>8, <1>9, <1>10, <1>11, <1>12, <1>13, <1>14, <1>15, <1>16

-----------------------------------------------------------------------------

(* What the guards of the timer handler establish (pit.cc:145-146).        *)
LEMMA TimerSeesOwnCode == IInv => PreemptedOnlyOutsideBlock
<1> SUFFICES ASSUME IInv, NEW c \in Cores, IF_[c],
                    ~isIdle(activeThreads[c]), ~no_preempt[activeThreads[c]]
             PROVE  /\ source[c] = None /\ stack[c] = activeThreads[c]
                    /\ pc[activeThreads[c]] \in OwnCode
  BY DEF PreemptedOnlyOutsideBlock
<1>1. pc[stack[c]] # "resume"
  BY DEF IInv, Interrupts
<1>2. source[c] = None
  BY <1>1 DEF IInv, Idles
<1>3. pc[stack[c]] # "switch"
  BY DEF IInv, ActiveIsOnStack, Protected
<1>4. activeThreads[c] = stack[c]
  BY <1>3, CoreFacts
<1>5. pc[stack[c]] \notin InBlock
  BY <1>4 DEF IInv, Protected
<1>6. QED
  BY <1>1, <1>2, <1>4, <1>5, CoreFacts DEF IInv, TypeOK

LEMMA CallersStep ==
  ASSUME IInv, NEW c \in Cores, NEW t, t = stack[c],
         Yield(c, t) \/ Stop(c, t) \/ Wait(c, t) \/ Timer(c, t)
  PROVE  IInv'
<1>1. t \in Threads_
  BY CoreFacts
<1>2. \A u \in Threads_ : pc[u] \in OwnCode => (pc[u] = "delete" <=> it[u] # None)
  BY DEF IInv, OwnCodeState, Doing
<1>3. CASE Yield(c, t)
  <2>1. /\ source[c] = None /\ pc[t] = "work" /\ Enter(c, t, "yield", "clean")
        /\ IF_' = IF_ /\ t = Reaper
    BY <1>3 DEF Yield, At
  <2>2. IF_[c]
    BY <2>1 DEF IInv, Interrupts, OwnCode
  <2>3. Reaper \notin Cores
    BY ThreadsAssumption
  <2>4. QED
    BY <1>1, <1>2, <2>1, <2>2, <2>3, EnterStep DEF OwnCode, Calls, IInv, TypeOK
<1>4. CASE Stop(c, t)
  <2>1. /\ source[c] = None /\ pc[t] = "work" /\ Enter(c, t, "stop", "work")
        /\ IF_' = IF_ /\ t # Reaper
    BY <1>4 DEF Stop, At
  <2>2. IF_[c]
    BY <2>1 DEF IInv, Interrupts, OwnCode
  <2>3. QED
    BY <1>1, <1>2, <2>1, <2>2, EnterStep DEF OwnCode, Calls, IInv, TypeOK
<1>5. CASE Wait(c, t)
  <2>1. /\ source[c] = None /\ pc[t] = "work" /\ Enter(c, t, "wait", "work")
        /\ t \in Workers
    BY <1>5 DEF Wait, At
  <2>2. PICK b \in BOOLEAN : IF_' = [IF_ EXCEPT ![c] = b]
    BY <1>5 DEF Wait, SetIF
  <2>3. t \notin Cores
    BY <2>1, ThreadsAssumption
  <2>4. QED
    BY <1>1, <1>2, <2>1, <2>2, <2>3, EnterStep DEF OwnCode, Calls, IInv, TypeOK
<1>6. CASE Timer(c, t)
  <2>1. /\ source[c] = None /\ pc[t] \in OwnCode /\ t = activeThreads[c]
    BY <1>6, TimerSeesOwnCode DEF Timer, PreemptedOnlyOutsideBlock
  <2>2. /\ Enter(c, t, "tick", pc[t]) /\ t \notin Cores
        /\ IF_' = [IF_ EXCEPT ![c] = FALSE]
    BY <1>6, <2>1 DEF Timer, isIdle, SetIF
  <2>3. pc[t] # "boot"
    BY <1>1, <2>2 DEF IInv, OwnCodeState, Threads_, Movable
  <2>4. QED
    BY <1>1, <1>2, <2>1, <2>2, <2>3, EnterStep DEF Calls, IInv, TypeOK
<1>7. QED
  BY <1>3, <1>4, <1>5, <1>6

(* Nothing moves between the places.                                       *)
LEMMA HomesSame ==
  ASSUME Homes, UNCHANGED <<readyQ, zombies, parked, tcbs, it>>,
         \A d \in Cores : HeldBy(d)' = HeldBy(d)
  PROVE  /\ Homes'
         /\ Elems(readyQ)' = Elems(readyQ) /\ Elems(zombies)' = Elems(zombies)
         /\ Victims' = Victims
<1>1. /\ Elems(readyQ)' = Elems(readyQ) /\ Elems(zombies)' = Elems(zombies)
      /\ Injective(readyQ)' = Injective(readyQ) /\ Injective(zombies)' = Injective(zombies)
      /\ Victims' = Victims
  BY DEF Elems, Injective, Victims
<1>2. QED
  BY <1>1 DEF Homes

(* A step of a thread's own code that only goes on.                        *)
LEMMA OwnCodeStep ==
  ASSUME IInv, NEW c \in Cores, NEW t, t = stack[c], source[c] = None,
         pc[t] \in OwnCode, NEW step \in OwnCode, GoTo(t, step),
         step = "delete" <=> it[t] # None, t \in Movable => step # "boot",
         arrived' \in 0..Cardinality(Cores), Arrivals',
         UNCHANGED <<queues, tcbs, switching, IF_, blocking, no_preempt, flags, it>>
  PROVE  IInv'
<1> USE DEF IInv, queues, switching, blocking, OwnCode, InBlock, GoTo
<1>1. t \in Threads_ /\ \A d \in Cores : stack[d] = t => d = c
  BY CoreFacts
<1>2. \A d \in Cores : Held(d)' = Held(d) /\ HeldBy(d)' = HeldBy(d)
  BY DEF Held, HeldBy
<1>3. Homes' /\ Elems(readyQ)' = Elems(readyQ) /\ Elems(zombies)' = Elems(zombies)
      /\ Victims' = Victims
  BY <1>2, HomesSame
<1>4. TypeOK'
  BY DEF TypeOK
<1>5. Idles' /\ OffStack' /\ LocalsOnlyInBlock'
  BY <1>1 DEF Idles, OffStack, LocalsOnlyInBlock, TypeOK
<1>6. LocalsOfBlock' /\ ActiveIsOnStack' /\ Protected'
  BY <1>1 DEF LocalsOfBlock, ActiveIsOnStack, Protected, TypeOK
<1>7. Interrupts'
  BY <1>1 DEF Interrupts, TypeOK
<1>8. OwnCodeState'
  BY <1>1 DEF OwnCodeState, Doing, TypeOK
<1>9. CallState'
  BY <1>1, <1>3 DEF CallState, TypeOK
<1>10. QED
  BY <1>3, <1>4, <1>5, <1>6, <1>7, <1>8, <1>9

LEMMA ArriveStep ==
  ASSUME IInv, NEW c \in Cores, NEW t, t = stack[c], Arrive(c, t)
  PROVE  IInv'
<1> DEFINE Here == {d \in Cores : pc[d] # "boot"}
<1>1. /\ source[c] = None /\ pc[t] = "boot" /\ arrived' = arrived + 1
      /\ UNCHANGED <<queues, tcbs, switching, IF_, blocking, no_preempt, flags, it>>
  BY DEF Arrive, At
<1>2. PICK step \in {"clean", "work"} : GoTo(t, step)
  BY DEF Arrive
<1>3. t \in Cores /\ t = c
  BY <1>1, CoreFacts DEF IInv, OwnCodeState, Threads_, Movable, Idles, isIdle
<1>4. /\ IsFiniteSet(Here) /\ c \notin Here
      /\ Here \cup {c} \subseteq Cores
  BY <1>1, <1>3, ThreadsAssumption, FS_Subset
<1>5. /\ Cardinality(Here \cup {c}) = Cardinality(Here) + 1
      /\ Cardinality(Here) \in Nat
      /\ Cardinality(Cores) \in Nat
      /\ Cardinality(Here \cup {c}) <= Cardinality(Cores)
  BY <1>4, ThreadsAssumption, FS_AddElement, FS_CardinalityType, FS_Subset
<1>6. {d \in Cores : pc'[d] # "boot"} = Here \cup {c}
  BY <1>2, <1>3 DEF GoTo, IInv, TypeOK, Threads_
<1>7. Arrivals' /\ arrived' \in 0..Cardinality(Cores)
  BY <1>1, <1>5, <1>6 DEF IInv, Arrivals
<1>8. it[t] = None
  BY <1>1, <1>3 DEF IInv, OwnCodeState, Doing, OwnCode, Threads_
<1>9. QED
  BY <1>1, <1>2, <1>3, <1>7, <1>8, OwnCodeStep DEF OwnCode

LEMMA OwnCodeMoves ==
  ASSUME IInv, NEW c \in Cores, NEW t, t = stack[c], NoZombie(c, t) \/ Spawn(c, t)
  PROVE  IInv'
<1>1. /\ source[c] = None /\ pc[t] \in {"clean", "work"} /\ arrived' = arrived
      /\ UNCHANGED <<queues, tcbs, switching, IF_, blocking, no_preempt, flags, it>>
  BY DEF NoZombie, Spawn, At
<1>2. PICK step \in {"work", "create", "clean"} : GoTo(t, step)
  BY DEF NoZombie, Spawn
<1>3. it[t] = None
  BY <1>1, CoreFacts DEF IInv, OwnCodeState, Doing, OwnCode
<1>4. {d \in Cores : pc'[d] # "boot"} = {d \in Cores : pc[d] # "boot"}
  BY <1>1, <1>2 DEF GoTo, IInv, TypeOK
<1>5. Arrivals' /\ arrived' \in 0..Cardinality(Cores)
  BY <1>1, <1>4 DEF IInv, Arrivals, TypeOK
<1>6. QED
  BY <1>1, <1>2, <1>3, <1>5, OwnCodeStep DEF OwnCode

(* A yield that finds nobody returns to where it was called.               *)
LEMMA ReturnAtOnceStep ==
  ASSUME IInv, NEW c \in Cores, NEW t, t = stack[c], ReturnAtOnce(c, t)
  PROVE  IInv'
<1> USE DEF IInv, queues, switching, OwnCode, InBlock, GoTo, SetIF, Return
<1>1. t \in Threads_ /\ \A d \in Cores : stack[d] = t => d = c
  BY CoreFacts
<1>2. /\ source[c] = None /\ pc[t] = "remove" /\ call[t] \in {"yield", "tick"}
      /\ locals' = [locals EXCEPT ![t] = NoLocals]
      /\ pc' = [pc EXCEPT ![t] = ret[t]]
      /\ ret' = [ret EXCEPT ![t] = "work"]
      /\ IF_' = [IF_ EXCEPT ![c] = IF_[c] \/ call[t] = "tick"]
      /\ UNCHANGED <<queues, tcbs, arrived, switching, call, no_preempt, flags, it>>
  BY DEF ReturnAtOnce, At, CanReturn
<1>3. locals[t].next_tcb = None /\ ret[t] \in OwnCode /\ IF_'[c]
  BY <1>1, <1>2 DEF LocalsOfBlock, TypeOK, Interrupts
<1>4. /\ t \in Movable
      /\ ret[t] # "boot"
  BY <1>1, <1>2 DEF CallState, Threads_, Movable, OwnCodeState
<1>5. \A d \in Cores : /\ Held(d)' = Held(d) /\ HeldBy(d)' = HeldBy(d)
                       /\ locals'[stack[d]].next_tcb = locals[stack[d]].next_tcb
  BY <1>1, <1>2, <1>3 DEF Held, HeldBy, TypeOK, NoLocals
<1>6. Homes' /\ Elems(readyQ)' = Elems(readyQ) /\ Elems(zombies)' = Elems(zombies)
      /\ Victims' = Victims
  BY <1>2, <1>5, HomesSame
<1>7. TypeOK'
  BY <1>1, <1>2, <1>3 DEF TypeOK, Locals, NoLocals
<1>8. Idles' /\ OffStack' /\ LocalsOnlyInBlock'
  BY <1>1, <1>2, <1>3, <1>5 DEF Idles, OffStack, LocalsOnlyInBlock, TypeOK
<1>9. LocalsOfBlock' /\ ActiveIsOnStack' /\ Protected'
  BY <1>1, <1>2, <1>3 DEF LocalsOfBlock, ActiveIsOnStack, Protected, TypeOK
<1>10. Interrupts'
  BY <1>1, <1>2, <1>3 DEF Interrupts, TypeOK
<1>11. OwnCodeState'
  BY <1>1, <1>2, <1>3, <1>4, ThreadsAssumption DEF OwnCodeState, Doing, TypeOK, Movable
<1>12. CallState'
  BY <1>1, <1>2, <1>5, <1>6 DEF CallState, TypeOK
<1>13. Arrivals'
  <2>1. \A d \in Cores : pc'[d] = pc[d]
    BY <1>2, <1>4, ThreadsAssumption DEF TypeOK, Movable
  <2>2. QED
    BY <1>2, <2>1 DEF Arrivals
<1>14. QED
  BY <1>6, <1>7, <1>8, <1>9, <1>10, <1>11, <1>12, <1>13

(* A thread that must block and finds nobody turns to its idle thread.     *)
LEMMA FallBackToIdleStep ==
  ASSUME IInv, NEW c \in Cores, NEW t, t = stack[c], FallBackToIdle(c, t)
  PROVE  IInv'
<1> USE DEF IInv, queues, switching, OwnCode, InBlock, GoTo
<1>1. t \in Threads_ /\ \A d \in Cores : stack[d] = t => d = c
  BY CoreFacts
<1>2. /\ source[c] = None /\ pc[t] = "remove" /\ ~isIdle(locals[t].me)
      /\ locals' = [locals EXCEPT ![t].next_tcb = locals[t].core_id]
      /\ pc' = [pc EXCEPT ![t] = "claim"]
      /\ UNCHANGED <<queues, tcbs, arrived, switching, IF_, call, ret, no_preempt,
                     flags, it>>
  BY DEF FallBackToIdle, At, SetNext
<1>3. /\ locals[t].next_tcb = None /\ locals[t].core_id = c /\ locals[t].me = t
      /\ c # None /\ c \notin Movable /\ c # t
  BY <1>1, <1>2, ThreadsAssumption DEF LocalsOfBlock, isIdle, Movable
<1>4. /\ locals'[t] = [core_id |-> c, me |-> t, next_tcb |-> c]
      /\ \A u \in Threads_ : u # t => locals'[u] = locals[u]
  BY <1>1, <1>2, <1>3 DEF TypeOK, Locals
<1>5. \A d \in Cores : HeldBy(d)' = HeldBy(d)
  <2>1. ASSUME NEW d \in Cores, d # c PROVE Held(d)' = Held(d)
    BY <1>1, <1>2, <1>4, <2>1 DEF Held, TypeOK
  <2>2. Held(c) = {t, None} /\ Held(c)' = {t, None, c}
    BY <1>2, <1>3, <1>4 DEF Held
  <2>3. None \notin Movable
    BY ThreadsAssumption DEF Movable
  <2>4. HeldBy(c)' = HeldBy(c)
    BY <1>3, <2>2, <2>3 DEF HeldBy
  <2>5. QED
    BY <2>1, <2>4 DEF HeldBy
<1>6. Homes' /\ Elems(readyQ)' = Elems(readyQ) /\ Elems(zombies)' = Elems(zombies)
      /\ Victims' = Victims
  BY <1>2, <1>5, HomesSame
<1>7. TypeOK'
  <2>1. locals'[t] \in Locals
    BY <1>1, <1>4 DEF Locals, Threads_
  <2>2. locals' \in [Threads_ -> Locals]
    BY <1>2, <1>4, <2>1 DEF TypeOK
  <2>3. pc' \in [Threads_ -> OwnCode \cup InBlock \cup {"resume"}]
    BY <1>2 DEF TypeOK
  <2>4. QED
    BY <1>2, <2>2, <2>3 DEF TypeOK
<1>8. Idles' /\ OffStack' /\ LocalsOnlyInBlock'
  BY <1>1, <1>2, <1>3, <1>4 DEF Idles, OffStack, LocalsOnlyInBlock, TypeOK, isIdle
<1>9. LocalsOfBlock' /\ ActiveIsOnStack' /\ Protected'
  BY <1>1, <1>2, <1>3, <1>4 DEF LocalsOfBlock, ActiveIsOnStack, Protected, TypeOK
<1>10. Interrupts' /\ OwnCodeState'
  BY <1>1, <1>2 DEF Interrupts, OwnCodeState, Doing, TypeOK
<1>11. CallState'
  <2>1. \A d \in Cores, w \in Workers :
          locals'[stack[d]].next_tcb = w => locals[stack[d]].next_tcb = w
    BY <1>1, <1>3, <1>4, ThreadsAssumption DEF TypeOK
  <2>2. QED
    BY <1>1, <1>2, <1>6, <2>1 DEF CallState, TypeOK
<1>12. Arrivals'
  <2>1. \A d \in Cores : pc'[d] = "boot" <=> pc[d] = "boot"
    BY <1>2 DEF TypeOK
  <2>2. QED
    BY <1>2, <2>1 DEF Arrivals
<1>13. QED
  BY <1>6, <1>7, <1>8, <1>9, <1>10, <1>11, <1>12

(* The next thread cannot be preempted from the moment it is chosen.       *)
LEMMA ClaimStep ==
  ASSUME IInv, NEW c \in Cores, NEW t, t = stack[c], Claim(c, t)
  PROVE  IInv'
<1> DEFINE n == locals[t].next_tcb
<1> USE DEF IInv, queues, switching, blocking, OwnCode, InBlock, GoTo
<1>1. t \in Threads_ /\ \A d \in Cores : stack[d] = t => d = c
  BY CoreFacts
<1>2. /\ source[c] = None /\ pc[t] = "claim"
      /\ no_preempt' = [no_preempt EXCEPT ![n] = TRUE]
      /\ pc' = [pc EXCEPT ![t] = "activate"]
      /\ UNCHANGED <<queues, tcbs, arrived, switching, IF_, blocking, flags, it>>
  BY DEF Claim, At
<1>3. n \in Threads_
  BY <1>1, <1>2 DEF LocalsOfBlock, TypeOK, Locals
<1>4. \A d \in Cores : Held(d)' = Held(d) /\ HeldBy(d)' = HeldBy(d)
  BY <1>2 DEF Held, HeldBy
<1>5. Homes' /\ Elems(readyQ)' = Elems(readyQ) /\ Elems(zombies)' = Elems(zombies)
      /\ Victims' = Victims
  BY <1>2, <1>4, HomesSame
<1>6. TypeOK'
  BY <1>1, <1>2 DEF TypeOK
<1>7. Idles' /\ OffStack' /\ LocalsOnlyInBlock'
  BY <1>1, <1>2 DEF Idles, OffStack, LocalsOnlyInBlock, TypeOK
<1>8. LocalsOfBlock' /\ ActiveIsOnStack'
  BY <1>1, <1>2 DEF LocalsOfBlock, ActiveIsOnStack, TypeOK
<1>9. Protected'
  BY <1>1, <1>2, <1>3 DEF Protected, TypeOK
<1>10. Interrupts' /\ OwnCodeState'
  BY <1>1, <1>2 DEF Interrupts, OwnCodeState, Doing, TypeOK
<1>11. CallState'
  BY <1>1, <1>2, <1>5 DEF CallState, TypeOK
<1>12. Arrivals'
  <2>1. \A d \in Cores : pc'[d] = "boot" <=> pc[d] = "boot"
    BY <1>2 DEF TypeOK
  <2>2. QED
    BY <1>2, <2>1 DEF Arrivals
<1>13. QED
  BY <1>5, <1>6, <1>7, <1>8, <1>9, <1>10, <1>11, <1>12

LEMMA ActivateStep ==
  ASSUME IInv, NEW c \in Cores, NEW t, t = stack[c], Activate(c, t)
  PROVE  IInv'
<1> DEFINE n == locals[t].next_tcb
<1> USE DEF IInv, queues, blocking, OwnCode, InBlock, GoTo
<1>1. t \in Threads_ /\ \A d \in Cores : stack[d] = t => d = c
  BY CoreFacts
<1>2. /\ source[c] = None /\ pc[t] = "activate"
      /\ locals[t].core_id = c
      /\ activeThreads' = [activeThreads EXCEPT ![c] = n]
      /\ pc' = [pc EXCEPT ![t] = "switch"]
      /\ UNCHANGED <<queues, tcbs, arrived, stack, source, IF_, blocking, no_preempt,
                     flags, it>>
  BY DEF Activate, At, LocalsOfBlock
<1>3. n \in Threads_ /\ no_preempt[n]
  BY <1>1, <1>2 DEF LocalsOfBlock, Protected, TypeOK, Locals
<1>4. \A d \in Cores : Held(d)' = Held(d) /\ HeldBy(d)' = HeldBy(d)
  BY <1>2 DEF Held, HeldBy
<1>5. Homes' /\ Elems(readyQ)' = Elems(readyQ) /\ Elems(zombies)' = Elems(zombies)
      /\ Victims' = Victims
  BY <1>2, <1>4, HomesSame
<1>6. TypeOK'
  BY <1>1, <1>2, <1>3 DEF TypeOK
<1>7. Idles' /\ OffStack' /\ LocalsOnlyInBlock'
  BY <1>1, <1>2 DEF Idles, OffStack, LocalsOnlyInBlock, TypeOK
<1>8. LocalsOfBlock' /\ ActiveIsOnStack'
  BY <1>1, <1>2 DEF LocalsOfBlock, ActiveIsOnStack, TypeOK
<1>9. Protected'
  BY <1>1, <1>2, <1>3 DEF Protected, TypeOK
<1>10. Interrupts' /\ OwnCodeState'
  BY <1>1, <1>2 DEF Interrupts, OwnCodeState, Doing, TypeOK
<1>11. CallState'
  BY <1>1, <1>2, <1>5 DEF CallState, TypeOK
<1>12. Arrivals'
  <2>1. \A d \in Cores : pc'[d] = "boot" <=> pc[d] = "boot"
    BY <1>2 DEF TypeOK
  <2>2. QED
    BY <1>2, <2>1 DEF Arrivals
<1>13. QED
  BY <1>5, <1>6, <1>7, <1>8, <1>9, <1>10, <1>11, <1>12

(* The head of the ready queue passes into the hands of the core.          *)
LEMMA DequeueStep ==
  ASSUME IInv, NEW c \in Cores, NEW t, t = stack[c], Dequeue(c, t)
  PROVE  IInv'
<1> DEFINE h == Head(readyQ)
<1> USE DEF IInv, switching, OwnCode, InBlock, GoTo
<1>1. t \in Threads_ /\ \A d \in Cores : stack[d] = t => d = c
  BY CoreFacts
<1>2. /\ source[c] = None /\ pc[t] = "remove" /\ readyQ # <<>>
      /\ locals' = [locals EXCEPT ![t].next_tcb = h]
      /\ pc' = [pc EXCEPT ![t] = "claim"]
      /\ readyQ' = Tail(readyQ)
      /\ UNCHANGED <<zombies, parked, tcbs, arrived, switching, IF_, call, ret,
                     no_preempt, flags, it>>
  BY DEF Dequeue, At, SetNext
<1>3. /\ readyQ' \in Seq(Movable) /\ h \in Movable
      /\ Elems(readyQ) = Elems(readyQ)' \cup {h}
      /\ Injective(readyQ)' /\ h \notin Elems(readyQ)'
  <2>1. readyQ \in Seq(Movable) /\ Injective(readyQ)
    BY DEF TypeOK, Homes, Movable
  <2>2. /\ Elems(readyQ)' = Elems(Tail(readyQ))
        /\ Injective(readyQ)' <=> Injective(Tail(readyQ))
    BY <1>2 DEF Elems, Injective
  <2>3. QED
    BY <1>2, <2>1, <2>2, TailElems
<1>4. h \notin Cores /\ h # None /\ h \in Threads_
  BY <1>3, ThreadsAssumption DEF Movable, Threads_
<1>5. locals[t].next_tcb = None /\ locals[t].core_id = c /\ locals[t].me = t
  BY <1>1, <1>2 DEF LocalsOfBlock
<1>6. /\ locals'[t] = [core_id |-> c, me |-> t, next_tcb |-> h]
      /\ \A u \in Threads_ : u # t => locals'[u] = locals[u]
  <2> HIDE DEF IInv, switching, OwnCode, InBlock, GoTo, h
  <2>1. locals \in [Threads_ -> Locals]
    BY DEF IInv, TypeOK
  <2>2. locals[t] = [core_id |-> c, me |-> t, next_tcb |-> None]
    <3>1. locals[t] \in Locals
      BY <1>1, <2>1
    <3> QED BY <1>5, <3>1 DEF Locals
  <2>3. [locals[t] EXCEPT !.next_tcb = h] = [core_id |-> c, me |-> t, next_tcb |-> h]
    BY <2>2
  <2>4. locals' = [locals EXCEPT ![t].next_tcb = h]
    BY <1>2
  <2> QED BY <1>1, <2>1, <2>3, <2>4
<1>7. \A d \in Cores : h \notin Held(d)
  BY <1>3, HeldApart
<1>8. h # t
  BY <1>7 DEF Held
<1>9. \A d \in Cores : HeldBy(d)' = IF d = c THEN HeldBy(d) \cup {h} ELSE HeldBy(d)
  <2>1. ASSUME NEW d \in Cores, d # c PROVE Held(d)' = Held(d)
    BY <1>1, <1>2, <1>6, <2>1 DEF Held, TypeOK
  <2>2. Held(c) = {t, None} /\ Held(c)' = {t, None, h}
    BY <1>2, <1>5, <1>6 DEF Held
  <2>3. HeldBy(c)' = HeldBy(c) \cup {h}
    BY <1>3, <2>2 DEF HeldBy
  <2>4. QED
    BY <2>1, <2>3 DEF HeldBy
<1>10. Elems(zombies)' = Elems(zombies) /\ Victims' = Victims
       /\ Injective(zombies)' = Injective(zombies)
  BY <1>2 DEF Elems, Victims, Injective
<1>11. Homes'
  <2>1. h \notin Elems(zombies) \cup parked \cup Victims
    BY <1>3 DEF Homes
  <2>2. \A d \in Cores : h \notin HeldBy(d)
    BY <1>7 DEF HeldBy
  <2>3. \A d, e \in Cores : d # e => (HeldBy(d) \cap HeldBy(e) = {})'
    BY <1>9, <2>2 DEF Homes
  <2>4. \A d \in Cores :
          (HeldBy(d) \cap (Elems(readyQ) \cup Elems(zombies) \cup parked \cup Victims) = {})'
    BY <1>2, <1>3, <1>9, <1>10, <2>1 DEF Homes
  <2>5. \A u \in Movable :
          (\/ u \in Elems(readyQ) \/ u \in Elems(zombies) \/ u \in parked \/ u \in Victims
           \/ \E d \in Cores : u \in HeldBy(d))' <=>
          (\/ u \in Elems(readyQ) \/ u \in Elems(zombies) \/ u \in parked \/ u \in Victims
           \/ \E d \in Cores : u \in HeldBy(d))
    BY <1>2, <1>3, <1>9, <1>10
  <2>6. QED
    BY <1>2, <1>3, <1>10, <2>3, <2>4, <2>5 DEF Homes
<1>12. TypeOK'
  <2>1. locals'[t] \in Locals
    BY <1>1, <1>4, <1>6 DEF Locals, Threads_
  <2>2. locals' \in [Threads_ -> Locals]
    BY <1>2, <1>6, <2>1 DEF TypeOK
  <2>3. pc' \in [Threads_ -> OwnCode \cup InBlock \cup {"resume"}]
    BY <1>2 DEF TypeOK
  <2>4. QED
    BY <1>2, <1>3, <2>2, <2>3 DEF TypeOK, Movable
<1>13. Idles' /\ OffStack' /\ LocalsOnlyInBlock'
  BY <1>1, <1>2, <1>4, <1>6 DEF Idles, OffStack, LocalsOnlyInBlock, TypeOK, isIdle
<1>14. LocalsOfBlock' /\ ActiveIsOnStack' /\ Protected'
  BY <1>1, <1>2, <1>4, <1>6, <1>8 DEF LocalsOfBlock, ActiveIsOnStack, Protected, TypeOK
<1>15. Interrupts' /\ OwnCodeState'
  BY <1>1, <1>2 DEF Interrupts, OwnCodeState, Doing, TypeOK
<1>16. CallState'
  <2>1. \A d \in Cores, w \in Workers :
          locals'[stack[d]].next_tcb = w => locals[stack[d]].next_tcb = w \/ w = h
    BY <1>1, <1>6 DEF TypeOK
  <2>2. h \in Workers => call[h] # "stop"
    BY <1>3 DEF CallState
  <2>3. QED
    BY <1>1, <1>2, <1>3, <1>10, <2>1, <2>2 DEF CallState, TypeOK
<1>17. Arrivals'
  <2>1. \A d \in Cores : pc'[d] = "boot" <=> pc[d] = "boot"
    BY <1>2 DEF TypeOK
  <2>2. QED
    BY <1>2, <2>1 DEF Arrivals
<1>18. QED
  BY <1>11, <1>12, <1>13, <1>14, <1>15, <1>16, <1>17

(* The core moves to the stack of the next thread, and what it has in hand *)
(* stays the same: the thread it left is the handler's.                    *)
LEMMA SwitchStep ==
  ASSUME IInv, NEW c \in Cores, NEW t, t = stack[c], Switch(c, t)
  PROVE  IInv'
<1> DEFINE n == locals[t].next_tcb
<1> USE DEF IInv, queues, OwnCode, InBlock, GoTo, SetIF
<1>1. t \in Threads_ /\ t # None /\ \A d \in Cores : stack[d] = t => d = c
  BY CoreFacts
<1>2. /\ source[c] = None /\ pc[t] = "switch"
      /\ locals[t].me = t /\ n # t /\ n # None
      /\ flags' = [flags EXCEPT ![t] = IF_[c]]
      /\ IF_' = [IF_ EXCEPT ![c] = FALSE]
      /\ no_preempt' = [no_preempt EXCEPT ![t] = FALSE, ![n] = FALSE]
      /\ stack' = [stack EXCEPT ![c] = n]
      /\ source' = [source EXCEPT ![c] = t]
      /\ locals' = [locals EXCEPT ![t] = NoLocals]
      /\ pc' = [pc EXCEPT ![t] = "resume"]
      /\ UNCHANGED <<queues, tcbs, arrived, activeThreads, call, ret, it>>
  BY <1>1 DEF Switch, At, LocalsOfBlock
<1>3. /\ n \in Threads_
      /\ \A d \in Cores : n \in Held(d) => d = c
      /\ \A d \in Cores : t \in Held(d) => d = c
  <2>1. n \in Held(c) /\ t \in Held(c)
    BY DEF Held
  <2>2. n \in Threads_
    BY <1>1, <1>2 DEF TypeOK, Locals
  <2>3. QED
    BY <1>1, <1>2, <2>1, <2>2, HeldOnce
<1>4. pc[n] = "resume" /\ locals[n] = NoLocals
  <2>1. \A d \in Cores : stack[d] # n
    BY <1>2, <1>3 DEF Held
  <2>2. QED
    BY <1>3, <2>1 DEF OffStack, LocalsOnlyInBlock
<1>5. /\ stack'[c] = n /\ source'[c] = t
      /\ pc'[n] = "resume" /\ locals'[n] = NoLocals /\ NoLocals.next_tcb = None
  BY <1>1, <1>2, <1>3, <1>4 DEF TypeOK, NoLocals
<1>6. \A d \in Cores :
        d # c => /\ stack'[d] = stack[d] /\ source'[d] = source[d]
                 /\ stack[d] # t /\ stack[d] # n
                 /\ locals'[stack[d]] = locals[stack[d]]
                 /\ pc'[stack[d]] = pc[stack[d]]
                 /\ locals[stack[d]].next_tcb \notin {t, n}
                 /\ stack[d] \in Threads_
                 /\ IF_'[d] = IF_[d]
  <2>1. ASSUME NEW d \in Cores, d # c
        PROVE  stack[d] # t /\ stack[d] # n /\ locals[stack[d]].next_tcb \notin {t, n}
    BY <1>3, <2>1 DEF Held
  <2>2. QED
    BY <1>2, <2>1 DEF TypeOK
<1>7. \A d \in Cores : HeldBy(d)' = HeldBy(d)
  <2>1. ASSUME NEW d \in Cores, d # c PROVE Held(d)' = Held(d)
    BY <1>6, <2>1 DEF Held
  <2>2. Held(c) = {t, None, n} /\ Held(c)' = {n, t, None}
    BY <1>2, <1>5 DEF Held
  <2>3. QED
    BY <2>1, <2>2 DEF HeldBy
<1>8. Homes' /\ Elems(readyQ)' = Elems(readyQ) /\ Elems(zombies)' = Elems(zombies)
      /\ Victims' = Victims
  BY <1>2, <1>7, HomesSame
<1>9. TypeOK'
  <2>1. locals' \in [Threads_ -> Locals]
    BY <1>2 DEF TypeOK, Locals, NoLocals
  <2>2. pc' \in [Threads_ -> OwnCode \cup InBlock \cup {"resume"}]
    BY <1>2 DEF TypeOK
  <2>3. stack' \in [Cores -> Threads_] /\ source' \in [Cores -> Threads_ \cup {None}]
    BY <1>1, <1>2, <1>3 DEF TypeOK
  <2>4. /\ IF_' \in [Cores -> BOOLEAN] /\ flags' \in [Threads_ -> BOOLEAN]
        /\ no_preempt' \in [Threads_ -> BOOLEAN]
    BY <1>2 DEF TypeOK
  <2>5. QED
    BY <1>2, <2>1, <2>2, <2>3, <2>4 DEF TypeOK
<1>10. Idles'
  <2>1. isIdle(t) => t = c
    BY DEF Idles
  <2>2. isIdle(n) => n = c
    BY DEF Idles
  <2>3. None \notin Cores
    BY ThreadsAssumption
  <2>4. QED
    BY <1>2, <1>5, <1>6, <2>1, <2>2, <2>3 DEF Idles, isIdle
<1>11. OffStack'
  <2>1. ASSUME NEW u \in Threads_, \A d \in Cores : stack'[d] # u PROVE pc'[u] = "resume"
    <3>1. CASE u = t
      BY <1>1, <1>2, <3>1 DEF TypeOK
    <3>2. CASE u # t
      <4>1. \A d \in Cores : stack[d] # u
        BY <1>6, <2>1, <3>2
      <4>2. QED
        BY <1>2, <3>2, <4>1 DEF OffStack, TypeOK
    <3>3. QED
      BY <3>1, <3>2
  <2>2. QED
    BY <2>1 DEF OffStack
<1>12. LocalsOnlyInBlock'
  BY <1>1, <1>2 DEF LocalsOnlyInBlock, TypeOK
<1>13. LocalsOfBlock' /\ ActiveIsOnStack'
  BY <1>2, <1>5, <1>6 DEF LocalsOfBlock, ActiveIsOnStack
<1>14. Protected'
  <2>1. ASSUME NEW d \in Cores, d # c, NEW u \in Threads_, u \notin {t, n}
        PROVE  no_preempt'[u] = no_preempt[u]
    BY <1>2, <2>1 DEF TypeOK
  <2>2. ASSUME NEW d \in Cores, pc'[stack'[d]] \in InBlock
        PROVE  d # c /\ no_preempt[stack[d]] /\ pc[stack[d]] = pc'[stack'[d]]
    BY <1>5, <1>6, <2>2 DEF Protected
  <2>3. ASSUME NEW d \in Cores, pc'[stack'[d]] \in {"activate", "switch"}
        PROVE  /\ no_preempt[locals[stack[d]].next_tcb]
               /\ locals[stack[d]].next_tcb \in Threads_
    <3>1. d # c /\ pc[stack[d]] = pc'[stack'[d]]
      BY <2>2, <2>3
    <3>2. QED
      BY <1>6, <2>3, <3>1 DEF Protected, LocalsOfBlock, TypeOK, Locals
  <2>4. QED
    BY <1>6, <2>1, <2>2, <2>3 DEF Protected
<1>15. Interrupts'
  BY <1>1, <1>2, <1>5, <1>6 DEF Interrupts, TypeOK
<1>16. OwnCodeState'
  BY <1>1, <1>2 DEF OwnCodeState, Doing, TypeOK, Movable
<1>17. CallState'
  <2>1. \A d \in Cores : locals'[stack'[d]].next_tcb \in {None, locals[stack[d]].next_tcb}
    BY <1>5, <1>6
  <2>2. n \in Workers => call[n] # "stop"
    BY DEF CallState
  <2>3. None \notin Workers
    BY ThreadsAssumption
  <2>4. \A w \in Workers : call[w] = "stop" =>
          \A d \in Cores : /\ locals'[stack'[d]].next_tcb # w
                           /\ stack'[d] = w => pc'[w] \in InBlock
    BY <1>5, <1>6, <2>1, <2>2, <2>3 DEF CallState
  <2>5. QED
    BY <1>2, <1>8, <2>4 DEF CallState
<1>18. Arrivals'
  <2>1. \A d \in Cores : pc'[d] = "boot" <=> pc[d] = "boot"
    BY <1>2 DEF TypeOK
  <2>2. QED
    BY <1>2, <2>1 DEF Arrivals
<1>19. QED
  BY <1>8, <1>9, <1>10, <1>11, <1>12, <1>13, <1>14, <1>15, <1>16, <1>17, <1>18

(* popf restores what pushf saved, or a caller turns interrupts on.        *)
LEMMA ResumeStep ==
  ASSUME IInv, NEW c \in Cores, NEW t, t = stack[c], Resume(c, t)
  PROVE  IInv'
<1> USE DEF IInv, queues, switching, OwnCode, InBlock, GoTo, SetIF, Return
<1>1. t \in Threads_ /\ \A d \in Cores : stack[d] = t => d = c
  BY CoreFacts
<1>2. /\ source[c] = None /\ pc[t] = "resume"
      /\ pc' = [pc EXCEPT ![t] = ret[t]]
      /\ ret' = [ret EXCEPT ![t] = "work"]
      /\ IF_' = [IF_ EXCEPT ![c] = flags[t] \/ call[t] \in {"tick", "wait"}]
      /\ UNCHANGED <<queues, tcbs, arrived, switching, call, locals, no_preempt,
                     flags, it>>
  BY DEF Resume, At
<1>3. ret[t] \in OwnCode /\ ret[t] # "boot" /\ locals[t] = NoLocals /\ IF_'[c]
  <2>1. ret[t] # "boot"
    BY <1>1 DEF OwnCodeState, Threads_, Movable
  <2>2. flags[t] \/ call[t] \in {"tick", "wait"}
    BY <1>1, <1>2 DEF Interrupts, TypeOK, Calls
  <2>3. QED
    BY <1>1, <1>2, <2>1, <2>2 DEF TypeOK, LocalsOnlyInBlock
<1>4. \A d \in Cores : Held(d)' = Held(d) /\ HeldBy(d)' = HeldBy(d)
  BY <1>2 DEF Held, HeldBy
<1>5. Homes' /\ Elems(readyQ)' = Elems(readyQ) /\ Elems(zombies)' = Elems(zombies)
      /\ Victims' = Victims
  BY <1>2, <1>4, HomesSame
<1>6. TypeOK'
  BY <1>1, <1>2, <1>3 DEF TypeOK
<1>7. Idles' /\ OffStack' /\ LocalsOnlyInBlock'
  BY <1>1, <1>2, <1>3 DEF Idles, OffStack, LocalsOnlyInBlock, TypeOK
<1>8. LocalsOfBlock' /\ ActiveIsOnStack' /\ Protected'
  BY <1>1, <1>2, <1>3 DEF LocalsOfBlock, ActiveIsOnStack, Protected, TypeOK
<1>9. Interrupts'
  BY <1>1, <1>2, <1>3 DEF Interrupts, TypeOK
<1>10. OwnCodeState'
  BY <1>1, <1>2, <1>3 DEF OwnCodeState, Doing, TypeOK, Movable
<1>11. CallState'
  BY <1>1, <1>2, <1>5 DEF CallState, TypeOK
<1>12. Arrivals'
  <2>1. \A d \in Cores : pc'[d] = "boot" <=> pc[d] = "boot"
    BY <1>2, <1>3 DEF TypeOK
  <2>2. QED
    BY <1>2, <2>1 DEF Arrivals
<1>13. QED
  BY <1>5, <1>6, <1>7, <1>8, <1>9, <1>10, <1>11, <1>12

(* A handler gives the previous thread away: to the ready queue, to the    *)
(* zombies or to whatever it waits for, and an idle thread to nobody.      *)
LEMMA HandlerMoves ==
  ASSUME IInv, NEW c \in Cores, Handler(c)
  PROVE  LET me == source[c] IN
         /\ readyQ' \in Seq(Movable) /\ zombies' \in Seq(Workers) /\ parked' \subseteq Workers
         /\ Injective(readyQ)' /\ Injective(zombies)'
         /\ \/ me \in Cores /\ UNCHANGED <<readyQ, zombies, parked>>
            \/ /\ me \in Movable /\ call[me] # "stop"
               /\ Elems(readyQ)' = Elems(readyQ) \cup {me} /\ UNCHANGED <<zombies, parked>>
            \/ /\ me \in Workers /\ call[me] = "stop"
               /\ Elems(zombies)' = Elems(zombies) \cup {me} /\ UNCHANGED <<readyQ, parked>>
            \/ /\ me \in Workers /\ call[me] # "stop"
               /\ parked' = parked \cup {me} /\ UNCHANGED <<readyQ, zombies>>
<1> DEFINE me == source[c]
<1> USE DEF IInv
<1>1. /\ me \in Cores \/ me \in Movable
      /\ isIdle(me) <=> me \in Cores
      /\ me \in Movable => me \notin Cores
      /\ Workers \subseteq Movable
  BY ThreadsAssumption DEF Handler, TypeOK, Threads_, Movable, isIdle
<1>2. /\ readyQ \in Seq(Movable) /\ zombies \in Seq(Workers) /\ parked \subseteq Workers
      /\ Injective(readyQ) /\ Injective(zombies)
  BY DEF TypeOK, Movable, Homes
<1>3. me \in Movable => me \notin Elems(readyQ) /\ me \notin Elems(zombies)
  BY HeldApart DEF Held
<1>4. CASE call[me] # "stop" /\ schedule(me) /\ UNCHANGED <<zombies, parked>>
  <2>1. CASE me \in Cores
    BY <1>1, <1>2, <1>4, <2>1 DEF schedule, Injective
  <2>2. CASE me \in Movable
    <3>1. readyQ' = Append(readyQ, me)
      BY <1>1, <1>4, <2>2 DEF schedule, Ready
    <3>2. /\ Elems(readyQ)' = Elems(Append(readyQ, me))
          /\ Injective(readyQ)' = Injective(Append(readyQ, me))
          /\ Injective(zombies)' = Injective(zombies)
      BY <1>4, <3>1 DEF Elems, Injective
    <3>3. QED
      BY <1>2, <1>3, <1>4, <2>2, <3>1, <3>2, AppendElems
  <2>3. QED
    BY <1>1, <2>1, <2>2
<1>5. CASE call[me] = "stop" /\ UNCHANGED <<readyQ, parked>>
           /\ zombies' = IF isIdle(me) THEN zombies ELSE Append(zombies, me)
  <2>1. CASE me \in Cores
    BY <1>1, <1>2, <1>5, <2>1 DEF Injective
  <2>2. CASE me \in Movable
    <3>1. zombies' = Append(zombies, me) /\ me \in Workers
      BY <1>1, <1>5, <2>2 DEF CallState, Movable
    <3>2. /\ Elems(zombies)' = Elems(Append(zombies, me))
          /\ Injective(zombies)' = Injective(Append(zombies, me))
          /\ Injective(readyQ)' = Injective(readyQ)
      BY <1>5, <3>1 DEF Elems, Injective
    <3>3. QED
      BY <1>2, <1>3, <1>5, <2>2, <3>1, <3>2, AppendElems
  <2>3. QED
    BY <1>1, <2>1, <2>2
<1>6. CASE call[me] = "wait" /\ parked' = parked \cup {me} /\ UNCHANGED <<readyQ, zombies>>
  <2>1. me \in Workers
    BY <1>1, <1>6 DEF CallState, Threads_, Movable
  <2>2. QED
    BY <1>2, <1>6, <2>1 DEF Injective
<1>7. QED
  BY <1>4, <1>5, <1>6 DEF Handler, CanReturn

LEMMA HandlerStep ==
  ASSUME IInv, NEW c \in Cores, Handler(c)
  PROVE  IInv'
<1> DEFINE me == source[c]
<1> USE DEF IInv, OwnCode, InBlock
<1>1. /\ me # None /\ source' = [source EXCEPT ![c] = None]
      /\ UNCHANGED <<tcbs, arrived, activeThreads, stack, IF_, pc, blocking, no_preempt,
                     flags, it>>
  BY DEF Handler
<1>2. me # stack[c] /\ pc[stack[c]] = "resume" /\ locals[stack[c]].next_tcb = None
  BY <1>1, CoreFacts DEF Idles, LocalsOnlyInBlock, NoLocals
<1>3. Workers \subseteq Movable /\ \A u \in Movable : u \notin Cores /\ u # None
  BY ThreadsAssumption DEF Movable
<1>4. \A d \in Cores : HeldBy(d)' = IF d = c THEN HeldBy(d) \ {me} ELSE HeldBy(d)
  <2>1. ASSUME NEW d \in Cores, d # c PROVE HeldBy(d)' = HeldBy(d)
    BY <1>1, <2>1 DEF Held, HeldBy, blocking, TypeOK
  <2>2. Held(c) = {stack[c], me, None} /\ Held(c)' = {stack[c], None}
    BY <1>1, <1>2 DEF Held, blocking, TypeOK
  <2>3. HeldBy(c)' = HeldBy(c) \ {me}
    BY <1>1, <1>2, <1>3, <2>2 DEF HeldBy
  <2>4. QED
    BY <2>1, <2>3
<1>5. Victims' = Victims
  BY <1>1 DEF Victims
<1>6. me \in Movable =>
        /\ me \in HeldBy(c)
        /\ me \notin Elems(readyQ) /\ me \notin Elems(zombies)
        /\ me \notin parked /\ me \notin Victims
        /\ \A d \in Cores : me \in Held(d) => d = c
  BY HeldApart DEF Held, HeldBy
<1>7. /\ Injective(readyQ)' /\ Injective(zombies)'
      /\ readyQ' \in Seq(Movable) /\ zombies' \in Seq(Workers) /\ parked' \subseteq Workers
      /\ \/ /\ me \in Cores
            /\ Elems(readyQ)' = Elems(readyQ) /\ Elems(zombies)' = Elems(zombies)
            /\ parked' = parked
         \/ /\ me \in Movable /\ call[me] # "stop"
            /\ Elems(readyQ)' = Elems(readyQ) \cup {me} /\ Elems(zombies)' = Elems(zombies)
            /\ parked' = parked
         \/ /\ me \in Movable /\ me \in Workers /\ call[me] = "stop"
            /\ Elems(readyQ)' = Elems(readyQ)
            /\ Elems(zombies)' = Elems(zombies) \cup {me} /\ parked' = parked
         \/ /\ me \in Movable /\ me \in Workers /\ call[me] # "stop"
            /\ Elems(readyQ)' = Elems(readyQ) /\ Elems(zombies)' = Elems(zombies)
            /\ parked' = parked \cup {me}
  <2>1. /\ readyQ' = readyQ => Elems(readyQ)' = Elems(readyQ)
        /\ zombies' = zombies => Elems(zombies)' = Elems(zombies)
    BY DEF Elems
  <2>2. QED
    BY <1>3, <2>1, HandlerMoves
<1>8. Homes'
  <2>1. \A d, e \in Cores : d # e => (HeldBy(d) \cap HeldBy(e) = {})'
    BY <1>4 DEF Homes
  <2>2. \A d \in Cores : me \notin HeldBy(d)'
    BY <1>3, <1>4, <1>6 DEF HeldBy
  <2>3. \A d \in Cores :
          (HeldBy(d) \cap (Elems(readyQ) \cup Elems(zombies) \cup parked \cup Victims) = {})'
    BY <1>4, <1>5, <1>7, <2>2 DEF Homes
  <2>4. /\ (Elems(readyQ) \cap (Elems(zombies) \cup parked \cup Victims) = {})'
        /\ (Elems(zombies) \cap (parked \cup Victims) = {})'
        /\ (parked \cap Victims = {})'
    BY <1>5, <1>6, <1>7 DEF Homes
  <2>5. \A u \in Movable :
          (\/ u \in Elems(readyQ) \/ u \in Elems(zombies) \/ u \in parked \/ u \in Victims
           \/ \E d \in Cores : u \in HeldBy(d))' <=>
          (\/ u \in Elems(readyQ) \/ u \in Elems(zombies) \/ u \in parked \/ u \in Victims
           \/ \E d \in Cores : u \in HeldBy(d))
    BY <1>3, <1>4, <1>5, <1>6, <1>7
  <2>6. QED
    BY <1>1, <1>7, <2>1, <2>3, <2>4, <2>5 DEF Homes
<1>9. TypeOK'
  BY <1>1, <1>7 DEF TypeOK, blocking, Movable
<1>10. Idles' /\ OffStack' /\ LocalsOnlyInBlock' /\ LocalsOfBlock' /\ ActiveIsOnStack'
       /\ Protected'
  BY <1>1, ThreadsAssumption DEF Idles, OffStack, LocalsOnlyInBlock, LocalsOfBlock,
     ActiveIsOnStack, Protected, TypeOK, blocking, isIdle
<1>11. Interrupts' /\ OwnCodeState' /\ Arrivals'
  BY <1>1 DEF Interrupts, OwnCodeState, Doing, Arrivals, blocking
<1>12. CallState'
  BY <1>1, <1>5, <1>7 DEF CallState, blocking
<1>13. QED
  BY <1>8, <1>9, <1>10, <1>11, <1>12

-----------------------------------------------------------------------------

LEMMA WakeStep ==
  ASSUME IInv, NEW c \in Cores, NEW t, t = stack[c], Wake(c, t)
  PROVE  IInv'
<1> USE DEF IInv
<1>1. PICK w \in parked : parked' = parked \ {w} /\ readyQ' = Append(readyQ, w)
  BY DEF Wake, Ready
<1>2. UNCHANGED <<zombies, tcbs, arrived, switching, IF_, pc, blocking, no_preempt, flags, it>>
  BY DEF Wake
<1>3. w \in Workers /\ w \in Movable /\ readyQ \in Seq(Movable)
  BY DEF TypeOK, Movable
<1>4. w \notin Elems(readyQ) /\ w \notin Elems(zombies) /\ w \notin Victims
  BY DEF Homes
<1>5. /\ readyQ' \in Seq(Movable)
      /\ Elems(readyQ)' = Elems(readyQ) \cup {w} /\ Injective(readyQ)'
  <2>1. /\ Elems(readyQ)' = Elems(Append(readyQ, w))
        /\ Injective(readyQ)' = Injective(Append(readyQ, w))
    BY <1>1 DEF Elems, Injective
  <2>2. QED
    BY <1>1, <1>3, <1>4, <2>1, AppendElems DEF Homes
<1>6. /\ Elems(zombies)' = Elems(zombies) /\ Injective(zombies)' = Injective(zombies)
      /\ Victims' = Victims
  BY <1>2 DEF Elems, Injective, Victims
<1>7. \A d \in Cores : HeldBy(d)' = HeldBy(d)
  BY <1>2 DEF HeldBy, Held, switching, blocking
<1>8. Homes'
  <2>1. \A d \in Cores :
          (HeldBy(d) \cap (Elems(readyQ) \cup Elems(zombies) \cup parked \cup Victims) = {})'
    BY <1>1, <1>5, <1>6, <1>7 DEF Homes
  <2>2. /\ (Elems(readyQ) \cap (Elems(zombies) \cup parked \cup Victims) = {})'
        /\ (Elems(zombies) \cap (parked \cup Victims) = {})'
        /\ (parked \cap Victims = {})'
    BY <1>1, <1>4, <1>5, <1>6 DEF Homes
  <2>3. \A u \in Movable :
          (\/ u \in Elems(readyQ) \/ u \in Elems(zombies) \/ u \in parked \/ u \in Victims
           \/ \E d \in Cores : u \in HeldBy(d))' <=>
          (\/ u \in Elems(readyQ) \/ u \in Elems(zombies) \/ u \in parked \/ u \in Victims
           \/ \E d \in Cores : u \in HeldBy(d))
    BY <1>1, <1>5, <1>6, <1>7
  <2>4. QED
    BY <1>2, <1>5, <1>6, <1>7, <2>1, <2>2, <2>3 DEF Homes
<1>9. TypeOK'
  BY <1>1, <1>2, <1>5 DEF TypeOK, Movable, switching, blocking
<1>10. Idles' /\ OffStack' /\ LocalsOnlyInBlock' /\ LocalsOfBlock' /\ ActiveIsOnStack'
       /\ Protected'
  BY <1>2 DEF Idles, OffStack, LocalsOnlyInBlock, LocalsOfBlock, ActiveIsOnStack,
     Protected, switching, blocking
<1>11. Interrupts' /\ OwnCodeState' /\ Arrivals'
  BY <1>2 DEF Interrupts, OwnCodeState, Doing, Arrivals, switching, blocking
<1>12. CallState'
  <2>1. call[w] # "stop"
    BY <1>3 DEF CallState
  <2>2. QED
    BY <1>1, <1>2, <1>5, <1>6, <2>1 DEF CallState, switching, blocking
<1>13. QED
  BY <1>8, <1>9, <1>10, <1>11, <1>12

(* A zombie passes from the queue to the one who will delete it.           *)
LEMMA RemoveZombieStep ==
  ASSUME IInv, NEW c \in Cores, NEW t, t = stack[c], RemoveZombie(c, t)
  PROVE  IInv'
<1> DEFINE z == Head(zombies)
<1> USE DEF IInv, OwnCode, InBlock, GoTo
<1>1. t \in Threads_ /\ \A d \in Cores : stack[d] = t => d = c
  BY CoreFacts
<1>2. /\ pc[t] = "clean" /\ zombies # <<>>
      /\ it' = [it EXCEPT ![t] = z]
      /\ zombies' = Tail(zombies)
      /\ pc' = [pc EXCEPT ![t] = "delete"]
      /\ UNCHANGED <<readyQ, parked, tcbs, arrived, switching, IF_, blocking, no_preempt,
                     flags>>
  BY DEF RemoveZombie, At
<1>3. it[t] = None /\ locals[t] = NoLocals
  BY <1>1, <1>2 DEF OwnCodeState, Doing, LocalsOnlyInBlock
<1>4. /\ zombies' \in Seq(Workers) /\ z \in Workers
      /\ Elems(zombies) = Elems(zombies)' \cup {z}
      /\ Injective(zombies)' /\ z \notin Elems(zombies)'
  <2>1. zombies \in Seq(Workers) /\ Injective(zombies)
    BY DEF TypeOK, Homes
  <2>2. /\ Elems(zombies)' = Elems(Tail(zombies))
        /\ Injective(zombies)' <=> Injective(Tail(zombies))
    BY <1>2 DEF Elems, Injective
  <2>3. QED
    BY <1>2, <2>1, <2>2, TailElems
<1>5. z # None
  BY <1>4, ThreadsAssumption
<1>6. Victims' = Victims \cup {z}
  <2>1. it'[t] = z /\ \A u \in Threads_ : u # t => it'[u] = it[u]
    BY <1>1, <1>2 DEF TypeOK
  <2>2. QED
    BY <1>1, <1>3, <1>5, <2>1 DEF Victims
<1>7. /\ Elems(readyQ)' = Elems(readyQ) /\ Injective(readyQ)' = Injective(readyQ)
  BY <1>2 DEF Elems, Injective
<1>8. \A d \in Cores : HeldBy(d)' = HeldBy(d)
  BY <1>2 DEF HeldBy, Held, switching, blocking
<1>9. Homes'
  <2>1. z \notin Victims
    BY <1>4 DEF Homes
  <2>2. \A u \in Threads_ : it[u] # z
    BY <1>5, <2>1 DEF Victims
  <2>3. \A u, v \in Threads_ : it'[u] # None /\ it'[u] = it'[v] => u = v
    BY <1>1, <1>2, <2>2 DEF Homes, TypeOK
  <2>4. \A d \in Cores :
          (HeldBy(d) \cap (Elems(readyQ) \cup Elems(zombies) \cup parked \cup Victims) = {})'
    BY <1>2, <1>4, <1>6, <1>7, <1>8 DEF Homes
  <2>5. /\ (Elems(readyQ) \cap (Elems(zombies) \cup parked \cup Victims) = {})'
        /\ (Elems(zombies) \cap (parked \cup Victims) = {})'
        /\ (parked \cap Victims = {})'
    BY <1>2, <1>4, <1>6, <1>7 DEF Homes
  <2>6. \A u \in Movable :
          (\/ u \in Elems(readyQ) \/ u \in Elems(zombies) \/ u \in parked \/ u \in Victims
           \/ \E d \in Cores : u \in HeldBy(d))' <=>
          (\/ u \in Elems(readyQ) \/ u \in Elems(zombies) \/ u \in parked \/ u \in Victims
           \/ \E d \in Cores : u \in HeldBy(d))
    BY <1>2, <1>4, <1>6, <1>7, <1>8
  <2>7. QED
    BY <1>2, <1>4, <1>7, <1>8, <2>3, <2>4, <2>5, <2>6 DEF Homes
<1>10. TypeOK'
  BY <1>1, <1>2, <1>4 DEF TypeOK, switching, blocking
<1>11. Idles' /\ OffStack' /\ LocalsOnlyInBlock'
  BY <1>1, <1>2, <1>3 DEF Idles, OffStack, LocalsOnlyInBlock, switching, blocking, TypeOK
<1>12. LocalsOfBlock' /\ ActiveIsOnStack' /\ Protected'
  BY <1>1, <1>2 DEF LocalsOfBlock, ActiveIsOnStack, Protected, switching, blocking, TypeOK
<1>13. Interrupts'
  BY <1>1, <1>2 DEF Interrupts, switching, blocking, TypeOK
<1>14. OwnCodeState'
  BY <1>1, <1>2, <1>5 DEF OwnCodeState, Doing, switching, blocking, TypeOK
<1>15. CallState'
  BY <1>1, <1>2, <1>4, <1>6, <1>7 DEF CallState, switching, blocking, TypeOK
<1>16. Arrivals'
  <2>1. \A d \in Cores : pc'[d] = "boot" <=> pc[d] = "boot"
    BY <1>2 DEF TypeOK
  <2>2. QED
    BY <1>2, <2>1 DEF Arrivals
<1>17. QED
  BY <1>9, <1>10, <1>11, <1>12, <1>13, <1>14, <1>15, <1>16

(* Nothing refers to a TCB when it is deleted.                             *)
LEMMA DeleteStep ==
  ASSUME IInv, NEW c \in Cores, NEW t, t = stack[c], Delete(c, t)
  PROVE  IInv'
<1> DEFINE z == it[t]
<1> USE DEF IInv, OwnCode, InBlock, GoTo
<1>1. t \in Threads_ /\ \A d \in Cores : stack[d] = t => d = c
  BY CoreFacts
<1>2. /\ pc[t] = "delete"
      /\ it' = [it EXCEPT ![t] = None]
      /\ tcbs' = tcbs \ {z}
      /\ pc' = [pc EXCEPT ![t] = "clean"]
      /\ UNCHANGED <<queues, arrived, switching, IF_, blocking, no_preempt, flags>>
  BY DEF Delete, At
<1>3. z # None /\ z \in Workers /\ z \in Victims
  BY <1>1, <1>2 DEF OwnCodeState, Doing, TypeOK, Victims
<1>4. Victims' = Victims \ {z}
  <2>1. it'[t] = None /\ \A u \in Threads_ : u # t => it'[u] = it[u] /\ it[u] # z
    BY <1>1, <1>2, <1>3 DEF TypeOK, Homes
  <2>2. QED
    BY <1>1, <2>1 DEF Victims
<1>5. /\ Elems(readyQ)' = Elems(readyQ) /\ Injective(readyQ)' = Injective(readyQ)
      /\ Elems(zombies)' = Elems(zombies) /\ Injective(zombies)' = Injective(zombies)
      /\ parked' = parked
  BY <1>2 DEF Elems, Injective, queues
<1>6. \A d \in Cores : HeldBy(d)' = HeldBy(d)
  BY <1>2 DEF HeldBy, Held, switching, blocking
<1>7. z \in Movable /\ z # Reaper
  BY <1>3, ThreadsAssumption DEF Movable
<1>8. \A d \in Cores : z \notin HeldBy(d)
  BY <1>3 DEF Homes
<1>9. Homes'
  <2>1. \A u, v \in Threads_ : it'[u] # None /\ it'[u] = it'[v] => u = v
    BY <1>1, <1>2 DEF Homes, TypeOK
  <2>2. /\ z \notin Elems(readyQ) /\ z \notin Elems(zombies) /\ z \notin parked
    BY <1>3 DEF Homes
  <2>3. \A d \in Cores :
          (HeldBy(d) \cap (Elems(readyQ) \cup Elems(zombies) \cup parked \cup Victims) = {})'
    BY <1>4, <1>5, <1>6 DEF Homes
  <2>4. /\ (Elems(readyQ) \cap (Elems(zombies) \cup parked \cup Victims) = {})'
        /\ (Elems(zombies) \cap (parked \cup Victims) = {})'
        /\ (parked \cap Victims = {})'
    BY <1>4, <1>5 DEF Homes
  <2>5. \A u \in Movable :
          (u \in tcbs \cup {Reaper})' <=> u \in tcbs \cup {Reaper} /\ u # z
    BY <1>2, <1>7
  <2>6. \A u \in Movable :
          (\/ u \in Elems(readyQ) \/ u \in Elems(zombies) \/ u \in parked \/ u \in Victims
           \/ \E d \in Cores : u \in HeldBy(d))' <=>
          (\/ u \in Elems(readyQ) \/ u \in Elems(zombies) \/ u \in parked \/ u \in Victims
           \/ \E d \in Cores : u \in HeldBy(d)) /\ u # z
    BY <1>4, <1>5, <1>6, <1>8, <2>2
  <2>7. QED
    BY <1>5, <1>6, <2>1, <2>3, <2>4, <2>5, <2>6 DEF Homes
<1>10. TypeOK'
  BY <1>1, <1>2 DEF TypeOK, queues, switching, blocking
<1>11. Idles' /\ OffStack' /\ LocalsOnlyInBlock'
  BY <1>1, <1>2 DEF Idles, OffStack, LocalsOnlyInBlock, switching, blocking, TypeOK
<1>12. LocalsOfBlock' /\ ActiveIsOnStack' /\ Protected'
  BY <1>1, <1>2 DEF LocalsOfBlock, ActiveIsOnStack, Protected, switching, blocking, TypeOK
<1>13. Interrupts'
  BY <1>1, <1>2 DEF Interrupts, switching, blocking, TypeOK
<1>14. OwnCodeState'
  <2>1. call[z] = "stop" /\ \A d \in Cores : stack[d] # z
    BY <1>3, <1>7, <1>8 DEF CallState, HeldBy, Held
  <2>2. pc[z] = "resume"
    BY <1>3, <2>1 DEF OffStack, Threads_
  <2>3. ret[z] = "work"
    BY <1>3, <2>1, <2>2 DEF OwnCodeState, Threads_
  <2>4. \A u \in Threads_ : (Doing(u) = "delete" <=> it[u] # None)'
    BY <1>1, <1>2 DEF OwnCodeState, Doing, blocking, TypeOK
  <2>5. \A w \in Workers \ tcbs' : ret[w] = "work"
    BY <1>2, <2>3 DEF OwnCodeState
  <2>6. /\ \A u \in Movable : pc'[u] # "boot" /\ ret[u] # "boot"
        /\ \A u \in Cores : ret[u] = "work"
        /\ \A u \in Threads_ : call[u] = "stop" /\ pc'[u] \notin OwnCode => ret[u] = "work"
    BY <1>1, <1>2 DEF OwnCodeState, TypeOK
  <2>7. ret' = ret /\ call' = call
    BY <1>2 DEF blocking
  <2>8. QED
    BY <2>4, <2>5, <2>6, <2>7 DEF OwnCodeState
<1>15. CallState'
  BY <1>1, <1>2, <1>4, <1>5 DEF CallState, switching, blocking, TypeOK
<1>16. Arrivals'
  <2>1. \A d \in Cores : pc'[d] = "boot" <=> pc[d] = "boot"
    BY <1>2 DEF TypeOK
  <2>2. QED
    BY <1>2, <2>1 DEF Arrivals
<1>17. QED
  BY <1>9, <1>10, <1>11, <1>12, <1>13, <1>14, <1>15, <1>16

(* The block of a new TCB is one that nobody refers to.                    *)
LEMMA CreateStep ==
  ASSUME IInv, NEW c \in Cores, NEW t, t = stack[c], Create(c, t)
  PROVE  IInv'
<1> USE DEF IInv, OwnCode, InBlock
<1>1. t \in Threads_ /\ \A d \in Cores : stack[d] = t => d = c
  BY CoreFacts
<1>2. PICK w \in Workers \ tcbs :
        /\ tcbs' = tcbs \cup {w}
        /\ pc' = [pc EXCEPT ![w] = "resume", ![t] = "work"]
        /\ call' = [call EXCEPT ![w] = "start"]
        /\ ret' = [ret EXCEPT ![w] = "work"]
        /\ flags' = [flags EXCEPT ![w] = TRUE]
        /\ no_preempt' = [no_preempt EXCEPT ![w] = FALSE]
        /\ readyQ' = Append(readyQ, w)
  BY DEF Create, Ready
<1>3. /\ pc[t] = "create"
      /\ UNCHANGED <<zombies, parked, arrived, switching, IF_, locals, it>>
  BY DEF Create, At
<1>4. /\ w \in Movable /\ w \in Threads_ /\ w # Reaper /\ w # None /\ w \notin Cores
      /\ readyQ \in Seq(Movable)
  BY ThreadsAssumption DEF Movable, Threads_, TypeOK
<1>5. /\ w \notin Elems(readyQ) /\ w \notin Elems(zombies)
      /\ w \notin parked /\ w \notin Victims
      /\ \A d \in Cores : w \notin HeldBy(d)
  BY <1>4 DEF Homes
<1>6. \A d \in Cores : w \notin Held(d)
  BY <1>4, <1>5 DEF HeldBy
<1>7. /\ w # t /\ \A d \in Cores : stack[d] # w
      /\ \A d \in Cores : locals[stack[d]].next_tcb # w
  BY <1>6 DEF Held
<1>8. pc[w] = "resume" /\ locals[w] = NoLocals /\ ret[w] = "work"
  BY <1>4, <1>7 DEF OffStack, LocalsOnlyInBlock, OwnCodeState
<1>9. it[w] = None /\ it[t] = None
  BY <1>1, <1>3, <1>4, <1>8 DEF OwnCodeState, Doing
<1>10. /\ pc'[w] = "resume" /\ pc'[t] = "work" /\ call'[w] = "start" /\ ret'[w] = "work"
       /\ flags'[w] = TRUE
       /\ \A u \in Threads_ :
            u # w => /\ call'[u] = call[u] /\ ret'[u] = ret[u] /\ flags'[u] = flags[u]
                     /\ no_preempt'[u] = no_preempt[u]
       /\ \A u \in Threads_ : u \notin {w, t} => pc'[u] = pc[u]
  BY <1>1, <1>2, <1>4, <1>7 DEF TypeOK
<1>11. /\ readyQ' \in Seq(Movable)
       /\ Elems(readyQ)' = Elems(readyQ) \cup {w} /\ Injective(readyQ)'
  <2>1. /\ Elems(readyQ)' = Elems(Append(readyQ, w))
        /\ Injective(readyQ)' = Injective(Append(readyQ, w))
    BY <1>2 DEF Elems, Injective
  <2>2. QED
    BY <1>2, <1>4, <1>5, <2>1, AppendElems DEF Homes
<1>12. /\ Elems(zombies)' = Elems(zombies) /\ Injective(zombies)' = Injective(zombies)
       /\ Victims' = Victims
  BY <1>3 DEF Elems, Injective, Victims
<1>13. \A d \in Cores : HeldBy(d)' = HeldBy(d)
  BY <1>3 DEF HeldBy, Held, switching
<1>14. Homes'
  <2>1. \A d \in Cores :
          (HeldBy(d) \cap (Elems(readyQ) \cup Elems(zombies) \cup parked \cup Victims) = {})'
    BY <1>3, <1>5, <1>11, <1>12, <1>13 DEF Homes
  <2>2. /\ (Elems(readyQ) \cap (Elems(zombies) \cup parked \cup Victims) = {})'
        /\ (Elems(zombies) \cap (parked \cup Victims) = {})'
        /\ (parked \cap Victims = {})'
    BY <1>3, <1>5, <1>11, <1>12 DEF Homes
  <2>3. \A u \in Movable :
          (\/ u \in Elems(readyQ) \/ u \in Elems(zombies) \/ u \in parked \/ u \in Victims
           \/ \E d \in Cores : u \in HeldBy(d))' <=>
          \/ u = w
          \/ (\/ u \in Elems(readyQ) \/ u \in Elems(zombies) \/ u \in parked \/ u \in Victims
              \/ \E d \in Cores : u \in HeldBy(d))
    BY <1>3, <1>11, <1>12, <1>13
  <2>4. \A u \in Movable : (u \in tcbs \cup {Reaper})' <=> u = w \/ u \in tcbs \cup {Reaper}
    BY <1>2
  <2>5. QED
    BY <1>3, <1>11, <1>12, <1>13, <2>1, <2>2, <2>3, <2>4 DEF Homes
<1>15. TypeOK'
  <2>1. tcbs' \in SUBSET Workers
    BY <1>2 DEF TypeOK
  <2>2. /\ pc' \in [Threads_ -> OwnCode \cup InBlock \cup {"resume"}]
        /\ call' \in [Threads_ -> Calls] /\ ret' \in [Threads_ -> OwnCode]
        /\ flags' \in [Threads_ -> BOOLEAN] /\ no_preempt' \in [Threads_ -> BOOLEAN]
    BY <1>2 DEF TypeOK, Calls
  <2>3. QED
    BY <1>3, <1>11, <2>1, <2>2 DEF TypeOK, switching, Movable
<1>16. Idles'
  BY <1>3, <1>7, <1>10 DEF Idles, switching, TypeOK
<1>17. OffStack' /\ LocalsOnlyInBlock'
  <2>1. OffStack'
    BY <1>3, <1>10 DEF OffStack, switching
  <2>2. LocalsOnlyInBlock'
    BY <1>3, <1>8, <1>10 DEF LocalsOnlyInBlock
  <2>3. QED
    BY <2>1, <2>2
<1>18. \A d \in Cores :
         /\ stack[d] \in Threads_ /\ stack[d] # w
         /\ pc'[stack[d]] \in InBlock => pc'[stack[d]] = pc[stack[d]] /\ stack[d] # t
         /\ pc[stack[d]] = "switch" => pc'[stack[d]] = pc[stack[d]]
  BY <1>3, <1>7, <1>10 DEF TypeOK
<1>19. LocalsOfBlock' /\ ActiveIsOnStack' /\ Protected'
  <2>1. LocalsOfBlock' /\ ActiveIsOnStack'
    BY <1>3, <1>18 DEF LocalsOfBlock, ActiveIsOnStack, switching
  <2>2. ASSUME NEW d \in Cores, pc'[stack[d]] \in {"activate", "switch"}
        PROVE  no_preempt'[locals[stack[d]].next_tcb]
    <3>1. /\ no_preempt[locals[stack[d]].next_tcb]
          /\ locals[stack[d]].next_tcb \in Threads_
      BY <1>18, <2>2 DEF LocalsOfBlock, Protected, TypeOK, Locals
    <3>2. QED
      BY <1>7, <1>10, <3>1
  <2>3. Protected'
    BY <1>3, <1>10, <1>18, <2>2 DEF Protected, switching
  <2>4. QED
    BY <2>1, <2>3
<1>20. Interrupts'
  <2>1. \A d \in Cores :
          LET u == stack[d] IN
          /\ pc'[u] \in OwnCode => IF_[d]
          /\ pc'[u] = "resume" => ~IF_[d]
          /\ pc'[u] \in InBlock => /\ call'[u] # "start"
                                   /\ call'[u] \in {"yield", "stop"} => IF_[d]
    BY <1>1, <1>3, <1>7, <1>10, <1>18 DEF Interrupts
  <2>2. \A u \in Threads_ :
          pc'[u] = "resume" /\ call'[u] \in {"start", "yield", "stop"} => flags'[u]
    BY <1>10 DEF Interrupts
  <2>3. QED
    BY <1>3, <2>1, <2>2 DEF Interrupts, switching
<1>21. OwnCodeState'
  <2>1. \A u \in Threads_ : (Doing(u) = "delete" <=> it[u] # None)'
    BY <1>3, <1>9, <1>10 DEF OwnCodeState, Doing
  <2>2. \A u \in Movable : pc'[u] # "boot" /\ ret'[u] # "boot"
    BY <1>10 DEF OwnCodeState, Movable, Threads_
  <2>3. /\ \A u \in Cores : ret'[u] = "work"
        /\ \A u \in Workers \ tcbs' : ret'[u] = "work"
    BY <1>2, <1>10 DEF OwnCodeState, Threads_
  <2>4. \A u \in Threads_ : call'[u] = "stop" /\ pc'[u] \notin OwnCode => ret'[u] = "work"
    BY <1>10 DEF OwnCodeState
  <2>5. QED
    BY <2>1, <2>2, <2>3, <2>4 DEF OwnCodeState
<1>22. CallState'
  <2>1. /\ \A u \in Threads_ : call'[u] = "wait" => u \in Workers
        /\ call'[Reaper] # "stop"
        /\ \A u \in Cores : call'[u] \in {"start", "stop"}
    BY <1>4, <1>10 DEF CallState, Threads_
  <2>2. \A u \in Elems(zombies) \cup Victims : u \in Workers /\ u # w
    BY <1>5 DEF Elems, Victims, TypeOK
  <2>3. \A u \in Elems(zombies) \cup Victims : call'[u] = "stop"
    BY <1>10, <2>2 DEF CallState, Threads_
  <2>4. \A u \in Workers :
          call'[u] = "stop" =>
            /\ u # w /\ u \notin Elems(readyQ) /\ u \notin parked
            /\ \A d \in Cores : /\ locals[stack[d]].next_tcb # u
                                /\ stack[d] = u => pc[u] \in InBlock
    BY <1>10 DEF CallState, Threads_
  <2>5. \A u \in Workers, d \in Cores :
          call'[u] = "stop" /\ stack[d] = u => pc'[u] \in InBlock
    BY <1>3, <1>10, <2>4 DEF Threads_
  <2>6. QED
    BY <1>3, <1>11, <1>12, <2>1, <2>3, <2>4, <2>5 DEF CallState, switching
<1>23. Arrivals'
  <2>1. \A d \in Cores : pc'[d] = "boot" <=> pc[d] = "boot"
    BY <1>3, <1>4, <1>10 DEF Threads_
  <2>2. QED
    BY <1>3, <2>1 DEF Arrivals
<1>24. QED
  BY <1>14, <1>15, <1>16, <1>17, <1>19, <1>20, <1>21, <1>22, <1>23

-----------------------------------------------------------------------------

LEMMA InitIInv == Init => IInv
<1> SUFFICES ASSUME Init PROVE IInv
  OBVIOUS
<1> USE ThreadsAssumption DEF Init
<1>1. /\ readyQ \in Seq(Workers \cup {Reaper}) /\ Elems(readyQ) = {Reaper} /\ Injective(readyQ)
      /\ zombies \in Seq(Workers) /\ Elems(zombies) = {} /\ Injective(zombies)
  BY DEF Elems, Injective
<1>2. Victims = {} /\ \A c \in Cores : Held(c) = {c, None} /\ HeldBy(c) = {}
  BY DEF Victims, Held, HeldBy, Threads_, Movable, NoLocals
<1>3. {c \in Cores : pc[c] # "boot"} = {}
  BY DEF Threads_
<1>4. Cardinality({}) = 0 /\ Cardinality(Cores) \in Nat
  BY FS_EmptySet, FS_CardinalityType
<1>5. TypeOK
  BY <1>1, <1>4 DEF TypeOK, Threads_, Locals, NoLocals, OwnCode, Calls
<1>6. Homes
  BY <1>1, <1>2 DEF Homes, Movable
<1>7. Idles /\ OffStack /\ LocalsOnlyInBlock /\ LocalsOfBlock /\ ActiveIsOnStack /\ Protected
  BY DEF Idles, OffStack, LocalsOnlyInBlock, LocalsOfBlock, ActiveIsOnStack, Protected,
     Threads_, NoLocals, InBlock, isIdle
<1>8. Interrupts /\ OwnCodeState
  BY DEF Interrupts, OwnCodeState, Doing, Threads_, Movable, OwnCode, InBlock
<1>9. CallState /\ Arrivals
  BY <1>1, <1>2, <1>3, <1>4 DEF CallState, Arrivals, Threads_, NoLocals
<1>10. QED
  BY <1>5, <1>6, <1>7, <1>8, <1>9 DEF IInv

LEMMA StepKeepsIInv == IInv /\ [Next]_vars => IInv'
<1> SUFFICES ASSUME IInv, [Next]_vars PROVE IInv'
  OBVIOUS
<1>1. CASE UNCHANGED vars
  <2> USE <1>1 DEF vars, queues, switching, blocking, IInv
  <2>1. \A c \in Cores : HeldBy(c)' = HeldBy(c)
    BY DEF HeldBy, Held
  <2>2. /\ Homes'
        /\ Elems(readyQ)' = Elems(readyQ) /\ Elems(zombies)' = Elems(zombies)
        /\ Victims' = Victims
    BY <2>1, HomesSame
  <2>3. TypeOK' /\ Idles' /\ OffStack' /\ LocalsOnlyInBlock'
    BY DEF TypeOK, Idles, OffStack, LocalsOnlyInBlock
  <2>4. LocalsOfBlock' /\ ActiveIsOnStack' /\ Protected'
    BY DEF LocalsOfBlock, ActiveIsOnStack, Protected
  <2>5. Interrupts' /\ OwnCodeState' /\ Arrivals'
    BY DEF Interrupts, OwnCodeState, Doing, Arrivals
  <2>6. CallState'
    BY <2>2 DEF CallState
  <2>7. QED
    BY <2>2, <2>3, <2>4, <2>5, <2>6
<1>2. CASE Next
  <2>1. PICK c \in Cores : Step(c, stack[c])
    BY <1>2 DEF Next
  <2>2. QED
    BY <2>1, ArriveStep, CallersStep, DequeueStep, ReturnAtOnceStep, FallBackToIdleStep,
       ClaimStep, ActivateStep, SwitchStep, HandlerStep, ResumeStep, RemoveZombieStep,
       OwnCodeMoves, DeleteStep, CreateStep, WakeStep
    DEF Step, KernelStep, ReaperStep, GiveUp, IdleStop
<1>3. QED
  BY <1>1, <1>2

(* The invariant holds of every behaviour.                                 *)
THEOREM Invariance == Spec => []IInv
<1>1. QED
  BY InitIInv, StepKeepsIInv, PTL DEF Spec

(* The state of the scheduler is well typed; in particular block() has a   *)
(* TCB to switch to and a core number when it needs them.                  *)
THEOREM TypeCorrect == Spec => []TypeOK
<1>1. IInv => TypeOK
  BY DEF IInv
<1>2. QED
  BY <1>1, Invariance, PTL

(* A timer interrupt that leads to a yield met the active thread in its    *)
(* own code (the question at threads.h:118).                               *)
THEOREM PreemptionIsSafe == Spec => []PreemptedOnlyOutsideBlock
<1>1. QED
  BY TimerSeesOwnCode, Invariance, PTL

(* A TCB is in one queue, with one core or with the one who deletes it,    *)
(* and what is deleted is referred to by nobody (threads.h:76-80).         *)
THEOREM EveryThreadIsInOnePlace == Spec => []OnePlace
<1>1. IInv => OnePlace
  <2> SUFFICES ASSUME IInv, NEW t \in Movable
               PROVE  /\ \A p, q \in Places(t) : p = q
                      /\ Places(t) # {} <=> t \in tcbs \cup {Reaper}
    BY DEF OnePlace, Movable
  <2> DEFINE InReady == t \in Elems(readyQ)
             InZombies == t \in Elems(zombies)
             IsVictim == t \in Victims
             IsHeld == \E c \in Cores : t \in HeldBy(c)
  <2>1. t # None
    BY ThreadsAssumption DEF Movable
  <2>2. \A c \in Cores : t \in Held(c) <=> t \in HeldBy(c)
    BY DEF HeldBy
  <2>3. \A p \in Places(t) :
          \/ InReady /\ \E i \in DOMAIN readyQ : p = <<"ready", i>> /\ readyQ[i] = t
          \/ InZombies /\ \E i \in DOMAIN zombies : p = <<"zombie", i>> /\ zombies[i] = t
          \/ t \in parked /\ p = <<"parked", t>>
          \/ \E c \in Cores : p = <<"core", c>> /\ t \in HeldBy(c)
          \/ IsVictim /\ \E u \in Threads_ : p = <<"deleter", u>> /\ it[u] = t
    BY <2>1, <2>2 DEF Places, Elems, Victims
  <2>4. /\ \A i, j \in DOMAIN readyQ : readyQ[i] = t /\ readyQ[j] = t => i = j
        /\ \A i, j \in DOMAIN zombies : zombies[i] = t /\ zombies[j] = t => i = j
        /\ \A u, v \in Threads_ : it[u] = t /\ it[v] = t => u = v
        /\ \A c, d \in Cores : t \in HeldBy(c) /\ t \in HeldBy(d) => c = d
    BY <2>1 DEF IInv, Homes, Injective
  <2>5. /\ InReady => ~InZombies /\ t \notin parked /\ ~IsVictim
        /\ InZombies => t \notin parked /\ ~IsVictim
        /\ t \in parked => ~IsVictim
        /\ IsHeld => ~InReady /\ ~InZombies /\ t \notin parked /\ ~IsVictim
    BY DEF IInv, Homes
  <2>6. \A p, q \in Places(t) : p = q
    BY <2>3, <2>4, <2>5
  <2>7. Places(t) # {} <=> InReady \/ InZombies \/ t \in parked \/ IsVictim \/ IsHeld
    <3>1. ASSUME Places(t) # {} PROVE InReady \/ InZombies \/ t \in parked \/ IsVictim \/ IsHeld
      BY <2>3, <3>1
    <3>2. ASSUME InReady PROVE Places(t) # {}
      BY <3>2 DEF Elems, Places
    <3>3. ASSUME InZombies PROVE Places(t) # {}
      BY <3>3 DEF Elems, Places
    <3>4. ASSUME t \in parked PROVE Places(t) # {}
      BY <3>4 DEF Places
    <3>5. ASSUME IsVictim PROVE Places(t) # {}
      <4>1. PICK u \in Threads_ : it[u] = t
        BY <3>5 DEF Victims
      <4>2. <<"deleter", u>> \in {<<"deleter", v>> : v \in {w \in Threads_ : it[w] = t}}
        BY <4>1
      <4>3. QED
        BY <4>2, Zenon DEF Places
    <3>6. ASSUME IsHeld PROVE Places(t) # {}
      BY <2>2, <3>6 DEF Places
    <3>7. QED
      BY <3>1, <3>2, <3>3, <3>4, <3>5, <3>6
  <2>8. QED
    BY <2>6, <2>7 DEF IInv, Homes
<1>2. QED
  BY <1>1, Invariance, PTL

(* An idle thread runs on its own core only, and the ASSERTs with which it *)
(* looks for work hold (threads.h:106-109).                                *)
THEOREM IdleThreadsStayHome == Spec => []IdleStaysHome
<1>1. IInv => IdleStaysHome
  <2> SUFFICES ASSUME IInv, NEW c \in Cores, isIdle(stack[c])
               PROVE  /\ stack[c] = c
                      /\ pc[c] = "remove" => /\ IF_[c] /\ activeThreads[c] = c
                                            /\ locals[c].core_id = c /\ locals[c].me = c
    BY DEF IdleStaysHome, IInv, Idles
  <2>1. stack[c] = c
    BY DEF IInv, Idles
  <2>2. call[c] \in {"start", "stop"}
    BY DEF IInv, CallState
  <2>3. QED
    BY <2>1, <2>2 DEF IInv, LocalsOfBlock, ActiveIsOnStack, Interrupts, InBlock
<1>2. QED
  BY <1>1, Invariance, PTL

(* Back in its own code, a thread has interrupts on (threads.cc:91).       *)
THEOREM OwnCodeIsInterruptible == Spec => []InterruptsOnInOwnCode
<1>1. IInv => InterruptsOnInOwnCode
  BY DEF IInv, Interrupts, InterruptsOnInOwnCode
<1>2. QED
  BY <1>1, Invariance, PTL

(* stop() is the end of a thread (threads.cc:115).                         *)
THEOREM StopIsFinal == Spec => []StoppedNeverResumes
<1>1. IInv => StoppedNeverResumes
  <2> SUFFICES ASSUME IInv, NEW c \in Cores, pc[stack[c]] = "resume", call[stack[c]] = "stop"
               PROVE  stack[c] \in Cores
    BY DEF StoppedNeverResumes, isIdle
  <2>1. stack[c] \notin Workers /\ stack[c] # Reaper
    BY DEF IInv, CallState, InBlock
  <2>2. QED
    BY <2>1, CoreFacts DEF Threads_
<1>2. QED
  BY <1>1, Invariance, PTL

-----------------------------------------------------------------------------

(* ThreadLifecycle as the thread module implements it: the values that the *)
(* instance Lifecycle gives to exited, on and chosen.                      *)
Exited == {w \in tcbs : (\E i \in DOMAIN zombies : zombies[i] = w)
                          \/ \E t \in Threads_ : it[t] = w}
On == [c \in Cores |-> IF source[c] = None THEN stack[c] ELSE source[c]]
Chosen == [c \in Cores |-> IF source[c] = None THEN locals[stack[c]].next_tcb
                                             ELSE stack[c]]
lifecycle == <<tcbs, readyQ, parked, Exited, On, Chosen>>

(* A core that goes from one thread to another has both in hand.           *)
LEMMA CoresSame ==
  ASSUME UNCHANGED <<stack, source>>,
         \A d \in Cores : locals'[stack[d]].next_tcb = locals[stack[d]].next_tcb
  PROVE  On' = On /\ Chosen' = Chosen
BY DEF On, Chosen

(* The steps of a thread's own code, of block() and of the switch that the *)
(* rest of the kernel does not see.                                        *)
LEMMA HiddenSteps ==
  ASSUME IInv, NEW c \in Cores, NEW t, t = stack[c],
         \/ Arrive(c, t) \/ Yield(c, t) \/ Stop(c, t) \/ Wait(c, t) \/ Timer(c, t)
         \/ ReturnAtOnce(c, t) \/ Claim(c, t) \/ Activate(c, t) \/ Resume(c, t)
         \/ NoZombie(c, t) \/ Spawn(c, t)
  PROVE  lifecycle' = lifecycle
<1>1. UNCHANGED <<queues, tcbs, stack, source, it>>
  BY DEF Arrive, Yield, Stop, Wait, Timer, ReturnAtOnce, Claim, Activate, Resume, NoZombie,
     Spawn, Enter, switching
<1>2. t \in Threads_ /\ \A d \in Cores : stack[d] = t => d = c
  BY CoreFacts
<1>3. locals' = locals \/ \E l \in Locals : l.next_tcb = None /\ locals' = [locals EXCEPT ![t] = l]
  <2>1. CASE Arrive(c, t) \/ Claim(c, t) \/ Activate(c, t) \/ Resume(c, t) \/ NoZombie(c, t)
             \/ Spawn(c, t)
    BY <2>1 DEF Arrive, Claim, Activate, Resume, NoZombie, Spawn, blocking
  <2>2. CASE ReturnAtOnce(c, t)
    BY <2>2 DEF ReturnAtOnce, NoLocals, Locals
  <2>3. CASE Yield(c, t) \/ Stop(c, t) \/ Wait(c, t) \/ Timer(c, t)
    <3>1. \E me \in Threads_ : locals' = [locals EXCEPT ![t] = [core_id |-> c, me |-> me,
                                                                next_tcb |-> None]]
      BY <2>3 DEF Yield, Stop, Wait, Timer, Enter, IInv, TypeOK
    <3>2. QED
      BY <3>1 DEF Locals
  <2>4. QED
    BY <2>1, <2>2, <2>3
<1>4. locals' # locals => locals[t].next_tcb = None
  <2>1. CASE Arrive(c, t) \/ Claim(c, t) \/ Activate(c, t) \/ Resume(c, t) \/ NoZombie(c, t)
             \/ Spawn(c, t)
    BY <2>1 DEF Arrive, Claim, Activate, Resume, NoZombie, Spawn, blocking
  <2>2. CASE ReturnAtOnce(c, t)
    BY <2>2 DEF ReturnAtOnce, At, IInv, LocalsOfBlock, InBlock
  <2>3. CASE Yield(c, t) \/ Stop(c, t) \/ Wait(c, t) \/ Timer(c, t)
    <3>1. pc[t] \in OwnCode
      BY <2>3, TimerSeesOwnCode DEF Yield, Stop, Wait, Timer, At, OwnCode,
         PreemptedOnlyOutsideBlock
    <3>2. pc[t] \notin InBlock
      BY <3>1 DEF OwnCode, InBlock
    <3>3. locals[t] = NoLocals
      BY <1>2, <3>2 DEF IInv, LocalsOnlyInBlock
    <3>4. QED
      BY <3>3 DEF NoLocals
  <2>4. QED
    BY <2>1, <2>2, <2>3
<1>5. \A d \in Cores : locals'[stack[d]].next_tcb = locals[stack[d]].next_tcb
  BY <1>2, <1>3, <1>4 DEF IInv, TypeOK
<1>6. Exited' = Exited
  BY <1>1 DEF Exited, queues
<1>7. QED
  BY <1>1, <1>5, <1>6, CoresSame DEF lifecycle, queues

(* From pushf to the handler the core has the same two threads in hand.    *)
LEMMA SwitchIsHidden ==
  ASSUME IInv, NEW c \in Cores, NEW t, t = stack[c], Switch(c, t)
  PROVE  lifecycle' = lifecycle
<1> DEFINE n == locals[t].next_tcb
<1>1. t \in Threads_ /\ t # None /\ \A d \in Cores : stack[d] = t => d = c
  BY CoreFacts
<1>2. /\ source[c] = None /\ locals[t].me = t
      /\ stack' = [stack EXCEPT ![c] = n]
      /\ source' = [source EXCEPT ![c] = t]
      /\ locals' = [locals EXCEPT ![t] = NoLocals]
      /\ UNCHANGED <<queues, tcbs, it>>
  BY <1>1 DEF Switch, At, IInv, LocalsOfBlock, InBlock
<1>3. \A d \in Cores :
        d # c => /\ stack'[d] = stack[d] /\ source'[d] = source[d]
                 /\ locals'[stack[d]] = locals[stack[d]]
  BY <1>1, <1>2 DEF IInv, TypeOK
<1>4. stack'[c] = n /\ source'[c] = t
  BY <1>2 DEF IInv, TypeOK
<1>5. \A d \in Cores : /\ (IF source'[d] = None THEN stack'[d] ELSE source'[d])
                            = IF source[d] = None THEN stack[d] ELSE source[d]
                       /\ (IF source'[d] = None THEN locals'[stack'[d]].next_tcb ELSE stack'[d])
                            = IF source[d] = None THEN locals[stack[d]].next_tcb ELSE stack[d]
  BY <1>1, <1>2, <1>3, <1>4
<1>6. On' = On /\ Chosen' = Chosen
  BY <1>5 DEF On, Chosen
<1>7. Exited' = Exited
  BY <1>2 DEF Exited, queues
<1>8. QED
  BY <1>2, <1>6, <1>7 DEF lifecycle, queues

(* A zombie that is about to be deleted has exited all the same.           *)
LEMMA RemoveZombieIsHidden ==
  ASSUME IInv, NEW c \in Cores, NEW t, t = stack[c], RemoveZombie(c, t)
  PROVE  lifecycle' = lifecycle
<1> DEFINE z == Head(zombies)
<1>1. t \in Threads_
  BY CoreFacts
<1>2. /\ pc[t] = "clean" /\ zombies # <<>>
      /\ it' = [it EXCEPT ![t] = z]
      /\ zombies' = Tail(zombies)
      /\ UNCHANGED <<readyQ, parked, tcbs, stack, source, locals>>
  BY DEF RemoveZombie, At, switching, blocking
<1>3. it[t] = None
  BY <1>1, <1>2 DEF IInv, OwnCodeState, Doing, OwnCode
<1>4. z \in Workers /\ Elems(zombies) = Elems(zombies)' \cup {z}
  <2>1. zombies \in Seq(Workers)
    BY DEF IInv, TypeOK
  <2>2. Elems(zombies)' = Elems(Tail(zombies))
    BY <1>2 DEF Elems
  <2>3. QED
    BY <1>2, <2>1, <2>2, TailElems
<1>5. z # None
  BY <1>4, ThreadsAssumption
<1>6. /\ it'[t] = z /\ \A u \in Threads_ : u # t => it'[u] = it[u]
  BY <1>1, <1>2 DEF IInv, TypeOK
<1>7. /\ \A w \in tcbs : (\E u \in Threads_ : it'[u] = w) <=> w = z \/ \E u \in Threads_ : it[u] = w
      /\ \A w \in tcbs : w \in Elems(zombies) <=> w = z \/ w \in Elems(zombies)'
  <2>1. None \notin tcbs
    BY ThreadsAssumption DEF IInv, TypeOK
  <2>2. QED
    BY <1>1, <1>3, <1>4, <1>6, <2>1
<1>8. Exited' = Exited
  BY <1>2, <1>7 DEF Exited, Elems
<1>9. QED
  BY <1>2, <1>8, CoresSame DEF lifecycle

(* Taking the head of the queue is the choice of the next thread.          *)
LEMMA DequeueChooses ==
  ASSUME IInv, NEW c \in Cores, NEW t, t = stack[c], Dequeue(c, t)
  PROVE  Lifecycle!Choose(c)
<1>1. t \in Threads_ /\ \A d \in Cores : stack[d] = t => d = c
  BY CoreFacts
<1>2. /\ source[c] = None /\ pc[t] = "remove" /\ readyQ # <<>>
      /\ locals' = [locals EXCEPT ![t].next_tcb = Head(readyQ)]
      /\ readyQ' = Tail(readyQ)
      /\ UNCHANGED <<zombies, parked, tcbs, stack, source, it>>
  BY DEF Dequeue, At, SetNext, switching
<1>3. locals[t].next_tcb = None
  BY <1>1, <1>2 DEF IInv, LocalsOfBlock, InBlock
<1>4. /\ locals'[t].next_tcb = Head(readyQ)
      /\ \A d \in Cores : d # c => locals'[stack[d]] = locals[stack[d]]
  BY <1>1, <1>2 DEF IInv, TypeOK, Locals
<1>5. Chosen[c] = None /\ On' = On
  <2>1. Chosen[c] = None
    BY <1>2, <1>3 DEF Chosen
  <2>2. On' = On
    BY <1>2 DEF On
  <2>3. QED
    BY <2>1, <2>2
<1>6. Chosen' = [Chosen EXCEPT ![c] = Head(readyQ)]
  <2>1. source[c] = None /\ stack[c] = t /\ UNCHANGED <<stack, source>>
    BY <1>2
  <2>2. QED
    BY <1>4, <2>1 DEF Chosen
<1>7. Exited' = Exited
  BY <1>2 DEF Exited
<1>8. QED
  BY <1>2, <1>5, <1>6, <1>7 DEF Lifecycle!Choose, Chosen, On, Exited

(* With nobody in the queue a thread that must leave turns to the idle     *)
(* thread of its core.                                                     *)
LEMMA FallBackChoosesIdle ==
  ASSUME IInv, NEW c \in Cores, NEW t, t = stack[c], FallBackToIdle(c, t)
  PROVE  Lifecycle!ChooseIdle(c)
<1>1. t \in Threads_ /\ \A d \in Cores : stack[d] = t => d = c
  BY CoreFacts
<1>2. /\ source[c] = None /\ pc[t] = "remove" /\ readyQ = <<>> /\ ~isIdle(locals[t].me)
      /\ locals' = [locals EXCEPT ![t].next_tcb = locals[t].core_id]
      /\ UNCHANGED <<readyQ, zombies, parked, tcbs, stack, source, it>>
  BY DEF FallBackToIdle, At, SetNext, switching, queues
<1>3. locals[t].next_tcb = None /\ locals[t].core_id = c /\ locals[t].me = t /\ t # c
  BY <1>1, <1>2 DEF IInv, LocalsOfBlock, InBlock, isIdle
<1>4. /\ locals'[t].next_tcb = c
      /\ \A d \in Cores : d # c => locals'[stack[d]] = locals[stack[d]]
  BY <1>1, <1>2, <1>3 DEF IInv, TypeOK, Locals
<1>5. Chosen[c] = None /\ On' = On /\ On[c] # c
  <2>1. Chosen[c] = None
    BY <1>2, <1>3 DEF Chosen
  <2>2. On' = On /\ On[c] # c
    BY <1>2, <1>3 DEF On
  <2>3. QED
    BY <2>1, <2>2
<1>6. Chosen' = [Chosen EXCEPT ![c] = c]
  <2>1. source[c] = None /\ stack[c] = t /\ UNCHANGED <<stack, source>>
    BY <1>2
  <2>2. QED
    BY <1>4, <2>1 DEF Chosen
<1>7. Exited' = Exited
  BY <1>2 DEF Exited
<1>8. QED
  BY <1>2, <1>5, <1>6, <1>7 DEF Lifecycle!ChooseIdle, Chosen, On, Exited

(* The handler is the turn from one thread to the other.                   *)
LEMMA HandlerTurns ==
  ASSUME IInv, NEW c \in Cores, Handler(c)
  PROVE  Lifecycle!Turn(c)
<1> DEFINE me == source[c]
<1>1. /\ me # None /\ source' = [source EXCEPT ![c] = None]
      /\ UNCHANGED <<tcbs, stack, locals, it>>
  BY DEF Handler, blocking
<1>2. stack[c] # None /\ locals[stack[c]].next_tcb = None
  BY <1>1, CoreFacts DEF IInv, Idles, LocalsOnlyInBlock, NoLocals, InBlock
<1>3. source'[c] = None /\ \A d \in Cores : d # c => source'[d] = source[d]
  BY <1>1 DEF IInv, TypeOK
<1>4. On[c] = me /\ Chosen[c] = stack[c]
  BY <1>1 DEF On, Chosen
<1>5. /\ On' = [On EXCEPT ![c] = Chosen[c]]
      /\ Chosen' = [Chosen EXCEPT ![c] = None]
  BY <1>1, <1>2, <1>3, <1>4 DEF On, Chosen
<1>6. \/ me = c /\ UNCHANGED <<readyQ, parked, zombies>>
      \/ me # c /\ readyQ' = Append(readyQ, me) /\ UNCHANGED <<parked, zombies>>
      \/ me \in Workers /\ parked' = parked \cup {me} /\ UNCHANGED <<readyQ, zombies>>
      \/ me \in Workers /\ zombies' = Append(zombies, me) /\ UNCHANGED <<readyQ, parked>>
  <2>1. me \in Threads_ /\ (isIdle(me) => me = c) /\ (me = c => isIdle(me))
    BY <1>1 DEF IInv, TypeOK, Idles, isIdle
  <2>2. call[me] = "wait" => me \in Workers
    BY <2>1 DEF IInv, CallState
  <2>3. call[me] = "stop" => me \in Workers \/ isIdle(me)
    BY <2>1 DEF IInv, CallState, Threads_, isIdle
  <2>4. QED
    BY <2>1, <2>2, <2>3 DEF Handler, schedule, Ready
<1>7. zombies' = zombies => Exited' = Exited
  BY <1>1 DEF Exited
<1>8. me \in Workers /\ zombies' = Append(zombies, me) => Exited' = Exited \cup {me}
  <2> SUFFICES ASSUME me \in Workers, zombies' = Append(zombies, me)
               PROVE  Exited' = Exited \cup {me}
    OBVIOUS
  <2>1. me \in tcbs
    BY HeldApart, ThreadsAssumption DEF Held, Movable
  <2>2. Elems(zombies)' = Elems(zombies) \cup {me}
    <3>1. zombies \in Seq(Workers)
      BY DEF IInv, TypeOK
    <3>2. Elems(zombies)' = Elems(Append(zombies, me))
      BY DEF Elems
    <3>3. QED
      BY <3>1, <3>2, AppendElems
  <2>3. \A w \in tcbs : w \in Elems(zombies)' <=> w \in Elems(zombies) \/ w = me
    BY <2>2
  <2>4. QED
    BY <1>1, <2>1, <2>3 DEF Exited, Elems
<1>9. /\ On[c] \in Workers <=> me \in Workers
      /\ Chosen[c] # None
  BY <1>2, <1>4
<1>10. \/ On[c] = c /\ UNCHANGED <<readyQ, parked, Exited>>
       \/ On[c] # c /\ readyQ' = Append(readyQ, On[c]) /\ UNCHANGED <<parked, Exited>>
       \/ On[c] \in Workers /\ parked' = parked \cup {On[c]} /\ UNCHANGED <<readyQ, Exited>>
       \/ On[c] \in Workers /\ Exited' = Exited \cup {On[c]} /\ UNCHANGED <<readyQ, parked>>
  BY <1>4, <1>6, <1>7, <1>8
<1>11. QED
  BY <1>1, <1>5, <1>9, <1>10 DEF Lifecycle!Turn, Chosen, On, Exited

LEMMA WakeWakes ==
  ASSUME IInv, NEW c \in Cores, NEW t, Wake(c, t)
  PROVE  \E w \in Workers : Lifecycle!Wake(w)
<1>1. PICK w \in parked : parked' = parked \ {w} /\ readyQ' = Append(readyQ, w)
  BY DEF Wake, Ready
<1>2. UNCHANGED <<zombies, tcbs, stack, source, locals, it>>
  BY DEF Wake, switching, blocking
<1>3. On' = On /\ Chosen' = Chosen /\ Exited' = Exited
  BY <1>2 DEF On, Chosen, Exited
<1>4. w \in Workers
  BY DEF IInv, TypeOK
<1>5. QED
  BY <1>1, <1>2, <1>3, <1>4 DEF Lifecycle!Wake, On, Chosen, Exited

LEMMA DeleteDeletes ==
  ASSUME IInv, NEW c \in Cores, NEW t, t = stack[c], Delete(c, t)
  PROVE  \E w \in Workers : Lifecycle!Delete(w)
<1>0. PICK z : z = it[t]
  OBVIOUS
<1>1. t \in Threads_
  BY CoreFacts
<1>2. /\ pc[t] = "delete"
      /\ it' = [it EXCEPT ![t] = None]
      /\ tcbs' = tcbs \ {z}
      /\ UNCHANGED <<readyQ, zombies, parked, stack, source, locals>>
  BY <1>0 DEF Delete, At, queues, switching, blocking
<1>3. z # None /\ z \in Workers /\ z \in Victims
  BY <1>0, <1>1, <1>2 DEF IInv, OwnCodeState, Doing, OwnCode, TypeOK, Victims
<1>4. z \in tcbs /\ z \notin Elems(zombies)
  BY <1>3, ThreadsAssumption DEF IInv, Homes, Movable
<1>5. z \in Exited
  BY <1>0, <1>1, <1>4 DEF Exited
<1>6. it'[t] = None /\ \A u \in Threads_ : u # t => it'[u] = it[u] /\ it[u] # z
  BY <1>0, <1>1, <1>2, <1>3 DEF IInv, TypeOK, Homes
<1>7. None \notin tcbs
  BY ThreadsAssumption DEF IInv, TypeOK
<1>8. Exited' = Exited \ {z}
  <2>1. \A w \in tcbs' : (\E u \in Threads_ : it'[u] = w) <=> \E u \in Threads_ : it[u] = w
    BY <1>0, <1>1, <1>2, <1>6, <1>7
  <2>2. QED
    BY <1>2, <2>1 DEF Exited
<1>9. On' = On /\ Chosen' = Chosen
  BY <1>2 DEF On, Chosen
<1>10. Lifecycle!Delete(z)
  <2>1. z \in Exited /\ tcbs' = tcbs \ {z} /\ Exited' = Exited \ {z}
    BY <1>2, <1>5, <1>8
  <2>2. UNCHANGED <<readyQ, parked, On, Chosen>>
    BY <1>2, <1>9
  <2>3. QED
    BY <2>1, <2>2, Zenon DEF Lifecycle!Delete, On, Chosen, Exited
<1>11. QED
  BY <1>3, <1>10

LEMMA CreateCreates ==
  ASSUME IInv, NEW c \in Cores, NEW t, Create(c, t)
  PROVE  \E w \in Workers : Lifecycle!Create(w)
<1>1. PICK w \in Workers \ tcbs : tcbs' = tcbs \cup {w} /\ readyQ' = Append(readyQ, w)
  BY DEF Create, Ready
<1>2. UNCHANGED <<zombies, parked, stack, source, locals, it>>
  BY DEF Create, switching
<1>3. w \notin Elems(zombies) /\ w \notin Victims /\ w # None
  BY ThreadsAssumption DEF IInv, Homes, Movable
<1>4. Exited' = Exited
  BY <1>1, <1>2, <1>3 DEF Exited, Elems, Victims
<1>5. On' = On /\ Chosen' = Chosen
  BY <1>2 DEF On, Chosen
<1>6. Lifecycle!Create(w)
  BY <1>1, <1>2, <1>4, <1>5 DEF Lifecycle!Create, On, Chosen, Exited
<1>7. QED
  BY <1>6

(* What the rest of the kernel is promised (ThreadLifecycle) is what the   *)
(* thread module does: who exists, who is served, and in which order.      *)
THEOREM ThreadsImplementLifecycle == Spec => ImplementsLifecycle
<1>1. Init => Lifecycle!Init
  <2> SUFFICES ASSUME Init PROVE Lifecycle!Init
    OBVIOUS
  <2>1. On = [c \in Cores |-> c] /\ Chosen = [c \in Cores |-> None] /\ Exited = {}
    BY DEF Init, On, Chosen, Exited, Threads_, NoLocals
  <2>2. QED
    BY <2>1 DEF Init, Lifecycle!Init, On, Chosen, Exited
<1>2. IInv /\ [Next]_vars => [Lifecycle!Next]_(Lifecycle!vars)
  <2> SUFFICES ASSUME IInv, [Next]_vars PROVE Lifecycle!Next \/ lifecycle' = lifecycle
    BY DEF Lifecycle!vars, lifecycle, On, Chosen, Exited
  <2>1. CASE UNCHANGED vars
    BY <2>1 DEF vars, queues, switching, blocking, lifecycle, On, Chosen, Exited
  <2>2. CASE Next
    <3>1. PICK c \in Cores : Step(c, stack[c])
      BY <2>2 DEF Next
    <3>2. CASE Dequeue(c, stack[c]) \/ FallBackToIdle(c, stack[c]) \/ Handler(c)
      BY <3>2, DequeueChooses, FallBackChoosesIdle, HandlerTurns DEF Lifecycle!Next
    <3>3. CASE Wake(c, stack[c]) \/ Delete(c, stack[c]) \/ Create(c, stack[c])
      BY <3>3, WakeWakes, DeleteDeletes, CreateCreates DEF Lifecycle!Next
    <3>4. QED
      BY <3>1, <3>2, <3>3, HiddenSteps, SwitchIsHidden, RemoveZombieIsHidden
      DEF Step, KernelStep, ReaperStep, GiveUp, IdleStop
  <2>3. QED
    BY <2>1, <2>2
<1>3. QED
  BY <1>1, <1>2, Invariance, PTL DEF Spec, ImplementsLifecycle, Lifecycle!Spec

=============================================================================
