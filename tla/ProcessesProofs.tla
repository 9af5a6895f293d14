-------------------------- MODULE ProcessesProofs --------------------------
(***************************************************************************)
(* That a parent that waits gets the code of the child that it waits for   *)
(* and does not wait in vain, and that objects which processes share live  *)
(* as long as somebody refers to them, for any number of processes, slots  *)
(* and objects.                                                            *)
(***************************************************************************)
EXTENDS Processes, FiniteSetTheorems, TLAPS

(* The process is in get() of some future.                                 *)
Getting(p) == pc[p] \in {"get", "get down", "get up", "get t", "waited"}

(* A slot refers to an object of its kind.                                 *)
Fits(i, o) ==
  \/ o = None
  \/ i \in FdIds /\ o \in Descriptors
  \/ i \in SpIds /\ o \in Semaphores
  \/ i \in CpIds /\ o \in Futures

SlotsTyped ==
  /\ pcb \in [Procs -> [Ids -> Objects \cup {None}]]
  /\ \A p \in Procs, i \in Ids : Fits(i, pcb[p][i])

Typed ==
  /\ SlotsTyped
  /\ count \in [Semaphores \cup Futures -> Nat]
  /\ t \in [Futures -> Procs \cup {None}]
  /\ pc \in [Procs -> Steps]
  /\ arg \in [Procs -> Objects \cup {None}]
  /\ status \in [Procs -> Procs \cup {None}]
  /\ isReady \in SUBSET Futures
  /\ panicked \in BOOLEAN

(* A future is in the slots of one process, the parent, which is the only  *)
(* one to wait for it.                                                     *)
OneParent ==
  /\ \A p, q \in Procs, i \in Ids : pcb[p][i] = Future(q) => pc[q] # "none"
  /\ \A p, r \in Procs, i, j \in Ids :
       pcb[p][i] = pcb[r][j] /\ pcb[p][i] \in Futures => p = r
  /\ \A p \in Procs : Getting(p) => arg[p] \in Futures /\ \E i \in Ids : pcb[p][i] = arg[p]
  /\ \A p \in Procs : pc[p] = "down" => arg[p] \in Semaphores

(* How far set() has come.                                                 *)
SetSoFar ==
  /\ \A q \in Procs : Future(q) \in isReady <=> pc[q] \in {"set up", "stop"}
  /\ \A q \in Procs : pc[q] \in {"set ready", "set up", "stop"} => t[Future(q)] = q

(* The permit of set() is in go, except while get() has it.                *)
Taken(q) == \E p \in Procs : pc[p] = "get up" /\ arg[p] = Future(q)

OnePermit ==
  /\ \A q \in Procs : pc[q] # "stop" => count[Future(q)] = 0
  /\ \A q \in Procs : Taken(q) => pc[q] = "stop" /\ count[Future(q)] = 0
  /\ \A q \in Procs : pc[q] = "stop" => Taken(q) \/ count[Future(q)] = 1

GotIt ==
  /\ \A p \in Procs : pc[p] = "get t" => arg[p] \in isReady
  /\ \A p \in Procs : pc[p] = "waited" => status[p] \in Procs /\ arg[p] = Future(status[p])

WInv == Typed /\ OneParent /\ SetSoFar /\ OnePermit /\ GotIt

-----------------------------------------------------------------------------

(* The kinds of slots and of objects are apart.                            *)
LEMMA KindsApart ==
  /\ Descriptors \cap Semaphores = {} /\ Descriptors \cap Futures = {} /\ Semaphores \cap Futures = {}
  /\ \A p \in Procs : Future(p) \in Futures
  /\ \A p, q : Future(p) = Future(q) => p = q
  /\ \A f \in Futures : \E p \in Procs : f = Future(p)
  /\ FdIds \cap CpIds = {} /\ SpIds \cap CpIds = {} /\ FdIds \cap SpIds = {}
  /\ FdIds \cup SpIds \cup CpIds = Ids
  /\ ConsoleIds \subseteq FdIds
<1>1. /\ Descriptors \cap Semaphores = {} /\ Descriptors \cap Futures = {}
      /\ Semaphores \cap Futures = {}
  BY DEF Descriptors, Semaphores, Futures, Future
<1>2. /\ \A p \in Procs : Future(p) \in Futures
      /\ \A p, q : Future(p) = Future(q) => p = q
      /\ \A f \in Futures : \E p \in Procs : f = Future(p)
  BY DEF Futures, Future
<1>3. /\ FdIds \cap CpIds = {} /\ SpIds \cap CpIds = {} /\ FdIds \cap SpIds = {}
      /\ FdIds \cup SpIds \cup CpIds = Ids
      /\ ConsoleIds \subseteq FdIds
  <2>1. Ids \subseteq 0..29
    BY ProcessAssumption
  <2>2. \A i \in 0..29 : /\ ~(i \in 0..9 /\ i \in 20..29) /\ ~(i \in 10..19 /\ i \in 20..29)
                         /\ ~(i \in 0..9 /\ i \in 10..19) /\ (i \in 0..2 => i \in 0..9)
                         /\ i \in 0..9 \/ i \in 10..19 \/ i \in 20..29
    OBVIOUS
  <2> QED BY <2>1, <2>2 DEF FdIds, SpIds, CpIds, ConsoleIds
<1> QED BY <1>1, <1>2, <1>3

LEMMA NewIsNew ==
  ASSUME NEW kind, ~(kind \subseteq live)
  PROVE  New(kind) \in kind /\ New(kind) \notin live
BY DEF New

(* There are descriptors for the console slots: the k-th slot gets the     *)
(* k-th descriptor.                                                        *)
LEMMA ConsoleExists ==
  /\ Console \in [ConsoleIds -> Descriptors]
  /\ \A i, j \in ConsoleIds : Console[i] = Console[j] => i = j
<1> DEFINE Upto(i) == {j \in ConsoleIds : j <= i}
           f == [i \in ConsoleIds |-> <<"descriptor", Cardinality(Upto(i))>>]
<1>1. ConsoleIds \subseteq Nat /\ ConsoleIds = Ids \cap 0..2
  BY ProcessAssumption DEF ConsoleIds
<1>2. IsFiniteSet(ConsoleIds) /\ Cardinality(ConsoleIds) \in Nat /\ Cardinality(ConsoleIds) <= MaxDescs
  <2>1. ConsoleIds \in SUBSET Nat /\ \A i \in ConsoleIds : i <= 2
    BY <1>1
  <2>2. IsFiniteSet(ConsoleIds)
    BY <2>1, FS_BoundedSetOfNaturals
  <2> QED BY <1>1, <2>2, FS_CardinalityType, ProcessAssumption
<1>3. \A i \in ConsoleIds : /\ IsFiniteSet(Upto(i)) /\ Cardinality(Upto(i)) \in Nat
                            /\ Cardinality(Upto(i)) <= Cardinality(ConsoleIds)
                            /\ Cardinality(Upto(i)) # 0
  <2> SUFFICES ASSUME NEW i \in ConsoleIds
               PROVE  /\ IsFiniteSet(Upto(i)) /\ Cardinality(Upto(i)) \in Nat
                      /\ Cardinality(Upto(i)) <= Cardinality(ConsoleIds)
                      /\ Cardinality(Upto(i)) # 0
    OBVIOUS
  <2>1. Upto(i) \subseteq ConsoleIds /\ i \in Upto(i)
    BY <1>1
  <2>2. IsFiniteSet(Upto(i)) /\ Cardinality(Upto(i)) <= Cardinality(ConsoleIds)
    BY <1>2, <2>1, FS_Subset
  <2> QED BY <2>1, <2>2, FS_CardinalityType, FS_EmptySet
<1>4. f \in [ConsoleIds -> Descriptors]
  <2>1. \A i \in ConsoleIds : Cardinality(Upto(i)) \in 1..MaxDescs
    BY <1>2, <1>3, ProcessAssumption
  <2> QED BY <2>1 DEF Descriptors
<1>5. \A i, j \in ConsoleIds : i < j => Cardinality(Upto(i)) # Cardinality(Upto(j))
  <2> SUFFICES ASSUME NEW i \in ConsoleIds, NEW j \in ConsoleIds, i < j
               PROVE  Cardinality(Upto(i)) # Cardinality(Upto(j))
    OBVIOUS
  <2>1. Upto(i) \subseteq Upto(j) /\ Upto(i) # Upto(j)
    <3>1. j \in Upto(j) /\ j \notin Upto(i)
      BY <1>1
    <3> QED BY <1>1, <3>1
  <2> QED BY <1>3, <2>1, FS_Subset
<1>6. \A i, j \in ConsoleIds : f[i] = f[j] => i = j
  <2> SUFFICES ASSUME NEW i \in ConsoleIds, NEW j \in ConsoleIds, f[i] = f[j] PROVE i = j
    OBVIOUS
  <2>1. Cardinality(Upto(i)) = Cardinality(Upto(j))
    OBVIOUS
  <2>2. i < j \/ j < i \/ i = j
    BY <1>1
  <2> QED BY <1>5, <2>1, <2>2
<1> QED BY <1>4, <1>6 DEF Console

-----------------------------------------------------------------------------
(* Parents and children.                                                   *)

LEMMA WaitInitially == Init => WInv
<1> SUFFICES ASSUME Init PROVE WInv
  OBVIOUS
<1>1. /\ pcb = [p \in Procs |-> [i \in Ids |->
                   IF p = First /\ i \in ConsoleIds THEN Console[i] ELSE None]]
      /\ count = [o \in Semaphores \cup Futures |-> 0] /\ isReady = {}
      /\ t = [f \in Futures |-> None]
      /\ pc = [p \in Procs |-> IF p = First THEN "run" ELSE "none"]
      /\ arg = [p \in Procs |-> None] /\ status = [p \in Procs |-> None] /\ panicked = FALSE
  BY DEF Init
<1>2. \A p \in Procs, i \in Ids :
        \/ pcb[p][i] = None
        \/ i \in FdIds /\ pcb[p][i] \in Descriptors
  BY <1>1, ConsoleExists, KindsApart
<1>3. \A p \in Procs : pcb[p] \in [Ids -> Objects \cup {None}]
  BY <1>1, <1>2 DEF Objects
<1>4. Typed
  <2>1. pcb \in [Procs -> [Ids -> Objects \cup {None}]]
    BY <1>1, <1>3
  <2>2. SlotsTyped
    BY <1>2, <2>1 DEF SlotsTyped, Fits
  <2> QED BY <1>1, <2>2 DEF Typed, Steps
<1>5. None \notin Futures
  BY NoObject DEF Objects
<1>6. OneParent
  BY <1>1, <1>2, <1>5, KindsApart DEF OneParent, Getting
<1>7. SetSoFar /\ OnePermit /\ GotIt
  BY <1>1, KindsApart DEF SetSoFar, OnePermit, Taken, GotIt
<1> QED BY <1>4, <1>6, <1>7 DEF WInv

Put(p, i, o) == pcb' = [pcb EXCEPT ![p][i] = o]

LEMMA SlotPut ==
  ASSUME SlotsTyped, NEW p \in Procs, NEW i \in Ids, NEW o, Fits(i, o), Put(p, i, o)
  PROVE  /\ SlotsTyped'
         /\ \A r \in Procs, j \in Ids : pcb'[r][j] = IF r = p /\ j = i THEN o ELSE pcb[r][j]
<1>1. \A r \in Procs, j \in Ids : pcb'[r][j] = IF r = p /\ j = i THEN o ELSE pcb[r][j]
  BY DEF SlotsTyped, Put
<1>2. o \in Objects \cup {None}
  BY DEF Fits, Objects
<1>3. pcb' \in [Procs -> [Ids -> Objects \cup {None}]]
  BY <1>2 DEF SlotsTyped, Put
<1> QED BY <1>1, <1>3 DEF SlotsTyped

(* A call that changes slots of its process, but refers to no future that  *)
(* was not there.                                                          *)
LEMMA SlotsKeep ==
  ASSUME WInv, NEW p \in Procs, pc[p] = "run", Typed',
         UNCHANGED <<future, pc, arg, status>>,
         \A r \in Procs, i \in Ids : \/ pcb'[r][i] = pcb[r][i]
                                     \/ r = p /\ pcb'[r][i] \notin Futures,
         \A q \in Procs : count'[Future(q)] = count[Future(q)]
  PROVE  WInv'
<1> USE DEF WInv, future
<1>1. \A r \in Procs, i \in Ids : pcb'[r][i] \in Futures => pcb'[r][i] = pcb[r][i]
  OBVIOUS
<1>2. OneParent'
  <2>1. \A r, q \in Procs, i \in Ids : pcb'[r][i] = Future(q) => pc'[q] # "none"
    BY <1>1, KindsApart DEF OneParent
  <2>2. \A u, r \in Procs, i, j \in Ids :
          pcb'[u][i] = pcb'[r][j] /\ pcb'[u][i] \in Futures => u = r
    BY <1>1 DEF OneParent
  <2>3. \A r \in Procs : Getting(r)' => arg'[r] \in Futures /\ \E i \in Ids : pcb'[r][i] = arg'[r]
    <3> SUFFICES ASSUME NEW r \in Procs, Getting(r)
                 PROVE  arg[r] \in Futures /\ \E i \in Ids : pcb'[r][i] = arg[r]
      BY DEF Getting
    <3>1. PICK i \in Ids : pcb[r][i] = arg[r] /\ arg[r] \in Futures
      BY DEF OneParent
    <3>2. r # p
      BY DEF Getting
    <3> QED BY <3>1, <3>2
  <2>4. \A r \in Procs : pc'[r] = "down" => arg'[r] \in Semaphores
    BY DEF OneParent
  <2> QED BY <2>1, <2>2, <2>3, <2>4 DEF OneParent
<1>3. SetSoFar' /\ GotIt'
  BY DEF SetSoFar, GotIt
<1>4. OnePermit'
  BY DEF OnePermit, Taken
<1> QED BY <1>2, <1>3, <1>4

LEMMA SlotCallsKeep ==
  ASSUME WInv, NEW p \in Procs,
         \/ \E initial \in 0..MaxCount : sem(p, initial)
         \/ open(p)
         \/ \E i \in Ids : close(p, i)
         \/ \E i \in SpIds : up(p, i)
         \/ \E i \in FdIds : UseFile(p, i)
  PROVE  WInv'
<1> USE DEF WInv, objects, future
<1>1. CASE \E initial \in 0..MaxCount : sem(p, initial)
  <2>1. PICK initial \in 0..MaxCount : sem(p, initial)
    BY <1>1
  <2> DEFINE o == New(Semaphores)
  <2>2. PICK i \in SpIds : Refer(p, i, o)
    BY <2>1 DEF sem
  <2>3. o \in Semaphores
    BY <2>1, NewIsNew DEF sem
  <2>4. i \in Ids /\ Fits(i, o) /\ Put(p, i, o)
    BY <2>2, <2>3 DEF SpIds, Fits, Refer, Put
  <2>5. /\ SlotsTyped'
        /\ \A r \in Procs, j \in Ids : pcb'[r][j] = IF r = p /\ j = i THEN o ELSE pcb[r][j]
    <3> HIDE DEF o
    <3> QED BY <2>4, SlotPut DEF Typed
  <2>6. initial \in Nat /\ count' = [count EXCEPT ![o] = initial]
        /\ pc[p] = "run" /\ UNCHANGED <<isReady, t, pc, arg, status, panicked>>
    BY <2>1, ProcessAssumption DEF sem
  <2>7. Typed'
    BY <2>5, <2>6 DEF Typed
  <2>8. \A q \in Procs : count'[Future(q)] = count[Future(q)]
    BY <2>3, <2>6, KindsApart DEF Typed
  <2>9. o \notin Futures
    BY <2>3, KindsApart
  <2> QED BY <2>5, <2>6, <2>7, <2>8, <2>9, SlotsKeep
<1>2. CASE open(p)
  <2> DEFINE o == New(Descriptors)
  <2>2. PICK i \in FdIds : Refer(p, i, o)
    BY <1>2 DEF open
  <2>3. o \in Descriptors
    BY <1>2, NewIsNew DEF open
  <2>4. i \in Ids /\ Fits(i, o) /\ Put(p, i, o)
    BY <2>2, <2>3 DEF FdIds, Fits, Refer, Put
  <2>5. /\ SlotsTyped'
        /\ \A r \in Procs, j \in Ids : pcb'[r][j] = IF r = p /\ j = i THEN o ELSE pcb[r][j]
    <3> HIDE DEF o
    <3> QED BY <2>4, SlotPut DEF Typed
  <2>6. pc[p] = "run" /\ UNCHANGED <<count, isReady, t, pc, arg, status, panicked>>
    BY <1>2 DEF open
  <2>7. Typed'
    BY <2>5, <2>6 DEF Typed
  <2>9. o \notin Futures
    BY <2>3, KindsApart
  <2> QED BY <2>5, <2>6, <2>7, <2>9, SlotsKeep
<1>3. CASE \E i \in Ids : close(p, i)
  <2>1. PICK i \in Ids : close(p, i)
    BY <1>3
  <2>2. /\ Put(p, i, None) /\ Fits(i, None) /\ pc[p] = "run"
        /\ UNCHANGED <<count, isReady, t, pc, arg, status, panicked>>
    BY <2>1 DEF close, Drop, Fits, Put
  <2>3. /\ SlotsTyped'
        /\ \A r \in Procs, j \in Ids : pcb'[r][j] = IF r = p /\ j = i THEN None ELSE pcb[r][j]
    BY <2>2, SlotPut DEF Typed
  <2>4. Typed'
    BY <2>2, <2>3 DEF Typed
  <2>5. None \notin Futures
    BY NoObject DEF Objects
  <2> QED BY <2>2, <2>3, <2>4, <2>5, SlotsKeep
<1>4. CASE \E i \in SpIds : up(p, i)
  <2>1. PICK i \in SpIds : up(p, i)
    BY <1>4
  <2>2. /\ pc[p] = "run" /\ pcb[p][i] # None /\ count' = [count EXCEPT ![pcb[p][i]] = @ + 1]
        /\ UNCHANGED <<pcb, isReady, t, pc, arg, status, panicked>>
    BY <2>1 DEF up
  <2>3. pcb[p][i] \in Semaphores
    BY <2>2, KindsApart DEF Typed, SlotsTyped, Fits
  <2>4. Typed'
    BY <2>2, <2>3 DEF Typed, SlotsTyped
  <2>5. \A q \in Procs : count'[Future(q)] = count[Future(q)]
    BY <2>2, <2>3, KindsApart DEF Typed
  <2> QED BY <2>2, <2>4, <2>5, SlotsKeep
<1>5. CASE \E i \in FdIds : UseFile(p, i)
  <2>1. /\ pc[p] = "run" /\ panicked' = TRUE
        /\ UNCHANGED <<pcb, count, isReady, t, pc, arg, status>>
    BY <1>5 DEF UseFile
  <2>2. Typed'
    BY <2>1 DEF Typed, SlotsTyped
  <2> QED BY <2>1, <2>2, SlotsKeep
<1> QED BY <1>1, <1>2, <1>3, <1>4, <1>5

(* Only one process is in get() of a future.                               *)
LEMMA OnlyWaiter ==
  ASSUME WInv, NEW p \in Procs, NEW r \in Procs, Getting(p), Getting(r), arg[p] = arg[r]
  PROVE  p = r
BY DEF WInv, OneParent

LEMMA SameParents ==
  ASSUME WInv, \A r \in Procs, i \in Ids : pcb'[r][i] = pcb[r][i],
         \A q \in Procs : pc[q] # "none" => pc'[q] # "none"
  PROVE  /\ \A r, q \in Procs, i \in Ids : pcb'[r][i] = Future(q) => pc'[q] # "none"
         /\ \A u, r \in Procs, i, j \in Ids :
              pcb'[u][i] = pcb'[r][j] /\ pcb'[u][i] \in Futures => u = r
<1>1. \A r, q \in Procs, i \in Ids : pcb[r][i] = Future(q) => pc[q] # "none"
  BY DEF WInv, OneParent
<1>2. \A u, r \in Procs, i, j \in Ids :
        pcb[u][i] = pcb[r][j] /\ pcb[u][i] \in Futures => u = r
  BY DEF WInv, OneParent
<1> QED BY <1>1, <1>2

LEMMA ParentsKept ==
  ASSUME WInv, NEW p \in Procs, NEW s \in Steps \ {"none"}, pc[p] # "none",
         GoTo(p, s), \A r \in Procs, i \in Ids : pcb'[r][i] = pcb[r][i],
         \A r \in Procs : r # p => arg'[r] = arg[r],
         s \in {"get", "get down", "get up", "get t", "waited"} =>
           arg'[p] \in Futures /\ \E i \in Ids : pcb[p][i] = arg'[p],
         s = "down" => arg'[p] \in Semaphores
  PROVE  OneParent'
<1>1. \A r \in Procs : pc'[r] = IF r = p THEN s ELSE pc[r]
  BY DEF WInv, Typed, GoTo
<1>2. \A q \in Procs : pc[q] # "none" => pc'[q] # "none"
  BY <1>1
<1>3. /\ \A r, q \in Procs, i \in Ids : pcb[r][i] = Future(q) => pc[q] # "none"
      /\ \A u, r \in Procs, i, j \in Ids :
           pcb[u][i] = pcb[r][j] /\ pcb[u][i] \in Futures => u = r
      /\ \A r \in Procs : Getting(r) => arg[r] \in Futures /\ \E i \in Ids : pcb[r][i] = arg[r]
      /\ \A r \in Procs : pc[r] = "down" => arg[r] \in Semaphores
  BY Zenon DEF WInv, OneParent
<1>4. /\ \A r, q \in Procs, i \in Ids : pcb'[r][i] = Future(q) => pc'[q] # "none"
      /\ \A u, r \in Procs, i, j \in Ids :
           pcb'[u][i] = pcb'[r][j] /\ pcb'[u][i] \in Futures => u = r
  BY <1>2, SameParents
<1>5. \A r \in Procs : Getting(r)' => arg'[r] \in Futures /\ \E i \in Ids : pcb'[r][i] = arg'[r]
  <2> SUFFICES ASSUME NEW r \in Procs, Getting(r)'
               PROVE  arg'[r] \in Futures /\ \E i \in Ids : pcb'[r][i] = arg'[r]
    OBVIOUS
  <2>1. CASE r = p
    <3>1. s \in {"get", "get down", "get up", "get t", "waited"}
      BY <1>1, <2>1 DEF Getting
    <3>2. arg'[p] \in Futures /\ \E i \in Ids : pcb[p][i] = arg'[p]
      BY <3>1
    <3>3. PICK i \in Ids : pcb[p][i] = arg'[p]
      BY <3>2
    <3>4. pcb'[p][i] = arg'[p]
      BY <3>3
    <3> QED BY <2>1, <3>2, <3>4
  <2>2. CASE r # p
    <3>1. Getting(r) /\ arg'[r] = arg[r]
      BY <1>1, <2>2 DEF Getting
    <3>2. PICK i \in Ids : pcb[r][i] = arg[r] /\ arg[r] \in Futures
      BY <1>3, <3>1
    <3>3. pcb'[r][i] = arg'[r]
      BY <3>1, <3>2
    <3> QED BY <3>1, <3>2, <3>3
  <2> QED BY <2>1, <2>2
<1>6. \A r \in Procs : pc'[r] = "down" => arg'[r] \in Semaphores
  BY <1>1, <1>3
<1> QED BY <1>4, <1>5, <1>6 DEF OneParent

(* A step that leaves go and the state of the future as they are.          *)
LEMMA QuietStepKeeps ==
  ASSUME WInv, NEW p \in Procs, NEW s \in Steps \ {"none"}, Typed', OneParent',
         GoTo(p, s),
         pc[p] \notin {"set t", "set ready", "set up", "stop", "get up"},
         s \notin {"set ready", "set up", "stop", "get up"},
         UNCHANGED <<isReady, t>>,
         \A q \in Procs : count'[Future(q)] = count[Future(q)],
         \A r \in Procs : r # p => arg'[r] = arg[r] /\ status'[r] = status[r],
         s = "get t" => arg'[p] \in isReady,
         s = "waited" => status'[p] \in Procs /\ arg'[p] = Future(status'[p])
  PROVE  WInv'
<1>1. \A r \in Procs : pc'[r] = IF r = p THEN s ELSE pc[r]
  BY DEF WInv, Typed, GoTo
<1> USE DEF WInv
<1>2. SetSoFar'
  BY <1>1 DEF SetSoFar
<1>3. \A r \in Procs : pc'[r] = "get up" <=> pc[r] = "get up"
  BY <1>1
<1>4. \A r \in Procs : pc[r] = "get up" => arg'[r] = arg[r]
  OBVIOUS
<1>5. \A q \in Procs : pc'[q] = "stop" <=> pc[q] = "stop"
  BY <1>1
<1>6. OnePermit'
  <2>1. \A q \in Procs : Taken(q)' <=> Taken(q)
    BY <1>3, <1>4 DEF Taken
  <2>2. /\ \A q \in Procs : pc[q] # "stop" => count[Future(q)] = 0
        /\ \A q \in Procs : Taken(q) => pc[q] = "stop" /\ count[Future(q)] = 0
        /\ \A q \in Procs : pc[q] = "stop" => Taken(q) \/ count[Future(q)] = 1
    BY DEF OnePermit
  <2>3. \A q \in Procs : count'[Future(q)] = count[Future(q)]
    OBVIOUS
  <2> QED BY <1>5, <2>1, <2>2, <2>3 DEF OnePermit
<1>7. GotIt'
  BY <1>1 DEF GotIt
<1> QED BY <1>2, <1>6, <1>7

LEMMA QuietStepsKeep ==
  ASSUME WInv, NEW p \in Procs,
         \/ Down(p) \/ GetReady(p) \/ GetT(p) \/ WaitReturns(p) \/ CallExit(p)
         \/ \E i \in SpIds : CallDown(p, i)
         \/ \E i \in CpIds : CallWait(p, i)
  PROVE  WInv'
<1> USE DEF objects, future
<1>1. \A s \in {"run", "down", "get", "get down", "get t", "waited", "set t"} : s \in Steps \ {"none"}
  BY DEF Steps
<1>2. Typed /\ SlotsTyped
  BY DEF WInv, Typed
<1>3. Getting(p) => arg[p] \in Futures /\ \E i \in Ids : pcb[p][i] = arg[p]
  BY DEF WInv, OneParent
<1>4. ASSUME Typed', NEW s \in {"run", "down", "get", "get down", "get t", "waited", "set t"}, GoTo(p, s),
             pc[p] \in {"run", "down", "get", "get t", "waited"},
             UNCHANGED <<pcb, isReady, t>>,
             \A q \in Procs : count'[Future(q)] = count[Future(q)],
             \A r \in Procs : r # p => arg'[r] = arg[r] /\ status'[r] = status[r],
             s \in {"get", "get down", "get t", "waited"} =>
               arg'[p] \in Futures /\ \E i \in Ids : pcb[p][i] = arg'[p],
             s = "down" => arg'[p] \in Semaphores,
             s = "get t" => arg'[p] \in isReady,
             s = "waited" => status'[p] \in Procs /\ arg'[p] = Future(status'[p])
      PROVE  WInv'
  <2>1. OneParent'
    BY <1>1, <1>4, ParentsKept
  <2> QED BY <1>1, <1>4, <2>1, QuietStepKeeps
<1>5. CASE Down(p)
  <2>1. /\ pc[p] = "down" /\ GoTo(p, "run") /\ count[arg[p]] > 0
        /\ count' = [count EXCEPT ![arg[p]] = @ - 1] /\ arg' = [arg EXCEPT ![p] = None]
        /\ UNCHANGED <<pcb, isReady, t, status, panicked>>
    BY <1>5 DEF Down
  <2>2. arg[p] \in Semaphores
    BY <2>1 DEF WInv, OneParent
  <2>3. Typed'
    <3>1. count' \in [Semaphores \cup Futures -> Nat]
      BY <1>2, <2>1, <2>2 DEF Typed
    <3> QED BY <1>1, <1>2, <2>1, <3>1 DEF Typed, SlotsTyped, GoTo
  <2>4. \A q \in Procs : count'[Future(q)] = count[Future(q)]
    BY <1>2, <2>1, <2>2, KindsApart DEF Typed
  <2>5. \A r \in Procs : r # p => arg'[r] = arg[r] /\ status'[r] = status[r]
    BY <1>2, <2>1 DEF Typed
  <2> QED BY <1>4, <2>1, <2>3, <2>4, <2>5
<1>6. CASE GetReady(p)
  <2>1. /\ pc[p] = "get" /\ GoTo(p, IF arg[p] \in isReady THEN "get t" ELSE "get down")
        /\ UNCHANGED <<pcb, count, isReady, t, arg, status, panicked>>
    BY <1>6 DEF GetReady
  <2>2. Typed'
    BY <1>1, <1>2, <2>1 DEF Typed, SlotsTyped, GoTo
  <2>3. Getting(p)
    BY <2>1 DEF Getting
  <2>4. CASE arg[p] \in isReady
    <3>1. GoTo(p, "get t")
      BY <2>1, <2>4
    <3> QED BY <1>3, <1>4, <2>1, <2>2, <2>3, <2>4, <3>1
  <2>5. CASE arg[p] \notin isReady
    <3>1. GoTo(p, "get down")
      BY <2>1, <2>5
    <3> QED BY <1>3, <1>4, <2>1, <2>2, <2>3, <3>1
  <2> QED BY <2>4, <2>5
<1>7. CASE GetT(p)
  <2>1. /\ pc[p] = "get t" /\ GoTo(p, "waited") /\ status' = [status EXCEPT ![p] = t[arg[p]]]
        /\ UNCHANGED <<pcb, count, isReady, t, arg, panicked>>
    BY <1>7 DEF GetT
  <2>2. Getting(p) /\ arg[p] \in isReady
    BY <2>1 DEF Getting, WInv, GotIt
  <2>3. PICK q \in Procs : arg[p] = Future(q)
    BY <1>3, <2>2, KindsApart
  <2>4. t[arg[p]] = q
    BY <2>2, <2>3 DEF WInv, SetSoFar
  <2>5. Typed' /\ status'[p] = q /\ \A r \in Procs : r # p => status'[r] = status[r]
    BY <1>1, <1>2, <2>1, <2>4 DEF Typed, SlotsTyped, GoTo
  <2> QED BY <1>3, <1>4, <2>1, <2>2, <2>3, <2>5
<1>8. CASE WaitReturns(p)
  <2>1. /\ pc[p] = "waited" /\ GoTo(p, "run")
        /\ arg' = [arg EXCEPT ![p] = None] /\ status' = [status EXCEPT ![p] = None]
        /\ UNCHANGED <<pcb, count, isReady, t, panicked>>
    BY <1>8 DEF WaitReturns
  <2>2. Typed' /\ \A r \in Procs : r # p => arg'[r] = arg[r] /\ status'[r] = status[r]
    BY <1>1, <1>2, <2>1 DEF Typed, SlotsTyped, GoTo
  <2> QED BY <1>4, <2>1, <2>2
<1>9. CASE CallExit(p)
  <2>1. /\ pc[p] = "run" /\ GoTo(p, "set t")
        /\ UNCHANGED <<pcb, count, isReady, t, arg, status, panicked>>
    BY <1>9 DEF CallExit
  <2>2. Typed'
    BY <1>1, <1>2, <2>1 DEF Typed, SlotsTyped, GoTo
  <2> QED BY <1>4, <2>1, <2>2
<1>10. CASE \E i \in SpIds : CallDown(p, i)
  <2>1. PICK i \in SpIds : CallDown(p, i)
    BY <1>10
  <2>2. /\ pc[p] = "run" /\ GoTo(p, "down") /\ pcb[p][i] # None
        /\ arg' = [arg EXCEPT ![p] = pcb[p][i]]
        /\ UNCHANGED <<pcb, count, isReady, t, status, panicked>>
    BY <2>1 DEF CallDown
  <2>3. pcb[p][i] \in Semaphores
    BY <1>2, <2>2, KindsApart DEF SlotsTyped, Fits
  <2>4. /\ Typed' /\ arg'[p] = pcb[p][i]
        /\ \A r \in Procs : r # p => arg'[r] = arg[r]
    BY <1>1, <1>2, <2>2, <2>3 DEF Typed, SlotsTyped, Objects, GoTo
  <2> QED BY <1>4, <2>2, <2>3, <2>4
<1>11. CASE \E i \in CpIds : CallWait(p, i)
  <2>1. PICK i \in CpIds : CallWait(p, i)
    BY <1>11
  <2>2. CASE pcb[p][i] = None
    <3>1. /\ pc[p] = "run" /\ panicked' = TRUE
          /\ UNCHANGED <<pcb, count, isReady, t, pc, arg, status>>
      BY <2>1, <2>2 DEF CallWait
    <3>2. Typed'
      BY <1>2, <3>1 DEF Typed, SlotsTyped, GoTo
    <3> QED BY <3>1, <3>2, SlotsKeep
  <2>3. CASE pcb[p][i] # None
    <3>1. /\ pc[p] = "run" /\ GoTo(p, "get") /\ arg' = [arg EXCEPT ![p] = pcb[p][i]]
          /\ UNCHANGED <<pcb, count, isReady, t, status, panicked>>
      BY <2>1, <2>3 DEF CallWait
    <3>2. pcb[p][i] \in Futures /\ i \in Ids
      BY <1>2, <2>3, KindsApart DEF SlotsTyped, Fits
    <3>3. /\ Typed' /\ arg'[p] = pcb[p][i]
          /\ \A r \in Procs : r # p => arg'[r] = arg[r]
      BY <1>1, <1>2, <3>1, <3>2 DEF Typed, SlotsTyped, Objects, GoTo
    <3> QED BY <1>4, <3>1, <3>2, <3>3
  <2> QED BY <2>2, <2>3
<1> QED BY <1>5, <1>6, <1>7, <1>8, <1>9, <1>10, <1>11

LEMMA Gone ==
  ASSUME Typed, NEW p \in Procs, NEW s \in Steps, GoTo(p, s)
  PROVE  pc' \in [Procs -> Steps] /\ \A r \in Procs : pc'[r] = IF r = p THEN s ELSE pc[r]
BY DEF Typed, GoTo

(* set() has written t, and then isReady, of its own future.               *)
LEMMA SetStepsKeep ==
  ASSUME WInv, NEW p \in Procs, SetT(p) \/ SetReady(p)
  PROVE  WInv'
<1> USE DEF objects
<1>1. Typed /\ SlotsTyped
  BY DEF WInv, Typed
<1>2. PICK s \in {"set ready", "set up"} :
        /\ GoTo(p, s) /\ UNCHANGED <<pcb, count, arg, status, panicked>>
        /\ s = "set ready" => /\ pc[p] = "set t" /\ t' = [t EXCEPT ![Future(p)] = p]
                               /\ isReady' = isReady
        /\ s = "set up" => /\ pc[p] = "set ready" /\ isReady' = isReady \cup {Future(p)}
                            /\ t' = t
  BY DEF SetT, SetReady
<1>3. s \in Steps \ {"none"} /\ pc[p] \in {"set t", "set ready"}
  BY <1>2 DEF Steps
<1>4. pc' \in [Procs -> Steps] /\ \A r \in Procs : pc'[r] = IF r = p THEN s ELSE pc[r]
  BY <1>1, <1>2, <1>3, Gone
<1>5. \A q \in Procs : t'[Future(q)] = IF q = p /\ s = "set ready" THEN p ELSE t[Future(q)]
  BY <1>1, <1>2, KindsApart DEF Typed
<1>6. Typed'
  <2>1. t' \in [Futures -> Procs \cup {None}] /\ isReady' \in SUBSET Futures
    <3>1. t \in [Futures -> Procs \cup {None}] /\ isReady \in SUBSET Futures /\ Future(p) \in Futures
      BY <1>1, KindsApart DEF Typed
    <3>2. CASE s = "set ready"
      BY <1>2, <3>1, <3>2
    <3>3. CASE s = "set up"
      BY <1>2, <3>1, <3>3
    <3> QED BY <1>2, <3>2, <3>3
  <2> QED BY <1>1, <1>2, <1>4, <2>1 DEF Typed, SlotsTyped
<1>7. OneParent'
  BY <1>2, <1>3, ParentsKept
<1>8. SetSoFar'
  <2>1. \A q \in Procs : Future(q) \in isReady <=> pc[q] \in {"set up", "stop"}
    BY DEF WInv, SetSoFar
  <2>2. \A q \in Procs : pc[q] \in {"set ready", "set up", "stop"} => t[Future(q)] = q
    BY DEF WInv, SetSoFar
  <2>3. \A q \in Procs : Future(q) \in isReady' <=> Future(q) \in isReady \/ (q = p /\ s = "set up")
    BY <1>2, KindsApart
  <2>4. \A q \in Procs : Future(q) \in isReady' <=> pc'[q] \in {"set up", "stop"}
    BY <1>3, <1>4, <2>1, <2>3, <1>2
  <2>5. \A q \in Procs : pc'[q] \in {"set ready", "set up", "stop"} => t'[Future(q)] = q
    BY <1>2, <1>4, <1>5, <2>2
  <2> QED BY <2>4, <2>5 DEF SetSoFar
<1>9. OnePermit'
  <2>1. \A r \in Procs : (pc'[r] = "get up" <=> pc[r] = "get up") /\ (pc'[r] = "stop" <=> pc[r] = "stop")
    BY <1>2, <1>3, <1>4
  <2>2. \A q \in Procs : Taken(q)' <=> Taken(q)
    BY <1>2, <2>1 DEF Taken
  <2>3. /\ \A q \in Procs : pc[q] # "stop" => count[Future(q)] = 0
        /\ \A q \in Procs : Taken(q) => pc[q] = "stop" /\ count[Future(q)] = 0
        /\ \A q \in Procs : pc[q] = "stop" => Taken(q) \/ count[Future(q)] = 1
    BY DEF WInv, OnePermit
  <2>4. \A q \in Procs : count'[Future(q)] = count[Future(q)]
    BY <1>2
  <2> QED BY <2>1, <2>2, <2>3, <2>4 DEF OnePermit
<1>10. GotIt'
  <2>1. \A r \in Procs : /\ pc'[r] = "get t" => pc[r] = "get t"
                         /\ pc'[r] = "waited" => pc[r] = "waited"
    BY <1>2, <1>4
  <2>2. /\ \A r \in Procs : pc[r] = "get t" => arg[r] \in isReady
        /\ \A r \in Procs : pc[r] = "waited" => status[r] \in Procs /\ arg[r] = Future(status[r])
    BY DEF WInv, GotIt
  <2>3. isReady \subseteq isReady' /\ arg' = arg /\ status' = status
    BY <1>2
  <2> QED BY <2>1, <2>2, <2>3 DEF GotIt
<1> QED BY <1>6, <1>7, <1>8, <1>9, <1>10 DEF WInv

(* The permit of go of the process c: set() gives it, get() takes it and   *)
(* gives it back.                                                          *)
LEMMA PermitStepKeeps ==
  ASSUME WInv, NEW p \in Procs, NEW c \in Procs, NEW s \in {"get up", "get t", "stop"},
         GoTo(p, s), UNCHANGED <<pcb, isReady, t, arg, status, panicked>>, Typed',
         NEW n, \A q \in Procs : count'[Future(q)] = IF q = c THEN n ELSE count[Future(q)],
         s = "get up" => pc[p] = "get down" /\ arg[p] = Future(c) /\ pc[c] = "stop" /\ ~Taken(c) /\ n = 0,
         s = "get t" => pc[p] = "get up" /\ arg[p] = Future(c) /\ pc[c] = "stop" /\ n = 1,
         s = "stop" => pc[p] = "set up" /\ p = c /\ ~Taken(c) /\ n = 1
  PROVE  WInv'
<1>1. Typed
  BY DEF WInv
<1>2. /\ UNCHANGED <<pcb, isReady, t, arg, status>>
      /\ s = "get up" => pc[p] = "get down" /\ n = 0
      /\ s = "get t" => pc[p] = "get up" /\ n = 1
      /\ s = "stop" => pc[p] = "set up" /\ n = 1
  OBVIOUS
<1>3. s \in Steps \ {"none"} /\ pc[p] \in {"get down", "get up", "set up"}
  BY <1>2 DEF Steps
<1>4. pc' \in [Procs -> Steps] /\ \A r \in Procs : pc'[r] = IF r = p THEN s ELSE pc[r]
  BY <1>1, <1>3, Gone
<1>5. /\ s = "get up" => arg[p] = Future(c) /\ pc[c] = "stop" /\ ~Taken(c)
      /\ s = "get t" => arg[p] = Future(c) /\ pc[c] = "stop"
      /\ s = "stop" => p = c /\ ~Taken(c)
  OBVIOUS
<1>7. \A q \in Procs : count'[Future(q)] = IF q = c THEN n ELSE count[Future(q)]
  OBVIOUS
<1>8. /\ \A q \in Procs : pc[q] # "stop" => count[Future(q)] = 0
      /\ \A q \in Procs : Taken(q) => pc[q] = "stop" /\ count[Future(q)] = 0
      /\ \A q \in Procs : pc[q] = "stop" => Taken(q) \/ count[Future(q)] = 1
  BY DEF WInv, OnePermit
<1>9. OneParent'
  <2>1. Getting(p) => arg[p] \in Futures /\ \E i \in Ids : pcb[p][i] = arg[p]
    BY DEF WInv, OneParent
  <2>2. s \in {"get up", "get t"} => Getting(p)
    BY <1>2 DEF Getting
  <2> QED BY <1>2, <1>3, <2>1, <2>2, ParentsKept
<1>10. SetSoFar'
  <2>1. \A q \in Procs : (pc'[q] \in {"set up", "stop"} <=> pc[q] \in {"set up", "stop"})
                         /\ (pc'[q] = "set ready" <=> pc[q] = "set ready")
    BY <1>2, <1>4
  <2>2. /\ \A q \in Procs : Future(q) \in isReady <=> pc[q] \in {"set up", "stop"}
        /\ \A q \in Procs : pc[q] \in {"set ready", "set up", "stop"} => t[Future(q)] = q
    BY DEF WInv, SetSoFar
  <2> QED BY <1>2, <2>1, <2>2 DEF SetSoFar
<1>11. OnePermit'
  <2>1. \A q \in Procs : q # c => (Taken(q)' <=> Taken(q))
    <3>1. \A q \in Procs : q # c => Future(q) # arg[p] \/ s = "stop"
      BY <1>5, KindsApart
    <3>2. \A r \in Procs : r # p => (pc'[r] = "get up" <=> pc[r] = "get up")
      BY <1>4
    <3>3. s = "stop" => pc'[p] # "get up" /\ pc[p] # "get up"
      BY <1>2, <1>4
    <3> QED BY <1>2, <3>1, <3>2, <3>3 DEF Taken
  <2>2. s = "get up" => Taken(c)'
    BY <1>2, <1>4, <1>5 DEF Taken
  <2>3. s = "get t" => ~Taken(c)'
    <3> SUFFICES ASSUME s = "get t", NEW r \in Procs, pc'[r] = "get up", arg[r] = Future(c)
                 PROVE  FALSE
      BY <1>2 DEF Taken
    <3>1. r # p /\ pc[r] = "get up"
      BY <1>4
    <3>2. Getting(r) /\ Getting(p) /\ arg[r] = arg[p]
      BY <1>2, <1>5, <3>1 DEF Getting
    <3> QED BY <3>1, <3>2, OnlyWaiter
  <2>4. s = "stop" => ~Taken(c)'
    <3>1. s = "stop" => \A r \in Procs : pc'[r] = "get up" => pc[r] = "get up"
      BY <1>4
    <3> QED BY <1>2, <1>5, <3>1 DEF Taken
  <2>5. \A q \in Procs : q # c => (pc'[q] = "stop" <=> pc[q] = "stop")
    BY <1>2, <1>4, <1>5
  <2>6. pc'[c] = "stop"
    BY <1>2, <1>4, <1>5
  <2>7. \A q \in Procs : pc'[q] # "stop" => count'[Future(q)] = 0
    BY <1>7, <1>8, <2>5, <2>6
  <2>8. \A q \in Procs : Taken(q)' => pc'[q] = "stop" /\ count'[Future(q)] = 0
    BY <1>2, <1>7, <1>8, <2>1, <2>3, <2>4, <2>5, <2>6
  <2>9. \A q \in Procs : pc'[q] = "stop" => Taken(q)' \/ count'[Future(q)] = 1
    BY <1>2, <1>7, <1>8, <2>1, <2>2, <2>5
  <2> QED BY <2>7, <2>8, <2>9 DEF OnePermit
<1>12. GotIt'
  <2>1. s = "get t" => arg[p] \in isReady
    <3>1. \A q \in Procs : pc[q] = "stop" => Future(q) \in isReady
      BY DEF WInv, SetSoFar
    <3> QED BY <1>2, <1>5, <3>1
  <2>2. \A r \in Procs : /\ pc'[r] = "get t" => pc[r] = "get t" \/ (r = p /\ s = "get t")
                         /\ pc'[r] = "waited" => pc[r] = "waited"
    BY <1>2, <1>4
  <2>3. /\ \A r \in Procs : pc[r] = "get t" => arg[r] \in isReady
        /\ \A r \in Procs : pc[r] = "waited" => status[r] \in Procs /\ arg[r] = Future(status[r])
    BY DEF WInv, GotIt
  <2>4. isReady' = isReady /\ arg' = arg /\ status' = status
    BY <1>2
  <2> QED BY <2>1, <2>2, <2>3, <2>4 DEF GotIt
<1> QED BY <1>9, <1>10, <1>11, <1>12 DEF WInv

LEMMA CountSet ==
  ASSUME Typed, NEW c \in Procs, NEW o, o = Future(c), NEW n \in Nat,
         count' = [count EXCEPT ![o] = n]
  PROVE  /\ count' \in [Semaphores \cup Futures -> Nat]
         /\ \A q \in Procs : count'[Future(q)] = IF q = c THEN n ELSE count[Future(q)]
BY KindsApart DEF Typed

LEMMA PermitStepsKeep ==
  ASSUME WInv, NEW p \in Procs, GetDown(p) \/ GetUp(p) \/ SetUp(p)
  PROVE  WInv'
<1> USE DEF objects, future
<1>1. Typed /\ SlotsTyped
  BY DEF WInv, Typed
<1>2. Getting(p) => arg[p] \in Futures
  BY DEF WInv, OneParent
<1>3. /\ \A q \in Procs : pc[q] # "stop" => count[Future(q)] = 0
      /\ \A q \in Procs : Taken(q) => pc[q] = "stop" /\ count[Future(q)] = 0
      /\ \A q \in Procs : pc[q] = "stop" => Taken(q) \/ count[Future(q)] = 1
  BY DEF WInv, OnePermit
<1>4. CASE GetDown(p)
  <2>1. /\ pc[p] = "get down" /\ count[arg[p]] > 0 /\ GoTo(p, "get up")
        /\ count' = [count EXCEPT ![arg[p]] = @ - 1]
        /\ UNCHANGED <<pcb, isReady, t, arg, status, panicked>>
    BY <1>4 DEF GetDown
  <2>2. PICK c \in Procs : arg[p] = Future(c)
    BY <1>2, <2>1, KindsApart DEF Getting
  <2>3. count[Future(c)] > 0
    BY <2>1, <2>2
  <2>4. count[Future(c)] = 1 /\ pc[c] = "stop" /\ ~Taken(c)
    BY <1>3, <2>3
  <2>5. arg[p] = Future(c) /\ count[arg[p]] - 1 = 0
    BY <2>2, <2>4
  <2>6. /\ count' \in [Semaphores \cup Futures -> Nat]
        /\ \A q \in Procs : count'[Future(q)] = IF q = c THEN 0 ELSE count[Future(q)]
    BY <1>1, <2>1, <2>5, CountSet
  <2>7. Typed'
    <3>1. pc' \in [Procs -> Steps]
      BY <1>1, <2>1, Gone DEF Steps
    <3>2. SlotsTyped'
      BY <1>1, <2>1 DEF SlotsTyped
    <3>3. UNCHANGED <<isReady, t, arg, status, panicked>>
      BY <2>1
    <3>4. count' \in [Semaphores \cup Futures -> Nat]
      BY <2>6
    <3>5. /\ t' \in [Futures -> Procs \cup {None}] /\ isReady' \in SUBSET Futures
          /\ arg' \in [Procs -> Objects \cup {None}] /\ status' \in [Procs -> Procs \cup {None}]
          /\ panicked' \in BOOLEAN
      BY <1>1, <3>3 DEF Typed
    <3> QED BY <3>1, <3>2, <3>4, <3>5 DEF Typed
  <2>8. /\ pc[p] = "get down" /\ GoTo(p, "get up") /\ UNCHANGED <<pcb, isReady, t, arg, status, panicked>>
        /\ \A q \in Procs : count'[Future(q)] = IF q = c THEN 0 ELSE count[Future(q)]
    BY <2>1, <2>6
  <2>9. pc[c] = "stop" /\ ~Taken(c) /\ arg[p] = Future(c)
    BY <2>2, <2>4
  <2> QED BY <2>7, <2>8, <2>9, PermitStepKeeps, ZenonT(60)
<1>5. CASE GetUp(p)
  <2>1. /\ pc[p] = "get up" /\ GoTo(p, "get t")
        /\ count' = [count EXCEPT ![arg[p]] = @ + 1]
        /\ UNCHANGED <<pcb, isReady, t, arg, status, panicked>>
    BY <1>5 DEF GetUp
  <2>2. PICK c \in Procs : arg[p] = Future(c)
    BY <1>2, <2>1, KindsApart DEF Getting
  <2>3. Taken(c)
    BY <2>1, <2>2 DEF Taken
  <2>4. count[Future(c)] = 0 /\ pc[c] = "stop"
    BY <1>3, <2>3
  <2>5. arg[p] = Future(c) /\ count[arg[p]] + 1 = 1
    BY <2>2, <2>4
  <2>6. /\ count' \in [Semaphores \cup Futures -> Nat]
        /\ \A q \in Procs : count'[Future(q)] = IF q = c THEN 1 ELSE count[Future(q)]
    <3>1. count' = [count EXCEPT ![arg[p]] = count[arg[p]] + 1]
      BY <2>1, Zenon
    <3>3. count[arg[p]] + 1 \in Nat
      BY <2>5
    <3>2. /\ count' \in [Semaphores \cup Futures -> Nat]
          /\ \A q \in Procs : count'[Future(q)] = IF q = c THEN count[arg[p]] + 1 ELSE count[Future(q)]
      BY <1>1, <2>5, <3>1, <3>3, CountSet
    <3> QED BY <2>5, <3>2
  <2>7. Typed'
    <3>1. pc' \in [Procs -> Steps]
      BY <1>1, <2>1, Gone DEF Steps
    <3>2. SlotsTyped'
      BY <1>1, <2>1 DEF SlotsTyped
    <3>3. UNCHANGED <<isReady, t, arg, status, panicked>>
      BY <2>1
    <3>4. count' \in [Semaphores \cup Futures -> Nat]
      BY <2>6
    <3>5. /\ t' \in [Futures -> Procs \cup {None}] /\ isReady' \in SUBSET Futures
          /\ arg' \in [Procs -> Objects \cup {None}] /\ status' \in [Procs -> Procs \cup {None}]
          /\ panicked' \in BOOLEAN
      BY <1>1, <3>3 DEF Typed
    <3> QED BY <3>1, <3>2, <3>4, <3>5 DEF Typed
  <2> QED BY <2>1, <2>2, <2>4, <2>6, <2>7, PermitStepKeeps
<1>6. CASE SetUp(p)
  <2>1. /\ pc[p] = "set up" /\ GoTo(p, "stop")
        /\ count' = [count EXCEPT ![Future(p)] = @ + 1]
        /\ UNCHANGED <<pcb, isReady, t, arg, status, panicked>>
    BY <1>6 DEF SetUp
  <2>4. count[Future(p)] = 0 /\ ~Taken(p)
    BY <1>3, <2>1
  <2>5. Future(p) = Future(p) /\ count[Future(p)] + 1 = 1
    BY <2>4
  <2>6. /\ count' \in [Semaphores \cup Futures -> Nat]
        /\ \A q \in Procs : count'[Future(q)] = IF q = p THEN 1 ELSE count[Future(q)]
    BY <1>1, <2>1, <2>5, CountSet
  <2>7. Typed'
    <3>1. pc' \in [Procs -> Steps]
      BY <1>1, <2>1, Gone DEF Steps
    <3>2. SlotsTyped'
      BY <1>1, <2>1 DEF SlotsTyped
    <3>3. UNCHANGED <<isReady, t, arg, status, panicked>>
      BY <2>1
    <3>4. count' \in [Semaphores \cup Futures -> Nat]
      BY <2>6
    <3>5. /\ t' \in [Futures -> Procs \cup {None}] /\ isReady' \in SUBSET Futures
          /\ arg' \in [Procs -> Objects \cup {None}] /\ status' \in [Procs -> Procs \cup {None}]
          /\ panicked' \in BOOLEAN
      BY <1>1, <3>3 DEF Typed
    <3> QED BY <3>1, <3>2, <3>4, <3>5 DEF Typed
  <2> QED BY <2>1, <2>4, <2>6, <2>7, PermitStepKeeps
<1> QED BY <1>4, <1>5, <1>6

LEMMA ForkedSlots ==
  ASSUME SlotsTyped, NEW p \in Procs, NEW q \in Procs, p # q, NEW i \in CpIds,
         pcb' = [pcb EXCEPT ![p][i] = Future(q),
                            ![q] = [j \in Ids |-> IF j \in CpIds THEN None ELSE pcb[p][j]]]
  PROVE  /\ SlotsTyped'
         /\ pcb'[p][i] = Future(q)
         /\ \A j \in Ids : j # i => pcb'[p][j] = pcb[p][j]
         /\ \A j \in Ids : pcb'[q][j] = IF j \in CpIds THEN None ELSE pcb[p][j]
         /\ \A j \in Ids : pcb'[q][j] \notin Futures
         /\ \A r \in Procs \ {p, q}, j \in Ids : pcb'[r][j] = pcb[r][j]
<1> DEFINE child == [j \in Ids |-> IF j \in CpIds THEN None ELSE pcb[p][j]]
<1>1. i \in Ids /\ Future(q) \in Futures /\ Future(q) \in Objects /\ None \notin Futures
  BY KindsApart, NoObject DEF Objects
<1>2. pcb' = [pcb EXCEPT ![p][i] = Future(q), ![q] = child]
  OBVIOUS
<1>3. /\ child \in [Ids -> Objects \cup {None}]
      /\ \A j \in Ids : child[j] = IF j \in CpIds THEN None ELSE pcb[p][j]
  BY DEF SlotsTyped
<1>4. \A j \in Ids : Fits(j, child[j]) /\ child[j] \notin Futures
  <2>1. \A j \in Ids : j \notin CpIds => Fits(j, pcb[p][j]) /\ pcb[p][j] \notin Futures
    BY <1>1, KindsApart DEF SlotsTyped, Fits
  <2>2. \A j \in Ids : Fits(j, None)
    BY DEF Fits
  <2> QED BY <1>1, <1>3, <2>1, <2>2
<1> HIDE DEF child
<1>5. /\ pcb'[p][i] = Future(q)
      /\ \A j \in Ids : j # i => pcb'[p][j] = pcb[p][j]
      /\ pcb'[q] = child
      /\ \A r \in Procs \ {p, q} : pcb'[r] = pcb[r]
  BY <1>1, <1>2 DEF SlotsTyped
<1>6. pcb' \in [Procs -> [Ids -> Objects \cup {None}]]
  <2> DEFINE parent == [pcb EXCEPT ![p][i] = Future(q)]
  <2>1. parent \in [Procs -> [Ids -> Objects \cup {None}]]
    BY <1>1 DEF SlotsTyped
  <2>2. pcb' = [parent EXCEPT ![q] = child]
    BY <1>2
  <2> HIDE DEF parent
  <2> QED BY <1>3, <2>1, <2>2
<1>7. \A r \in Procs, j \in Ids : Fits(j, pcb'[r][j])
  <2> SUFFICES ASSUME NEW r \in Procs, NEW j \in Ids PROVE Fits(j, pcb'[r][j])
    OBVIOUS
  <2>1. Fits(i, Future(q))
    BY <1>1 DEF Fits
  <2>2. Fits(j, pcb[r][j])
    BY DEF SlotsTyped
  <2>3. CASE r = q
    BY <1>4, <1>5, <2>3
  <2>4. CASE r = p
    BY <1>5, <2>1, <2>2, <2>4
  <2>5. CASE r \in Procs \ {p, q}
    BY <1>5, <2>2, <2>5
  <2> QED BY <2>3, <2>4, <2>5
<1> QED BY <1>3, <1>4, <1>5, <1>6, <1>7 DEF SlotsTyped

(* A child is new, and its future is in the one slot that its parent has   *)
(* for it.                                                                 *)
LEMMA ForkKeeps ==
  ASSUME WInv, NEW p \in Procs, NEW q \in Procs, fork(p, q)
  PROVE  WInv'
<1> USE DEF future
<1>1. Typed /\ SlotsTyped
  BY DEF WInv, Typed
<1>2. /\ pc[p] = "run" /\ pc[q] = "none" /\ GoTo(q, "run")
      /\ UNCHANGED <<count, isReady, t, arg, status, panicked>>
  BY DEF fork
<1>3. p # q
  BY <1>2
<1>4. PICK i \in CpIds :
        pcb' = [pcb EXCEPT ![p][i] = Future(q),
                           ![q] = [j \in Ids |-> IF j \in CpIds THEN None ELSE pcb[p][j]]]
  BY DEF fork
<1>5. /\ SlotsTyped'
      /\ pcb'[p][i] = Future(q)
      /\ \A j \in Ids : j # i => pcb'[p][j] = pcb[p][j]
      /\ \A j \in Ids : pcb'[q][j] = IF j \in CpIds THEN None ELSE pcb[p][j]
      /\ \A j \in Ids : pcb'[q][j] \notin Futures
      /\ \A r \in Procs \ {p, q}, j \in Ids : pcb'[r][j] = pcb[r][j]
  BY <1>1, <1>3, <1>4, ForkedSlots
<1>6. pc' \in [Procs -> Steps] /\ \A r \in Procs : pc'[r] = IF r = q THEN "run" ELSE pc[r]
  BY <1>1, <1>2, Gone DEF Steps
<1>7. Typed'
  <2>1. UNCHANGED <<count, isReady, t, arg, status, panicked>>
    BY <1>2
  <2> QED BY <1>1, <1>5, <1>6, <2>1 DEF Typed
<1>8. /\ \A r, u \in Procs, j \in Ids : pcb[r][j] = Future(u) => pc[u] # "none"
      /\ \A u, r \in Procs, j, k \in Ids :
           pcb[u][j] = pcb[r][k] /\ pcb[u][j] \in Futures => u = r
      /\ \A r \in Procs : Getting(r) => arg[r] \in Futures /\ \E j \in Ids : pcb[r][j] = arg[r]
      /\ \A r \in Procs : pc[r] = "down" => arg[r] \in Semaphores
  BY Zenon DEF WInv, OneParent
<1>9. \A r \in Procs, j \in Ids : pcb[r][j] # Future(q)
  BY <1>2, <1>8
<1>10. \A r \in Procs, j \in Ids :
         \/ r = p /\ j = i /\ pcb'[r][j] = Future(q)
         \/ pcb'[r][j] = pcb[r][j]
         \/ pcb'[r][j] \notin Futures
  BY <1>5
<1>11. \A r, u \in Procs, j \in Ids : pcb'[r][j] = Future(u) => pc'[u] # "none"
  <2> SUFFICES ASSUME NEW r \in Procs, NEW u \in Procs, NEW j \in Ids, pcb'[r][j] = Future(u), u # q
               PROVE  pc[u] # "none"
    BY <1>6
  <2>1. pcb[r][j] = Future(u)
    BY <1>10, KindsApart
  <2> QED BY <1>8, <2>1
<1>12. \A u, r \in Procs, j, k \in Ids :
         pcb'[u][j] = pcb'[r][k] /\ pcb'[u][j] \in Futures => u = r
  <2> SUFFICES ASSUME NEW u \in Procs, NEW r \in Procs, NEW j \in Ids, NEW k \in Ids,
                      pcb'[u][j] = pcb'[r][k], pcb'[u][j] \in Futures
               PROVE  u = r
    OBVIOUS
  <2>1. CASE pcb'[u][j] = Future(q)
    <3>1. u = p /\ r = p
      BY <1>9, <1>10, <2>1
    <3> QED BY <3>1
  <2>2. CASE pcb'[u][j] # Future(q)
    <3>1. pcb'[u][j] = pcb[u][j] /\ pcb'[r][k] = pcb[r][k]
      BY <1>10, <2>2
    <3>2. pcb[u][j] = pcb[r][k] /\ pcb[u][j] \in Futures
      BY <3>1
    <3>3. \A w, v \in Procs, m, n \in Ids : pcb[w][m] = pcb[v][n] /\ pcb[w][m] \in Futures => w = v
      BY <1>8, Zenon
    <3> QED BY <3>2, <3>3
  <2> QED BY <2>1, <2>2
<1>13. \A r \in Procs : Getting(r)' => arg'[r] \in Futures /\ \E j \in Ids : pcb'[r][j] = arg'[r]
  <2> SUFFICES ASSUME NEW r \in Procs, Getting(r)'
               PROVE  arg'[r] \in Futures /\ \E j \in Ids : pcb'[r][j] = arg'[r]
    OBVIOUS
  <2>1. r \in Procs \ {p, q} /\ Getting(r)
    BY <1>2, <1>3, <1>6 DEF Getting
  <2>2. PICK j \in Ids : pcb[r][j] = arg[r] /\ arg[r] \in Futures
    BY <1>8, <2>1
  <2>3. arg'[r] = arg[r]
    BY <1>2
  <2>4. pcb'[r][j] = arg'[r]
    BY <1>5, <2>1, <2>2, <2>3
  <2> QED BY <2>2, <2>3, <2>4
<1>14. \A r \in Procs : pc'[r] = "down" => arg'[r] \in Semaphores
  BY <1>2, <1>6, <1>8
<1>15. OneParent'
  BY <1>11, <1>12, <1>13, <1>14 DEF OneParent
<1>16. \A r \in Procs, s \in Steps : s \notin {"none", "run"} => (pc'[r] = s <=> pc[r] = s)
  BY <1>2, <1>6
<1>17. /\ "set ready" \in Steps /\ "set up" \in Steps /\ "stop" \in Steps
       /\ "get up" \in Steps /\ "get t" \in Steps /\ "waited" \in Steps
  BY DEF Steps
<1>18. UNCHANGED <<count, isReady, t, arg, status>>
  BY <1>2
<1>19. SetSoFar' /\ GotIt'
  <2>1. SetSoFar /\ GotIt
    BY DEF WInv
  <2> QED BY <1>16, <1>17, <1>18, <2>1 DEF SetSoFar, GotIt
<1>20. OnePermit'
  <2>1. OnePermit
    BY DEF WInv
  <2>2. \A u \in Procs : Taken(u)' <=> Taken(u)
    BY <1>16, <1>17, <1>18 DEF Taken
  <2> QED BY <1>16, <1>17, <1>18, <2>1, <2>2 DEF OnePermit
<1> QED BY <1>7, <1>15, <1>19, <1>20 DEF WInv

LEMMA WaitKept == WInv /\ [Next]_vars => WInv'
<1> SUFFICES ASSUME WInv, [Next]_vars PROVE WInv'
  OBVIOUS
<1>1. CASE Next
  <2>1. PICK p \in Procs : Continue(p) \/ Call(p)
    BY <1>1 DEF Next
  <2>2. CASE Continue(p)
    BY <2>2, QuietStepsKeep, SetStepsKeep, PermitStepsKeep DEF Continue
  <2>3. CASE Call(p)
    <3>1. CASE CallExit(p) \/ (\E i \in SpIds : CallDown(p, i)) \/ \E i \in CpIds : CallWait(p, i)
      BY <3>1, QuietStepsKeep
    <3>2. CASE \E q \in Procs : fork(p, q)
      BY <3>2, ForkKeeps
    <3>3. CASE \/ \E initial \in 0..MaxCount : sem(p, initial)
               \/ open(p)
               \/ \E i \in Ids : close(p, i)
               \/ \E i \in SpIds : up(p, i)
               \/ \E i \in FdIds : UseFile(p, i)
      BY <3>3, SlotCallsKeep
    <3> QED BY <2>3, <3>1, <3>2, <3>3, Zenon DEF Call
  <2> QED BY <2>1, <2>2, <2>3
<1>2. CASE UNCHANGED vars
  <2>1. UNCHANGED <<pcb, count, isReady, t, pc, arg, status, panicked>>
    BY <1>2 DEF vars, future
  <2>2. Typed'
    BY <2>1 DEF WInv, Typed, SlotsTyped
  <2>3. OneParent'
    <3>1. /\ \A r \in Procs, i \in Ids : pcb'[r][i] = pcb[r][i]
          /\ \A q \in Procs : pc[q] # "none" => pc'[q] # "none"
      BY <2>1
    <3>2. /\ \A r, q \in Procs, i \in Ids : pcb'[r][i] = Future(q) => pc'[q] # "none"
          /\ \A u, r \in Procs, i, j \in Ids :
               pcb'[u][i] = pcb'[r][j] /\ pcb'[u][i] \in Futures => u = r
      BY <3>1, SameParents
    <3>3. /\ \A r \in Procs : Getting(r)' =>
               arg'[r] \in Futures /\ \E i \in Ids : pcb'[r][i] = arg'[r]
          /\ \A r \in Procs : pc'[r] = "down" => arg'[r] \in Semaphores
      BY <2>1 DEF WInv, OneParent, Getting
    <3> QED BY <3>2, <3>3 DEF OneParent
  <2>4. SetSoFar' /\ OnePermit' /\ GotIt'
    BY <2>1 DEF WInv, SetSoFar, OnePermit, Taken, GotIt
  <2> QED BY <2>2, <2>3, <2>4 DEF WInv
<1> QED BY <1>1, <1>2

LEMMA PermitIsThere ==
  ASSUME WInv, NEW q \in Procs, pc[q] = "stop", ~Taken(q)
  PROVE  count[Future(q)] = 1
BY DEF WInv, OnePermit

(* wait() returns the exit code of the child that it was called for,       *)
(* whenever the child exits.                                               *)
THEOREM WaitGetsTheCode == Spec => []WaitReturnsTheChildsCode
<1>1. WInv => WaitReturnsTheChildsCode
  BY DEF WInv, GotIt, WaitReturnsTheChildsCode
<1> QED BY <1>1, WaitInitially, WaitKept, PTL DEF Spec

(* A parent whose child has exited finds the permit of set(): if it had    *)
(* been taken, it was by a process in get() of the same future, and the    *)
(* parent is the only one.                                                 *)
THEOREM NoParentIsLeftWaiting == Spec => []NobodyWaitsInVain
<1>1. ASSUME WInv, NEW p \in Procs, NEW q \in Procs,
             pc[p] = "get down", arg[p] = Future(q), pc[q] = "stop"
      PROVE  ~Taken(q)
  <2> SUFFICES ASSUME NEW r \in Procs, pc[r] = "get up", arg[r] = Future(q) PROVE FALSE
    BY DEF Taken
  <2>1. Getting(p) /\ Getting(r) /\ arg[p] = arg[r]
    BY <1>1 DEF Getting
  <2>2. p = r
    BY <1>1, <2>1, OnlyWaiter
  <2> QED BY <1>1, <2>2
<1>2. ASSUME WInv, NEW q \in Procs, pc[q] = "stop", ~Taken(q)
      PROVE  count[Future(q)] > 0
  BY <1>2, PermitIsThere
<1>3. WInv => NobodyWaitsInVain
  BY <1>1, <1>2, Zenon DEF NobodyWaitsInVain
<1> QED BY <1>3, WaitInitially, WaitKept, PTL DEF Spec

-----------------------------------------------------------------------------
(* References.                                                             *)

Fields == Ids \cup {FutureField}

Shared ==
  /\ refs \in [Objects -> Nat]
  /\ reserved \in SUBSET Descriptors /\ opened \in SUBSET Descriptors
  /\ \A o \in Objects : refs[o] = Cardinality(References(o))
  /\ live = {o \in Objects : References(o) # {}}

(* What a process that is not in a system call does not have, and that the *)
(* object of a system call is in a slot.                                   *)
Idle ==
  /\ \A p \in Procs, i \in Ids : pc[p] = "none" => pcb[p][i] = None
  /\ \A p \in Procs : pc[p] \in {"none", "run"} => arg[p] = None
  /\ \A p \in Procs : arg[p] # None => \E i \in Ids : pcb[p][i] = arg[p]

LEMMA FieldsApart == FutureField \notin Ids /\ IsFiniteSet(Procs \X Fields)
<1>1. Ids \subseteq 0..29 /\ FutureField = 30
  BY ProcessAssumption DEF FutureField
<1>2. FutureField \notin Ids
  BY <1>1
<1>3. IsFiniteSet(Fields)
  <2>1. Fields \in SUBSET Nat /\ \A i \in Fields : i <= 30
    BY <1>1 DEF Fields
  <2> QED BY <2>1, FS_BoundedSetOfNaturals
<1> QED BY <1>2, <1>3, FS_Product, ProcessAssumption

LEMMA InReferences ==
  ASSUME NEW o
  PROVE  /\ \A r \in Procs, i \in Fields : <<r, i>> \in References(o) <=> Refers(r, i) = o
         /\ References(o) \subseteq Procs \X Fields
         /\ IsFiniteSet(References(o)) /\ Cardinality(References(o)) \in Nat
         /\ Cardinality(References(o)) = 0 <=> References(o) = {}
<1>1. /\ \A r \in Procs, i \in Fields : <<r, i>> \in References(o) <=> Refers(r, i) = o
      /\ References(o) \subseteq Procs \X Fields
  BY DEF References, Fields
<1>2. IsFiniteSet(References(o))
  BY <1>1, FieldsApart, FS_Subset
<1> QED BY <1>1, <1>2, FS_CardinalityType, FS_EmptySet

(* What changes when fields change.                                        *)
LEMMA SameReferences ==
  ASSUME NEW o,
         \A r \in Procs, i \in Fields : Refers(r, i)' = o <=> Refers(r, i) = o
  PROVE  References(o)' = References(o)
<1>1. References(o)' = {r \in Procs \X Fields : Refers(r[1], r[2])' = o}
  BY DEF References, Fields
<1>2. References(o) = {r \in Procs \X Fields : Refers(r[1], r[2]) = o}
  BY DEF References, Fields
<1>3. \A r \in Procs \X Fields : Refers(r[1], r[2])' = o <=> Refers(r[1], r[2]) = o
  OBVIOUS
<1> QED BY <1>1, <1>2, <1>3

LEMMA OneMore ==
  ASSUME NEW o, NEW p \in Procs, NEW i \in Fields, Refers(p, i) # o, Refers(p, i)' = o,
         \A r \in Procs, j \in Fields : r # p \/ j # i => Refers(r, j)' = Refers(r, j)
  PROVE  /\ References(o)' = References(o) \cup {<<p, i>>}
         /\ Cardinality(References(o)') = Cardinality(References(o)) + 1
<1>1. References(o)' = {r \in Procs \X Fields : Refers(r[1], r[2])' = o}
  BY DEF References, Fields
<1>2. References(o) = {r \in Procs \X Fields : Refers(r[1], r[2]) = o}
  BY DEF References, Fields
<1>3. \A r \in Procs \X Fields :
        Refers(r[1], r[2])' = o <=> Refers(r[1], r[2]) = o \/ r = <<p, i>>
  <2> SUFFICES ASSUME NEW u \in Procs, NEW j \in Fields
               PROVE  Refers(u, j)' = o <=> Refers(u, j) = o \/ (u = p /\ j = i)
    OBVIOUS
  <2>1. CASE u = p /\ j = i
    BY <2>1
  <2>2. CASE u # p \/ j # i
    BY <2>2
  <2> QED BY <2>1, <2>2
<1>4. References(o)' = References(o) \cup {<<p, i>>} /\ <<p, i>> \notin References(o)
  BY <1>1, <1>2, <1>3
<1> QED BY <1>4, InReferences, FS_AddElement

LEMMA OneLess ==
  ASSUME NEW o, NEW p \in Procs, NEW i \in Fields, Refers(p, i) = o, Refers(p, i)' # o,
         \A r \in Procs, j \in Fields : r # p \/ j # i => Refers(r, j)' = Refers(r, j)
  PROVE  Cardinality(References(o)') = Cardinality(References(o)) - 1
<1>1. References(o)' = {r \in Procs \X Fields : Refers(r[1], r[2])' = o}
  BY DEF References, Fields
<1>2. References(o) = {r \in Procs \X Fields : Refers(r[1], r[2]) = o}
  BY DEF References, Fields
<1>3. \A r \in Procs \X Fields :
        Refers(r[1], r[2])' = o <=> Refers(r[1], r[2]) = o /\ r # <<p, i>>
  <2> SUFFICES ASSUME NEW u \in Procs, NEW j \in Fields
               PROVE  Refers(u, j)' = o <=> Refers(u, j) = o /\ ~(u = p /\ j = i)
    OBVIOUS
  <2>1. CASE u = p /\ j = i
    BY <2>1
  <2>2. CASE u # p \/ j # i
    BY <2>2
  <2> QED BY <2>1, <2>2
<1>4. References(o)' = References(o) \ {<<p, i>>} /\ <<p, i>> \in References(o)
  BY <1>1, <1>2, <1>3
<1> QED BY <1>4, InReferences, FS_RemoveElement

LEMMA NoneIsNoObject == \A o \in Objects : o # None
BY NoObject

(* The steps of a call that has begun refer to nothing new.                *)
LEMMA QuietStepsShare ==
  ASSUME Typed, Idle, Shared, NEW p \in Procs, NEW s \in Steps \ {"none"}, pc[p] # "none",
         GoTo(p, s), \A r \in Procs, i \in Ids : pcb'[r][i] = pcb[r][i],
         UNCHANGED <<live, refs, reserved, opened>>,
         \A r \in Procs : r # p => arg'[r] = arg[r],
         s = "run" => arg'[p] = None,
         arg'[p] # None => \E i \in Ids : pcb[p][i] = arg'[p]
  PROVE  Idle' /\ Shared'
<1>1. \A r \in Procs : pc'[r] = IF r = p THEN s ELSE pc[r]
  BY Gone
<1>2. \A r \in Procs : pc'[r] = "none" <=> pc[r] = "none"
  BY <1>1
<1>3. /\ \A r \in Procs, i \in Ids : pcb'[r][i] = pcb[r][i]
      /\ UNCHANGED <<live, refs, reserved, opened>>
  OBVIOUS
<1>4. \A r \in Procs, i \in Fields : Refers(r, i)' = Refers(r, i)
  BY <1>2, <1>3 DEF Refers, Fields
<1>5. \A o : References(o)' = References(o)
  BY <1>4, SameReferences
<1>6. Shared'
  BY <1>3, <1>5 DEF Shared
<1>7. Idle'
  <2>1. \A r \in Procs, i \in Ids : pc'[r] = "none" => pcb'[r][i] = None
    BY <1>2, <1>3 DEF Idle
  <2>2. \A r \in Procs : pc'[r] \in {"none", "run"} => arg'[r] = None
    BY <1>1 DEF Idle
  <2>3. \A r \in Procs : arg'[r] # None => \E i \in Ids : pcb'[r][i] = arg'[r]
    <3> SUFFICES ASSUME NEW r \in Procs, arg'[r] # None PROVE \E i \in Ids : pcb'[r][i] = arg'[r]
      OBVIOUS
    <3>1. PICK i \in Ids : pcb[r][i] = arg'[r]
      BY DEF Idle
    <3> QED BY <1>3, <3>1
  <2> QED BY <2>1, <2>2, <2>3 DEF Idle
<1> QED BY <1>6, <1>7

LEMMA CallsInProgressShare ==
  ASSUME WInv, Idle, Shared, NEW p \in Procs,
         Continue(p) \/ CallExit(p) \/ (\E i \in SpIds : CallDown(p, i)) \/ \E i \in CpIds : CallWait(p, i)
  PROVE  Idle' /\ Shared'
<1> USE DEF objects
<1>1. Typed
  BY DEF WInv
<1>2. arg[p] # None => \E i \in Ids : pcb[p][i] = arg[p]
  BY DEF Idle
<1>3. ASSUME NEW s \in {"get t", "get down", "get up", "waited", "set t", "set ready", "set up", "stop"},
             pc[p] # "none", GoTo(p, s), UNCHANGED <<pcb, live, refs, reserved, opened, arg>>
      PROVE  Idle' /\ Shared'
  <2>1. s \in Steps \ {"none"} /\ s # "run"
    BY DEF Steps
  <2>2. /\ \A r \in Procs, i \in Ids : pcb'[r][i] = pcb[r][i]
        /\ UNCHANGED <<live, refs, reserved, opened>>
        /\ \A r \in Procs : arg'[r] = arg[r]
    BY <1>3
  <2> QED BY <1>1, <1>2, <1>3, <2>1, <2>2, QuietStepsShare
<1>4. CASE GetReady(p)
  BY <1>3, <1>4 DEF GetReady
<1>5. CASE GetDown(p) \/ GetUp(p) \/ GetT(p)
  BY <1>3, <1>5 DEF GetDown, GetUp, GetT
<1>6. CASE SetT(p) \/ SetReady(p) \/ SetUp(p) \/ CallExit(p)
  BY <1>3, <1>6 DEF SetT, SetReady, SetUp, CallExit
<1>7. CASE Down(p) \/ WaitReturns(p)
  <2>1. /\ pc[p] # "none" /\ GoTo(p, "run") /\ arg' = [arg EXCEPT ![p] = None]
        /\ UNCHANGED <<pcb, live, refs, reserved, opened>>
    BY <1>7 DEF Down, WaitReturns
  <2>2. "run" \in Steps \ {"none"} /\ arg'[p] = None /\ \A r \in Procs : r # p => arg'[r] = arg[r]
    BY <1>1, <2>1 DEF Typed, Steps
  <2>3. \A r \in Procs, i \in Ids : pcb'[r][i] = pcb[r][i]
    BY <2>1
  <2> QED BY <1>1, <2>1, <2>2, <2>3, QuietStepsShare
<1>8. ASSUME NEW i \in Ids, NEW s \in {"down", "get"}, pc[p] = "run", GoTo(p, s),
             arg' = [arg EXCEPT ![p] = pcb[p][i]], UNCHANGED <<pcb, live, refs, reserved, opened>>
      PROVE  Idle' /\ Shared'
  <2>1. s \in Steps \ {"none"} /\ s # "run"
    BY DEF Steps
  <2>2. arg'[p] = pcb[p][i] /\ \A r \in Procs : r # p => arg'[r] = arg[r]
    BY <1>1, <1>8 DEF Typed
  <2>3. \A r \in Procs, j \in Ids : pcb'[r][j] = pcb[r][j]
    BY <1>8
  <2> QED BY <1>1, <1>8, <2>1, <2>2, <2>3, QuietStepsShare
<1>9. CASE \E i \in SpIds : CallDown(p, i)
  BY <1>8, <1>9, KindsApart DEF CallDown
<1>10. CASE \E i \in CpIds : CallWait(p, i)
  <2>1. PICK i \in CpIds : CallWait(p, i)
    BY <1>10
  <2>2. CASE pcb[p][i] = None
    <3>1. UNCHANGED <<pcb, pc, arg, live, refs, reserved, opened>>
      BY <2>1, <2>2 DEF CallWait
    <3> QED BY <3>1 DEF Idle, Shared, References, Refers
  <2>3. CASE pcb[p][i] # None
    BY <1>8, <2>1, <2>3, KindsApart DEF CallWait
  <2> QED BY <2>2, <2>3
<1> QED BY <1>4, <1>5, <1>6, <1>7, <1>9, <1>10 DEF Continue

(* A slot that refers to nothing gets a new object.                        *)
LEMMA ReferShares ==
  ASSUME Typed, Idle, Shared, NEW p \in Procs, NEW i \in Ids, NEW o \in Objects,
         pc[p] = "run", pcb[p][i] = None, o \notin live,
         pcb' = [pcb EXCEPT ![p][i] = o], refs' = [refs EXCEPT ![o] = 1], live' = live \cup {o},
         UNCHANGED <<pc, arg>>,
         reserved' \in SUBSET Descriptors, opened' \in SUBSET Descriptors
  PROVE  Idle' /\ Shared'
<1>1. \A r \in Procs, j \in Ids : pcb'[r][j] = IF r = p /\ j = i THEN o ELSE pcb[r][j]
  BY DEF Typed, SlotsTyped
<1>2. i \in Fields /\ i # FutureField /\ FutureField \notin Ids
  BY FieldsApart DEF Fields
<1>3. \A r \in Procs, j \in Fields : r # p \/ j # i => Refers(r, j)' = Refers(r, j)
  BY <1>1 DEF Refers, Fields
<1>4. Refers(p, i) = None /\ Refers(p, i)' = o /\ o # None
  BY <1>1, <1>2, NoneIsNoObject DEF Refers
<1>5. References(o) = {} /\ Cardinality(References(o)) = 0
  BY FS_EmptySet DEF Shared
<1>6. References(o)' # {} /\ Cardinality(References(o)') = 1
  <2>1. Refers(p, i) # o
    BY <1>4
  <2>2. References(o)' = References(o) \cup {<<p, i>>}
    BY <1>2, <1>3, <1>4, <2>1, OneMore
  <2>3. References(o)' = {<<p, i>>}
    BY <1>5, <2>2
  <2> QED BY <2>3, FS_Singleton
<1>7. \A x \in Objects : x # o => References(x)' = References(x)
  <2> SUFFICES ASSUME NEW x \in Objects, x # o PROVE References(x)' = References(x)
    OBVIOUS
  <2>1. \A r \in Procs, j \in Fields : Refers(r, j)' = x <=> Refers(r, j) = x
    BY <1>3, <1>4, NoneIsNoObject
  <2> QED BY <2>1, SameReferences
<1>8. Shared'
  <2>1. refs' \in [Objects -> Nat] /\ \A x \in Objects : refs'[x] = IF x = o THEN 1 ELSE refs[x]
    BY DEF Shared
  <2>2. \A x \in Objects : refs'[x] = Cardinality(References(x)')
    BY <1>6, <1>7, <2>1 DEF Shared
  <2>3. live' = {x \in Objects : References(x)' # {}}
    BY <1>6, <1>7 DEF Shared
  <2> QED BY <2>1, <2>2, <2>3 DEF Shared
<1>9. Idle'
  BY <1>1 DEF Idle
<1> QED BY <1>8, <1>9

(* A slot lets go of its object, which is deleted with the last reference. *)
LEMMA DropShares ==
  ASSUME Typed, Idle, Shared, NEW p \in Procs, NEW i \in Ids,
         pc[p] = "run", pcb[p][i] # None, Drop(p, i), UNCHANGED <<pc, arg>>,
         reserved' \in SUBSET Descriptors, opened' \in SUBSET Descriptors
  PROVE  Idle' /\ Shared'
<1>1. PICK o \in Objects : o = pcb[p][i]
  BY DEF Typed, SlotsTyped
<1>2. /\ pcb' = [pcb EXCEPT ![p][i] = None] /\ refs' = [refs EXCEPT ![o] = @ - 1]
      /\ live' = IF refs[o] = 1 THEN live \ {o} ELSE live
  BY <1>1 DEF Drop
<1>3. \A r \in Procs, j \in Ids : pcb'[r][j] = IF r = p /\ j = i THEN None ELSE pcb[r][j]
  BY <1>2 DEF Typed, SlotsTyped
<1>4. i \in Fields /\ i # FutureField /\ FutureField \notin Ids
  BY FieldsApart DEF Fields
<1>5. \A r \in Procs, j \in Fields : r # p \/ j # i => Refers(r, j)' = Refers(r, j)
  BY <1>3 DEF Refers, Fields
<1>6. Refers(p, i) = o /\ Refers(p, i)' = None /\ o # None
  BY <1>1, <1>3, <1>4, NoneIsNoObject DEF Refers
<1>7. Cardinality(References(o)') = Cardinality(References(o)) - 1
  BY <1>4, <1>5, <1>6, OneLess
<1>8. \A x \in Objects : x # o => References(x)' = References(x)
  <2> SUFFICES ASSUME NEW x \in Objects, x # o PROVE References(x)' = References(x)
    OBVIOUS
  <2>1. \A r \in Procs, j \in Fields : Refers(r, j)' = x <=> Refers(r, j) = x
    BY <1>5, <1>6, NoneIsNoObject
  <2> QED BY <2>1, SameReferences
<1>9. /\ Cardinality(References(o)) \in Nat /\ Cardinality(References(o)) # 0
      /\ Cardinality(References(o)') \in Nat
      /\ Cardinality(References(o)') = 0 <=> References(o)' = {}
  <2>1. <<p, i>> \in References(o)
    BY <1>4, <1>6, InReferences
  <2>2. Cardinality(References(o)) \in Nat /\ Cardinality(References(o)) # 0
    BY <2>1, InReferences
  <2>3. References(o)' \subseteq Procs \X Fields
    BY DEF References, Fields
  <2>4. Cardinality(References(o)') \in Nat /\ (Cardinality(References(o)') = 0 <=> References(o)' = {})
    BY <2>3, FieldsApart, FS_Subset, FS_CardinalityType, FS_EmptySet
  <2> QED BY <2>2, <2>4
<1>10. refs[o] = Cardinality(References(o)) /\ o \in live
  BY <1>9, InReferences DEF Shared
<1>11. Shared'
  <2>1. refs' \in [Objects -> Nat] /\ \A x \in Objects : refs'[x] = IF x = o THEN refs[o] - 1 ELSE refs[x]
    BY <1>2, <1>9, <1>10 DEF Shared
  <2>2. \A x \in Objects : refs'[x] = Cardinality(References(x)')
    BY <1>7, <1>8, <1>10, <2>1 DEF Shared
  <2>3. References(o)' = {} <=> refs[o] = 1
    BY <1>7, <1>9, <1>10
  <2>4. live' = {x \in Objects : References(x)' # {}}
    BY <1>2, <1>8, <1>10, <2>3 DEF Shared
  <2> QED BY <2>1, <2>2, <2>4 DEF Shared
<1>12. Idle'
  BY <1>3 DEF Idle
<1> QED BY <1>11, <1>12

LEMMA SlotCallsShare ==
  ASSUME WInv, Idle, Shared, NEW p \in Procs,
         \/ \E initial \in 0..MaxCount : sem(p, initial)
         \/ open(p)
         \/ \E i \in Ids : close(p, i)
         \/ \E i \in SpIds : up(p, i)
         \/ \E i \in FdIds : UseFile(p, i)
  PROVE  Idle' /\ Shared'
<1>1. Typed
  BY DEF WInv
<1>2. reserved \in SUBSET Descriptors /\ opened \in SUBSET Descriptors
  BY DEF Shared
<1>3. CASE \E initial \in 0..MaxCount : sem(p, initial)
  <2>1. PICK o \in Semaphores : o = New(Semaphores) /\ o \notin live
    BY <1>3, NewIsNew DEF sem
  <2>2. PICK i \in SpIds :
          /\ pc[p] = "run" /\ pcb[p][i] = None /\ Refer(p, i, o)
          /\ UNCHANGED <<pc, arg, reserved, opened>>
    BY <1>3, <2>1 DEF sem, FirstFree
  <2>3. i \in Ids /\ o \in Objects
    BY KindsApart DEF Objects
  <2> QED BY <1>1, <1>2, <2>1, <2>2, <2>3, ReferShares DEF Refer
<1>4. CASE open(p)
  <2>1. PICK o \in Descriptors : o = New(Descriptors) /\ o \notin live
    BY <1>4, NewIsNew DEF open
  <2>2. PICK i \in FdIds :
          /\ pc[p] = "run" /\ pcb[p][i] = None /\ Refer(p, i, o)
          /\ UNCHANGED <<pc, arg, reserved>> /\ opened' = opened \cup {o}
    BY <1>4, <2>1 DEF open, FirstFree
  <2>3. i \in Ids /\ o \in Objects
    BY KindsApart DEF Objects
  <2>4. reserved' \in SUBSET Descriptors /\ opened' \in SUBSET Descriptors
    BY <1>2, <2>2
  <2> QED BY <1>1, <2>1, <2>2, <2>3, <2>4, ReferShares DEF Refer
<1>5. CASE \E i \in Ids : close(p, i)
  <2>1. PICK i \in Ids : close(p, i)
    BY <1>5
  <2>2. pc[p] = "run" /\ pcb[p][i] # None /\ Drop(p, i) /\ UNCHANGED <<pc, arg>>
    BY <2>1 DEF close
  <2>3. reserved' \in SUBSET Descriptors /\ opened' \in SUBSET Descriptors
    BY <1>2, <2>1 DEF close
  <2> QED BY <1>1, <2>2, <2>3, DropShares
<1>6. CASE (\E i \in SpIds : up(p, i)) \/ \E i \in FdIds : UseFile(p, i)
  <2>1. UNCHANGED <<pcb, pc, arg, live, refs, reserved, opened>>
    BY <1>6 DEF up, UseFile, objects
  <2> QED BY <2>1 DEF Idle, Shared, References, Refers
<1> QED BY <1>3, <1>4, <1>5, <1>6

(* A child has the references of its parent, each in the same slot, and    *)
(* fork counts as many.                                                    *)
LEMMA ForkShares ==
  ASSUME WInv, Idle, Shared, NEW p \in Procs, NEW q \in Procs, fork(p, q)
  PROVE  Idle' /\ Shared'
<1> DEFINE f == Future(q)
           Slots(o) == {j \in FdIds \cup SpIds : pcb[p][j] = o}
           Child(o) == {q} \X Slots(o)
<1>1. Typed /\ SlotsTyped
  BY DEF WInv, Typed
<1>2. /\ pc[p] = "run" /\ pc[q] = "none" /\ GoTo(q, "run")
      /\ UNCHANGED <<arg, reserved, opened>>
      /\ refs' = [o \in Objects |-> IF o = f THEN 2 ELSE refs[o] + Cardinality(Slots(o))]
      /\ live' = live \cup {f}
  BY DEF fork
<1>3. p # q
  BY <1>2
<1>4. PICK i \in CpIds :
        /\ pcb[p][i] = None
        /\ pcb' = [pcb EXCEPT ![p][i] = f,
                              ![q] = [j \in Ids |-> IF j \in CpIds THEN None ELSE pcb[p][j]]]
  BY DEF fork, FirstFree
<1>5. \A r \in Procs : pc'[r] = IF r = q THEN "run" ELSE pc[r]
  BY <1>1, <1>2, Gone DEF Steps
<1>6. /\ f \in Futures /\ f \in Objects /\ f # None
      /\ FutureField \notin Ids /\ i \in Ids /\ i \in Fields /\ FutureField \in Fields
      /\ \A j \in Ids : j \in FdIds \cup SpIds <=> j \notin CpIds
  BY KindsApart, NoneIsNoObject, FieldsApart DEF Objects, Fields
<1>7. \A r \in Procs, j \in Ids :
        pcb'[r][j] = IF r = q THEN IF j \in CpIds THEN None ELSE pcb[p][j]
                     ELSE IF r = p /\ j = i THEN f ELSE pcb[r][j]
  <2>1. /\ SlotsTyped'
        /\ pcb'[p][i] = f
        /\ \A j \in Ids : j # i => pcb'[p][j] = pcb[p][j]
        /\ \A j \in Ids : pcb'[q][j] = IF j \in CpIds THEN None ELSE pcb[p][j]
        /\ \A j \in Ids : pcb'[q][j] \notin Futures
        /\ \A r \in Procs \ {p, q}, j \in Ids : pcb'[r][j] = pcb[r][j]
    BY <1>1, <1>3, <1>4, ForkedSlots
  <2> HIDE DEF f
  <2> QED BY <1>3, <2>1
<1> HIDE DEF f
<1>8. /\ \A j \in Ids : pcb[q][j] = None
      /\ arg[p] = None /\ arg[q] = None
  BY <1>2 DEF Idle
<1>9. \A r \in Procs, j \in Fields :
        Refers(r, j)' = IF r = q /\ j = FutureField THEN f
                        ELSE IF r = q THEN IF j \in CpIds THEN None ELSE pcb[p][j]
                        ELSE IF r = p /\ j = i THEN f ELSE Refers(r, j)
  BY <1>5, <1>6, <1>7 DEF Refers, Fields, f
<1>10. \A j \in Fields : Refers(q, j) = None
  BY <1>2, <1>6, <1>8 DEF Refers, Fields
<1>11. Refers(p, i) = None
  BY <1>4, <1>6 DEF Refers
<1>12. \A o \in Objects : o # f => References(o)' = References(o) \cup Child(o) /\ References(o) \cap Child(o) = {}
  <2> SUFFICES ASSUME NEW o \in Objects, o # f
               PROVE  References(o)' = References(o) \cup Child(o) /\ References(o) \cap Child(o) = {}
    OBVIOUS
  <2>1. References(o)' = {r \in Procs \X Fields : Refers(r[1], r[2])' = o}
    BY DEF References, Fields
  <2>2. References(o) = {r \in Procs \X Fields : Refers(r[1], r[2]) = o}
    BY DEF References, Fields
  <2>3. Child(o) = {r \in Procs \X Fields : r[1] = q /\ r[2] \in FdIds \cup SpIds /\ pcb[p][r[2]] = o}
    BY KindsApart DEF Fields
  <2>4. o # None
    BY NoneIsNoObject
  <2>5. ASSUME NEW u \in Procs, NEW j \in Fields
        PROVE  /\ Refers(u, j)' = o <=>
                     Refers(u, j) = o \/ (u = q /\ j \in FdIds \cup SpIds /\ pcb[p][j] = o)
               /\ ~(Refers(u, j) = o /\ u = q)
    <3>1. CASE u = q
      <4>1. Refers(u, j) # o
        BY <1>10, <2>4, <3>1
      <4>2. j = FutureField => Refers(u, j)' # o /\ j \notin FdIds \cup SpIds
        BY <1>6, <1>9, <3>1 DEF FdIds, SpIds
      <4>3. j # FutureField => j \in Ids
        BY DEF Fields
      <4>4. j # FutureField => (Refers(u, j)' = o <=> j \notin CpIds /\ pcb[p][j] = o)
        BY <1>9, <2>4, <3>1
      <4> QED BY <1>6, <3>1, <4>1, <4>2, <4>3, <4>4
    <3>2. CASE u # q
      BY <1>9, <1>11, <2>4, <3>2
    <3> QED BY <3>1, <3>2
  <2> HIDE DEF Child, Slots
  <2> QED BY <2>1, <2>2, <2>3, <2>5
<1>13. \A o \in Objects : IsFiniteSet(Slots(o)) /\ Cardinality(Slots(o)) \in Nat
                         /\ IsFiniteSet(Child(o)) /\ Cardinality(Child(o)) = Cardinality(Slots(o))
  <2> SUFFICES ASSUME NEW o \in Objects
               PROVE  IsFiniteSet(Slots(o)) /\ Cardinality(Slots(o)) \in Nat
                      /\ IsFiniteSet(Child(o)) /\ Cardinality(Child(o)) = Cardinality(Slots(o))
    OBVIOUS
  <2>1. Slots(o) \in SUBSET Nat /\ \A j \in Slots(o) : j <= 29
    BY ProcessAssumption DEF FdIds, SpIds
  <2>2. IsFiniteSet(Slots(o))
    BY <2>1, FS_BoundedSetOfNaturals
  <2> HIDE DEF Slots
  <2>3. IsFiniteSet({q}) /\ Cardinality({q}) = 1
    BY FS_Singleton
  <2>4. Cardinality(Slots(o)) \in Nat
    BY <2>2, FS_CardinalityType
  <2>5. IsFiniteSet(Child(o)) /\ Cardinality(Child(o)) = Cardinality({q}) * Cardinality(Slots(o))
    BY <2>2, <2>3, FS_Product
  <2> HIDE DEF Child
  <2> QED BY <2>2, <2>3, <2>4, <2>5
<1>14. \A o \in Objects : o # f => Cardinality(References(o)') = Cardinality(References(o)) + Cardinality(Slots(o))
  <2> SUFFICES ASSUME NEW o \in Objects, o # f
               PROVE  Cardinality(References(o)') = Cardinality(References(o)) + Cardinality(Slots(o))
    OBVIOUS
  <2> HIDE DEF Child, Slots
  <2>1. IsFiniteSet(References(o)) /\ Cardinality(References(o)) \in Nat
    BY InReferences
  <2>2. IsFiniteSet(Child(o)) /\ Cardinality(Child(o)) = Cardinality(Slots(o)) /\ Cardinality(Slots(o)) \in Nat
    BY <1>13
  <2>3. Cardinality(References(o) \cup Child(o))
          = Cardinality(References(o)) + Cardinality(Child(o)) - Cardinality(References(o) \cap Child(o))
    BY <2>1, <2>2, FS_Union
  <2>4. Cardinality(References(o) \cap Child(o)) = 0
    BY <1>12, FS_EmptySet
  <2>5. References(o)' = References(o) \cup Child(o)
    BY <1>12
  <2>6. Cardinality(References(o)') = Cardinality(References(o)) + Cardinality(Child(o)) - 0
    BY <2>3, <2>4, <2>5
  <2> QED BY <2>1, <2>2, <2>6
<1>15. \A o \in Objects : o # f => (References(o)' = {} <=> References(o) = {})
  <2> SUFFICES ASSUME NEW o \in Objects, o # f, Child(o) # {} PROVE References(o) # {}
    BY <1>12
  <2>1. PICK j \in FdIds \cup SpIds : pcb[p][j] = o
    OBVIOUS
  <2>2. j \in Fields /\ j # FutureField
    BY <1>6, <2>1, KindsApart DEF Fields
  <2>3. Refers(p, j) = o
    BY <2>1, <2>2 DEF Refers
  <2> QED BY <2>2, <2>3, InReferences
<1>16. References(f)' = {<<p, i>>, <<q, FutureField>>}
  <2>1. References(f)' = {r \in Procs \X Fields : Refers(r[1], r[2])' = f}
    BY DEF References, Fields
  <2>2. \A r \in Procs, j \in Fields : Refers(r, j) # f
    <3> SUFFICES ASSUME NEW r \in Procs, NEW j \in Fields, Refers(r, j) = f PROVE FALSE
      OBVIOUS
    <3>1. CASE j = FutureField
      BY <1>2, <1>6, <3>1, KindsApart DEF Refers, f
    <3>2. CASE j # FutureField
      <4>1. j \in Ids /\ pcb[r][j] = Future(q)
        BY <3>2 DEF Refers, Fields, f
      <4> QED BY <1>2, <4>1 DEF WInv, OneParent
    <3> QED BY <3>1, <3>2
  <2>3. \A j \in Ids : j \notin CpIds => pcb[p][j] # f
    BY <2>2, <1>6 DEF Refers, Fields
  <2>4. ASSUME NEW r \in Procs, NEW j \in Fields
        PROVE  Refers(r, j)' = f <=> (r = p /\ j = i) \/ (r = q /\ j = FutureField)
    <3>1. j # FutureField => j \in Ids
      BY DEF Fields
    <3> QED BY <1>3, <1>6, <1>9, <2>2, <2>3, <3>1
  <2> QED BY <1>6, <2>1, <2>4
<1>17. Cardinality(References(f)') = 2
  <2>1. <<q, FutureField>> \notin {<<p, i>>}
    BY <1>3
  <2>2. IsFiniteSet({<<p, i>>}) /\ Cardinality({<<p, i>>}) = 1
    BY FS_Singleton
  <2>3. Cardinality({<<p, i>>} \cup {<<q, FutureField>>}) = 2
    <3>1. Cardinality({<<p, i>>} \cup {<<q, FutureField>>}) = Cardinality({<<p, i>>}) + 1
      BY <2>1, <2>2, FS_AddElement
    <3> QED BY <2>2, <3>1
  <2>4. References(f)' = {<<p, i>>} \cup {<<q, FutureField>>}
    BY <1>16
  <2> QED BY <2>3, <2>4
<1> HIDE DEF Child
<1>18. \A o \in Objects : refs[o] = Cardinality(References(o)) /\ refs[o] \in Nat
  BY DEF Shared
<1>19. Shared'
  <2>1. refs' \in [Objects -> Nat] /\ \A o \in Objects : refs'[o] = Cardinality(References(o)')
    <3> HIDE DEF Slots
    <3>1. \A o \in Objects : refs'[o] = IF o = f THEN 2 ELSE refs[o] + Cardinality(Slots(o))
      BY <1>2 DEF f
    <3>2. \A o \in Objects : refs'[o] \in Nat
      BY <1>13, <1>18, <3>1
    <3>3. \A o \in Objects : refs'[o] = Cardinality(References(o)')
      BY <1>14, <1>17, <1>18, <3>1
    <3>4. refs' = [o \in Objects |-> refs'[o]]
      BY <1>2
    <3> QED BY <3>2, <3>3, <3>4
  <2>2. References(f)' # {}
    BY <1>16
  <2>3. live' = {o \in Objects : References(o)' # {}}
    BY <1>2, <1>6, <1>15, <2>2 DEF Shared, f
  <2> QED BY <1>2, <2>1, <2>3 DEF Shared
<1>20. Idle'
  <2>1. \A r \in Procs, j \in Ids : pc'[r] = "none" => pcb'[r][j] = None
    BY <1>2, <1>5, <1>7 DEF Idle
  <2>2. \A r \in Procs : pc'[r] \in {"none", "run"} => arg'[r] = None
    BY <1>2, <1>5, <1>8 DEF Idle
  <2>3. \A r \in Procs : arg'[r] # None => \E j \in Ids : pcb'[r][j] = arg'[r]
    <3> SUFFICES ASSUME NEW r \in Procs, arg[r] # None PROVE \E j \in Ids : pcb'[r][j] = arg[r]
      BY <1>2
    <3>1. PICK j \in Ids : pcb[r][j] = arg[r]
      BY DEF Idle
    <3>2. r # p /\ r # q
      BY <1>8
    <3> QED BY <1>7, <3>1, <3>2
  <2> QED BY <2>1, <2>2, <2>3 DEF Idle
<1> QED BY <1>19, <1>20

LEMMA SharedInitially == Init => Idle /\ Shared
<1> SUFFICES ASSUME Init PROVE Idle /\ Shared
  OBVIOUS
<1> DEFINE consoles == {Console[i] : i \in ConsoleIds}
           f == Future(First)
<1>1. /\ pcb = [p \in Procs |-> [i \in Ids |->
                   IF p = First /\ i \in ConsoleIds THEN Console[i] ELSE None]]
      /\ live = consoles \cup {f}
      /\ refs = [o \in Objects |-> IF o \in live THEN 1 ELSE 0]
      /\ reserved = consoles /\ opened = {}
      /\ pc = [p \in Procs |-> IF p = First THEN "run" ELSE "none"]
      /\ arg = [p \in Procs |-> None]
  BY DEF Init
<1>2. /\ First \in Procs /\ f \in Futures /\ f \in Objects
      /\ FutureField \notin Ids /\ FutureField \in Fields /\ ConsoleIds \subseteq Ids
  BY KindsApart, FieldsApart, ProcessAssumption DEF Objects, Fields, FdIds
<1>3. consoles \subseteq Descriptors /\ live \subseteq Objects /\ f \notin consoles
  BY <1>1, <1>2, ConsoleExists, KindsApart DEF Objects
<1>4. \A p \in Procs, i \in Ids :
        pcb[p][i] = IF p = First /\ i \in ConsoleIds THEN Console[i] ELSE None
  BY <1>1
<1>5. Idle
  BY <1>1, <1>4 DEF Idle
<1>6. \A p \in Procs : Refers(p, FutureField) = IF p = First THEN f ELSE None
  BY <1>1 DEF Refers
<1>7. \A p \in Procs, i \in Ids :
        Refers(p, i) = IF p = First /\ i \in ConsoleIds THEN Console[i] ELSE None
  BY <1>2, <1>4 DEF Refers
<1>8. \A o \in Objects : o \in live => \E x : References(o) = {x}
  <2> SUFFICES ASSUME NEW o \in Objects, o \in live PROVE \E x : References(o) = {x}
    OBVIOUS
  <2> HIDE DEF f
  <2>1. o # None
    BY NoneIsNoObject
  <2>2. References(o) = {r \in Procs \X Fields : Refers(r[1], r[2]) = o}
    BY DEF References, Fields
  <2>3. CASE o = f
    <3>1. \A p \in Procs, i \in Fields : Refers(p, i) = o <=> p = First /\ i = FutureField
      <4> SUFFICES ASSUME NEW p \in Procs, NEW i \in Fields
                   PROVE  Refers(p, i) = o <=> p = First /\ i = FutureField
        OBVIOUS
      <4>1. CASE i = FutureField
        BY <1>6, <2>1, <2>3, <4>1
      <4>2. CASE i # FutureField
        <5>1. i \in Ids
          BY <4>2 DEF Fields
        <5> QED BY <1>3, <1>7, <2>1, <2>3, <4>2, <5>1
      <4> QED BY <4>1, <4>2
    <3>2. References(o) = {<<First, FutureField>>}
      BY <1>2, <2>2, <3>1
    <3> QED BY <3>2
  <2>4. CASE o # f
    <3>1. PICK k \in ConsoleIds : o = Console[k]
      BY <1>1, <2>4
    <3>2. \A p \in Procs, i \in Fields : Refers(p, i) = o <=> p = First /\ i = k
      <4> SUFFICES ASSUME NEW p \in Procs, NEW i \in Fields
                   PROVE  Refers(p, i) = o <=> p = First /\ i = k
        OBVIOUS
      <4>1. CASE i = FutureField
        BY <1>2, <1>6, <2>1, <2>4, <4>1
      <4>2. CASE i # FutureField
        <5>1. i \in Ids
          BY <4>2 DEF Fields
        <5>2. i \in ConsoleIds => (Console[i] = o <=> i = k)
          BY <3>1, ConsoleExists
        <5> QED BY <1>7, <2>1, <5>1, <5>2
      <4> QED BY <4>1, <4>2
    <3>3. k \in Fields
      BY <1>2 DEF Fields
    <3>4. References(o) = {<<First, k>>}
      BY <1>2, <2>2, <3>2, <3>3
    <3> QED BY <3>4
  <2> QED BY <2>3, <2>4
<1>9. \A o \in Objects : o \notin live => References(o) = {}
  <2> SUFFICES ASSUME NEW o \in Objects, o \notin live, NEW p \in Procs, NEW i \in Fields, Refers(p, i) = o
               PROVE  FALSE
    BY DEF References, Fields
  <2>1. o # None /\ o # f /\ o \notin consoles
    BY <1>1, NoneIsNoObject
  <2>2. CASE i = FutureField
    BY <1>6, <2>1, <2>2
  <2>3. CASE i # FutureField
    <3>1. i \in Ids
      BY <2>3 DEF Fields
    <3> QED BY <1>7, <2>1, <3>1
  <2> QED BY <2>2, <2>3
<1> HIDE DEF consoles, f
<1>10. \A o \in Objects : /\ o \in live => References(o) # {} /\ Cardinality(References(o)) = 1
                          /\ o \notin live => References(o) = {} /\ Cardinality(References(o)) = 0
  BY <1>8, <1>9, FS_Singleton, FS_EmptySet
<1>11. Shared
  <2>1. refs \in [Objects -> Nat] /\ \A o \in Objects : refs[o] = Cardinality(References(o))
    BY <1>1, <1>10
  <2>2. live = {o \in Objects : References(o) # {}}
    BY <1>3, <1>10
  <2> QED BY <1>1, <1>3, <2>1, <2>2 DEF Shared
<1> QED BY <1>5, <1>11

LEMMA SharedKept == WInv /\ Idle /\ Shared /\ [Next]_vars => Idle' /\ Shared'
<1> SUFFICES ASSUME WInv, Idle, Shared, [Next]_vars PROVE Idle' /\ Shared'
  OBVIOUS
<1>1. CASE Next
  <2>1. PICK p \in Procs : Continue(p) \/ Call(p)
    BY <1>1 DEF Next
  <2>2. CASE Continue(p) \/ CallExit(p) \/ (\E i \in SpIds : CallDown(p, i)) \/ \E i \in CpIds : CallWait(p, i)
    BY <2>2, CallsInProgressShare
  <2>3. CASE \E q \in Procs : fork(p, q)
    BY <2>3, ForkShares
  <2>4. CASE \/ \E initial \in 0..MaxCount : sem(p, initial)
             \/ open(p)
             \/ \E i \in Ids : close(p, i)
             \/ \E i \in SpIds : up(p, i)
             \/ \E i \in FdIds : UseFile(p, i)
    BY <2>4, SlotCallsShare
  <2> QED BY <2>1, <2>2, <2>3, <2>4, Zenon DEF Call
<1>2. CASE UNCHANGED vars
  <2>1. UNCHANGED <<pcb, live, refs, reserved, opened, pc, arg>>
    BY <1>2 DEF vars, objects
  <2> QED BY <2>1 DEF Idle, Shared, References, Refers
<1> QED BY <1>1, <1>2

(* Reference counting over fork, close and calls in progress: an object is *)
(* there for exactly as long as somebody refers to it, and the count that  *)
(* a process leaves behind is the number of the others.                    *)
THEOREM SharedObjectsLive == Spec => []LivesWhileReferredTo
<1>1. WInv /\ Idle /\ Shared => LivesWhileReferredTo
  <2> SUFFICES ASSUME WInv, Idle, Shared PROVE LivesWhileReferredTo
    OBVIOUS
  <2>1. Typed /\ SlotsTyped
    BY DEF WInv, Typed
  <2>2. \A p \in Procs :
          /\ \A i \in FdIds : pcb[p][i] \in Descriptors \cup {None}
          /\ \A i \in SpIds : pcb[p][i] \in Semaphores \cup {None}
          /\ \A i \in CpIds : pcb[p][i] \in Futures \cup {None}
    BY <2>1, KindsApart DEF SlotsTyped, Fits
  <2>3. TypeOK
    BY <2>1, <2>2 DEF Typed, SlotsTyped, Shared, TypeOK
  <2>4. ASSUME NEW p \in Procs, arg[p] # None PROVE arg[p] \in live
    <3>1. PICK i \in Ids : pcb[p][i] = arg[p]
      BY <2>4 DEF Idle
    <3>2. arg[p] \in Objects /\ i \in Fields /\ Refers(p, i) = arg[p]
      BY <2>1, <2>4, <3>1, FieldsApart DEF Typed, Fields, Refers
    <3>3. References(arg[p]) # {}
      BY <3>2, InReferences
    <3> QED BY <3>2, <3>3 DEF Shared
  <2> QED BY <2>3, <2>4 DEF LivesWhileReferredTo, Shared
<1> QED BY <1>1, WaitInitially, SharedInitially, WaitKept, SharedKept, PTL DEF Spec

=============================================================================
