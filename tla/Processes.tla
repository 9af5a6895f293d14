------------------------------ MODULE Processes ------------------------------
(***************************************************************************)
(* Processes and their control blocks: the system calls of sys.cc that     *)
(* make, share and drop files, semaphores and children, with Shared<>      *)
(* (shared.h) and Future (future.h).                                       *)
(*                                                                         *)
(* A PCB has 30 slots: descriptors of files are in 0..9, of which 0..2 are *)
(* for the console, semaphores in 10..19 and the futures of children in    *)
(* 20..29.  Only its own process uses a PCB, so that a system call is a    *)
(* step as far as the slots go; what they refer to is shared.  A semaphore *)
(* is what Semaphore.tla shows it to be: a count that down() waits for.    *)
(***************************************************************************)
EXTENDS Naturals, FiniteSets

CONSTANTS
  Procs, First,      \* BOUND: the processes that there ever are; the init process
  Ids,               \* BOUND: the slots, out of 0..29
  MaxDescs, MaxSems, \* BOUND: the objects of a kind at a time
  MaxCount,          \* BOUND: the count of a semaphore
  None               \* nullptr

ASSUME ProcessAssumption ==
  /\ First \in Procs /\ IsFiniteSet(Procs) /\ None \notin Procs
  /\ Ids \subseteq 0..29
  /\ MaxDescs \in Nat /\ MaxSems \in Nat /\ MaxCount \in Nat
  /\ Cardinality(Ids \cap 0..2) <= MaxDescs

FdIds == Ids \cap 0..9
SpIds == Ids \cap 10..19
CpIds == Ids \cap 20..29
ConsoleIds == Ids \cap 0..2

Descriptors == {<<"descriptor", n>> : n \in 1..MaxDescs}
Semaphores == {<<"semaphore", n>> : n \in 1..MaxSems}
Future(p) == <<"future", p>>
Futures == {Future(p) : p \in Procs}
Objects == Descriptors \cup Semaphores \cup Futures

ASSUME NoObject == None \notin Objects

VARIABLES
  pcb,       \* per process and slot, the object it refers to
  live,      \* the objects that are not deleted
  refs,      \* ref_count of every object
  reserved,  \* the descriptors that have that flag
  opened,    \* the descriptors that have a file
  count,     \* per semaphore, and for a future the count of go
  isReady,   \* the futures that are
  t,         \* per future, the exit code, here the process that exits with it
  pc,        \* per process
  arg,       \* per process, the object that its system call is about
  status,    \* per process, what wait() has stored there
  panicked

objects == <<live, refs, reserved, opened>>
future == <<isReady, t>>
vars == <<pcb, objects, count, future, pc, arg, status, panicked>>

Steps == {"none", "run", "down", "get", "get down", "get up", "get t", "waited",
          "set t", "set ready", "set up", "stop"}

TypeOK ==
  /\ pcb \in [Procs -> [Ids -> Objects \cup {None}]]
  /\ \A p \in Procs :
       /\ \A i \in FdIds : pcb[p][i] \in Descriptors \cup {None}
       /\ \A i \in SpIds : pcb[p][i] \in Semaphores \cup {None}
       /\ \A i \in CpIds : pcb[p][i] \in Futures \cup {None}
  /\ live \in SUBSET Objects
  /\ refs \in [Objects -> Nat]
  /\ reserved \in SUBSET Descriptors /\ opened \in SUBSET Descriptors
  /\ count \in [Semaphores \cup Futures -> Nat]
  /\ isReady \in SUBSET Futures
  /\ t \in [Futures -> Procs \cup {None}]
  /\ pc \in [Procs -> Steps]
  /\ arg \in [Procs -> Objects \cup {None}]
  /\ status \in [Procs -> Procs \cup {None}]
  /\ panicked \in BOOLEAN

(* The init process, with a descriptor of its own in each console slot.    *)
Console == CHOOSE f \in [ConsoleIds -> Descriptors] :
             \A i, j \in ConsoleIds : f[i] = f[j] => i = j

Init ==
  LET consoles == {Console[i] : i \in ConsoleIds} IN
  /\ pcb = [p \in Procs |-> [i \in Ids |->
              IF p = First /\ i \in ConsoleIds THEN Console[i] ELSE None]]
  /\ live = consoles \cup {Future(First)}
  /\ refs = [o \in Objects |-> IF o \in live THEN 1 ELSE 0]
  /\ reserved = consoles /\ opened = {}
  /\ count = [o \in Semaphores \cup Futures |-> 0]
  /\ isReady = {}
  /\ t = [f \in Futures |-> None]
  /\ pc = [p \in Procs |-> IF p = First THEN "run" ELSE "none"]
  /\ arg = [p \in Procs |-> None]
  /\ status = [p \in Procs |-> None]
  /\ panicked = FALSE

-----------------------------------------------------------------------------

GoTo(p, step) == pc' = [pc EXCEPT ![p] = step]

(* The first slot of a kind that is free.                                  *)
FirstFree(p, ids, i) ==
  /\ i \in ids /\ pcb[p][i] = None
  /\ \A j \in ids : j < i => pcb[p][j] # None

(* new: an object that is not there yet.                                   *)
New(kind) == CHOOSE o \in kind : o \notin live

(* operator= of Shared: a slot that refers to nothing gets a new object,   *)
(* or a slot lets go of its object, which is deleted with its last         *)
(* reference.                                                              *)
Refer(p, i, o) ==
  /\ pcb' = [pcb EXCEPT ![p][i] = o]
  /\ refs' = [refs EXCEPT ![o] = 1]
  /\ live' = live \cup {o}

Drop(p, i) ==
  LET o == pcb[p][i] IN
  /\ pcb' = [pcb EXCEPT ![p][i] = None]
  /\ refs' = [refs EXCEPT ![o] = @ - 1]
  /\ live' = IF refs[o] = 1 THEN live \ {o} ELSE live

sem(p, initial) ==
  /\ pc[p] = "run"
  /\ ~(Semaphores \subseteq live)
  /\ \E i \in SpIds : FirstFree(p, SpIds, i) /\ Refer(p, i, New(Semaphores))
  /\ count' = [count EXCEPT ![New(Semaphores)] = initial]
  /\ UNCHANGED <<reserved, opened, future, pc, arg, status, panicked>>

up(p, i) ==
  /\ pc[p] = "run" /\ pcb[p][i] # None
  /\ count[pcb[p][i]] < MaxCount
  /\ count' = [count EXCEPT ![pcb[p][i]] = @ + 1]
  /\ UNCHANGED <<pcb, objects, future, pc, arg, status, panicked>>

CallDown(p, i) ==
  /\ pc[p] = "run" /\ pcb[p][i] # None
  /\ arg' = [arg EXCEPT ![p] = pcb[p][i]]
  /\ GoTo(p, "down")
  /\ UNCHANGED <<pcb, objects, count, future, status, panicked>>

Down(p) ==
  /\ pc[p] = "down" /\ count[arg[p]] > 0
  /\ count' = [count EXCEPT ![arg[p]] = @ - 1]
  /\ arg' = [arg EXCEPT ![p] = None]
  /\ GoTo(p, "run")
  /\ UNCHANGED <<pcb, objects, future, status, panicked>>

(* open, of a file that there is.                                          *)
open(p) ==
  /\ pc[p] = "run"
  /\ ~(Descriptors \subseteq live)
  /\ \E i \in FdIds : FirstFree(p, FdIds, i) /\ Refer(p, i, New(Descriptors))
  /\ opened' = opened \cup {New(Descriptors)}
  /\ UNCHANGED <<reserved, count, future, pc, arg, status, panicked>>

(* close of a slot of any kind.  For a console slot the flag is taken from *)
(* the descriptor itself, whoever else refers to it.                       *)
close(p, i) ==
  /\ pc[p] = "run" /\ pcb[p][i] # None
  /\ Drop(p, i)
  /\ reserved' = (IF i \in ConsoleIds THEN reserved \ {pcb[p][i]} ELSE reserved) \cap live'
  /\ opened' = opened \cap live'
  /\ UNCHANGED <<count, future, pc, arg, status, panicked>>

(* len and read look at the file of a descriptor that is not reserved.     *)
UseFile(p, i) ==
  /\ pc[p] = "run" /\ pcb[p][i] # None
  /\ pcb[p][i] \notin reserved \cup opened
  /\ panicked' = TRUE
  /\ UNCHANGED <<pcb, objects, count, future, pc, arg, status>>

(* Fault: the references that the child gets are not counted.              *)
ForkNoCount(p, q) ==
  /\ pc[p] = "run" /\ pc[q] = "none"
  /\ \E i \in CpIds :
       /\ FirstFree(p, CpIds, i)
       /\ pcb' = [pcb EXCEPT ![p][i] = Future(q),
                             ![q] = [j \in Ids |-> IF j \in CpIds THEN None ELSE pcb[p][j]]]
  /\ refs' = [refs EXCEPT ![Future(q)] = 2]
  /\ live' = live \cup {Future(q)}
  /\ GoTo(q, "run")
  /\ UNCHANGED <<reserved, opened, count, future, arg, status, panicked>>

(* fork: the child refers to the files and semaphores of its parent, and   *)
(* both to the child's future.  The console descriptors that the child's   *)
(* PCB is made with are gone as soon as their slots are copied over.  If   *)
(* no slot is free, the loop reads one past the array, where the parent's  *)
(* own future is, and ends without a child.                                *)
fork(p, q) ==
  /\ pc[p] = "run" /\ pc[q] = "none"
  /\ \E i \in CpIds :
       /\ FirstFree(p, CpIds, i)
       /\ pcb' = [pcb EXCEPT ![p][i] = Future(q),
                             ![q] = [j \in Ids |-> IF j \in CpIds THEN None ELSE pcb[p][j]]]
  /\ refs' = [o \in Objects |->
                IF o = Future(q) THEN 2
                ELSE refs[o] + Cardinality({j \in FdIds \cup SpIds : pcb[p][j] = o})]
  /\ live' = live \cup {Future(q)}
  /\ GoTo(q, "run")
  /\ UNCHANGED <<reserved, opened, count, future, arg, status, panicked>>

(* wait: Future::get().  A slot without a child is not looked at before it *)
(* is followed.                                                            *)
CallWait(p, i) ==
  /\ pc[p] = "run"
  /\ IF pcb[p][i] = None
       THEN panicked' = TRUE /\ UNCHANGED <<pc, arg>>
       ELSE /\ arg' = [arg EXCEPT ![p] = pcb[p][i]]
            /\ GoTo(p, "get")
            /\ UNCHANGED panicked
  /\ UNCHANGED <<pcb, objects, count, future, status>>

(* Fault: the test is the wrong way round.                                 *)
GetReadyInverted(p) ==
  /\ pc[p] = "get"
  /\ GoTo(p, IF arg[p] \in isReady THEN "get down" ELSE "get t")
  /\ UNCHANGED <<pcb, objects, count, future, arg, status, panicked>>

GetReady(p) ==
  /\ pc[p] = "get"
  /\ GoTo(p, IF arg[p] \in isReady THEN "get t" ELSE "get down")
  /\ UNCHANGED <<pcb, objects, count, future, arg, status, panicked>>

GetDown(p) ==
  /\ pc[p] = "get down" /\ count[arg[p]] > 0
  /\ count' = [count EXCEPT ![arg[p]] = @ - 1]
  /\ GoTo(p, "get up")
  /\ UNCHANGED <<pcb, objects, future, arg, status, panicked>>

GetUp(p) ==
  /\ pc[p] = "get up"
  /\ count' = [count EXCEPT ![arg[p]] = @ + 1]
  /\ GoTo(p, "get t")
  /\ UNCHANGED <<pcb, objects, future, arg, status, panicked>>

GetT(p) ==
  /\ pc[p] = "get t"
  /\ status' = [status EXCEPT ![p] = t[arg[p]]]
  /\ GoTo(p, "waited")
  /\ UNCHANGED <<pcb, objects, count, future, arg, panicked>>

WaitReturns(p) ==
  /\ pc[p] = "waited"
  /\ arg' = [arg EXCEPT ![p] = None]
  /\ status' = [status EXCEPT ![p] = None]
  /\ GoTo(p, "run")
  /\ UNCHANGED <<pcb, objects, count, future, panicked>>

(* exit: Future::set(), and stop() for ever.  The PCB stays as it is.      *)
CallExit(p) ==
  /\ pc[p] = "run"
  /\ GoTo(p, "set t")
  /\ UNCHANGED <<pcb, objects, count, future, arg, status, panicked>>

SetT(p) ==
  /\ pc[p] = "set t"
  /\ t' = [t EXCEPT ![Future(p)] = p]
  /\ GoTo(p, "set ready")
  /\ UNCHANGED <<pcb, objects, count, isReady, arg, status, panicked>>

SetReady(p) ==
  /\ pc[p] = "set ready"
  /\ isReady' = isReady \cup {Future(p)}
  /\ GoTo(p, "set up")
  /\ UNCHANGED <<pcb, objects, count, t, arg, status, panicked>>

(* Fault: nobody is told.                                                  *)
SetQuietly(p) ==
  /\ pc[p] = "set up"
  /\ GoTo(p, "stop")
  /\ UNCHANGED <<pcb, objects, count, future, arg, status, panicked>>

SetUp(p) ==
  /\ pc[p] = "set up"
  /\ count' = [count EXCEPT ![Future(p)] = @ + 1]
  /\ GoTo(p, "stop")
  /\ UNCHANGED <<pcb, objects, future, arg, status, panicked>>

-----------------------------------------------------------------------------

(* The steps of a system call that has begun.                              *)
Continue(p) ==
  \/ Down(p) \/ GetReady(p) \/ GetDown(p) \/ GetUp(p) \/ GetT(p) \/ WaitReturns(p)
  \/ SetT(p) \/ SetReady(p) \/ SetUp(p)

Call(p) ==
  \/ \E initial \in 0..MaxCount : sem(p, initial)
  \/ \E i \in SpIds : up(p, i) \/ CallDown(p, i)
  \/ open(p)
  \/ \E i \in Ids : close(p, i)
  \/ \E i \in FdIds : UseFile(p, i)
  \/ \E q \in Procs : fork(p, q)
  \/ \E i \in CpIds : CallWait(p, i)
  \/ CallExit(p)

Next == \E p \in Procs : ~panicked /\ (Continue(p) \/ Call(p))

Spec == Init /\ [][Next]_vars

-----------------------------------------------------------------------------

(* Everything that refers to an object: the slots of PCBs, which are never *)
(* deleted, and the field future after them.                               *)
FutureField == 30

Refers(p, i) ==
  IF i # FutureField THEN pcb[p][i] ELSE IF pc[p] = "none" THEN None ELSE Future(p)

References(o) == {r \in Procs \X (Ids \cup {FutureField}) : Refers(r[1], r[2]) = o}

(* An object that processes share after fork lives as long as one of them  *)
(* refers to it, and not longer; nobody waits in an object that is deleted,*)
(* and every slot refers to an object of its kind.                         *)
LivesWhileReferredTo ==
  /\ TypeOK
  /\ live = {o \in Objects : References(o) # {}}
  /\ \A p \in Procs : arg[p] # None => arg[p] \in live

(* wait() returns the exit code of the child that it was called for, at    *)
(* whatever moment the child exits, and also when it is called again.      *)
WaitReturnsTheChildsCode ==
  \A p \in Procs : pc[p] = "waited" => arg[p] = Future(status[p])

(* A parent is not left waiting for a child that has exited, although it   *)
(* looks at isReady without a lock: the permit of set() is there for it,   *)
(* however the steps of get() and set() interleave.                        *)
NobodyWaitsInVain ==
  \A p, q \in Procs :
    pc[p] = "get down" /\ arg[p] = Future(q) /\ pc[q] = "stop" => count[Future(q)] > 0

(* "all system calls return negative value on failure" (test.dir/sbin/     *)
(* sys.h:13): none stops the machine.                                      *)
SystemCallsReturn == ~panicked

=============================================================================
