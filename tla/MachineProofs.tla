---------------------------- MODULE MachineProofs ----------------------------
(***************************************************************************)
(* Proofs about start-up, for any number of processors, any sizes and any  *)
(* machine: stacks are not shared, and nothing is used before it is there. *)
(*                                                                         *)
(* Nothing in the code checks the order in which parts are set up, nor     *)
(* which core is where.  What keeps the cores apart is core 0, which       *)
(* starts one of them and then waits until the count says that it is       *)
(* there: the invariant says, for every place core 0 can be at, what is    *)
(* ready, who has been counted and who is on its way.                      *)
(***************************************************************************)
EXTENDS Machine, FiniteSetTheorems, TLAPS

(* Where core 0 can be, and where any core can be.                         *)
Booting == {"load", "resetEIP", "kk"}
SettingUp == {"config", "heap", "uart", "crt", "physmem", "vmm", "sys", "threads", "lapic", "done"}
Starting == {"init", "start", "running"}
Late == {"paging", "pit", "tss", "sti", "here", "stop"}
Alone == Booting \cup SettingUp \cup {"calibrate", "count"}
Labels == Alone \cup {"next"} \cup Starting \cup Late \cup {"off", "wait", "enable"}
OwnParts == {"paging", "timer", "tss", "interrupts"}

CoreType == [pc : Labels, stack : Int, up : SUBSET OwnParts]

Typed ==
  /\ core \in [Cores -> CoreType]
  /\ id \in Nat /\ running \in Nat /\ howManyAreHere \in Nat
  /\ halted \in {"no", "panic", "fault"}

Others == Cores \ {0}
Counted(c) == core[c].pc \in {"enable"} \cup Late
HasBegun == core[0].pc \notin Alone

(* Core 0 starts the others one by one and waits for each.                 *)
OneByOne ==
  /\ core[0].pc \in Alone \cup {"next"} \cup Starting \cup Late
  /\ ~HasBegun => id = 0 /\ running = 0
  /\ core[0].pc = "next" => running = id + 1
  /\ core[0].pc \in Starting =>
       id > 0 /\ running = IF \E c \in Others : c = id /\ Counted(c) THEN id + 1 ELSE id
  /\ core[0].pc \in Late => id > 0

OtherOK(c) ==
  /\ core[c].pc \in {"off", "wait", "resetEIP", "kk", "count", "enable"} \cup Late
  /\ ~HasBegun => core[c].pc = "off"
  /\ core[0].pc = "next" => IF c <= id THEN Counted(c) ELSE core[c].pc = "off"
  /\ core[0].pc \in Starting \cup Late =>
       /\ c < id => Counted(c)
       /\ c > id => core[c].pc = "off"
  /\ core[0].pc = "init" /\ c = id => core[c].pc = "off"
  /\ core[0].pc = "start" /\ c = id => core[c].pc \in {"off", "wait"}
  /\ core[0].pc = "running" => core[c].pc # "wait"
  /\ core[0].pc \in Late /\ c >= id => core[c].pc = "off"

(* On which stack a core is.                                               *)
StackOK(c) ==
  core[c].stack =
    IF core[c].pc \in {"off", "wait", "load", "resetEIP"} THEN NoStack
    ELSE IF core[c].pc = "kk" THEN TempStack ELSE c

(* What core 0 has set up when it is at some place.                        *)
ReadyOK ==
  /\ core[0].pc \notin Booting \cup {"config"} => "config" \in ready
  /\ core[0].pc \notin Booting \cup {"config", "heap"} => "heap" \in ready
  /\ core[0].pc \notin Booting \cup {"config", "heap", "uart", "crt"} => "crt" \in ready
  /\ core[0].pc \notin Booting \cup {"config", "heap", "uart", "crt", "physmem"} =>
       "physmem" \in ready
  /\ core[0].pc \notin Booting \cup {"config", "heap", "uart", "crt", "physmem", "vmm"} =>
       "vmm" \in ready
  /\ core[0].pc \notin Booting \cup (SettingUp \ {"lapic", "done"}) => "threads" \in ready
  /\ core[0].pc \notin Booting \cup (SettingUp \ {"done"}) => "lapic" \in ready
  /\ "smpInitDone" \in ready <=> core[0].pc \notin Booting \cup SettingUp
  /\ HasBegun \/ core[0].pc = "count" => "apitHandler" \in ready

Orderly ==
  /\ Typed /\ OneByOne /\ ReadyOK
  /\ \A c \in Others : OtherOK(c)
  /\ \A c \in Cores : StackOK(c)

-----------------------------------------------------------------------------
(* What holds of machines for which the arrays are long enough.            *)

Fits == Len(OtherProcs) \in 0..(MaxProcs - 1) /\ Len(PciDevices) \in 0..PciSlots

(* The loader has read all sectors before the one that it is at.           *)
Loaded(n) == \A s \in 0..(n - 1) : memory[LoadSlot - 1 + s] = s

LoaderOK ==
  /\ machine \in Machines
  /\ memory \in [0..(Slots - 1) -> Int]
  /\ core[0].pc = "load" =>
       /\ loop.bp \in 1..machine.sectors /\ loop.cx = machine.sectors - loop.bp + 1
       /\ loop.bp < machine.sectors => loop.di = LoadSlot + loop.bp - 1
       /\ Loaded(loop.bp)
  /\ core[0].pc # "load" => Loaded(machine.sectors)

UpAt(label) ==
  IF label = "pit" THEN {"paging"}
  ELSE IF label = "tss" THEN {"paging", "timer"}
  ELSE IF label = "sti" THEN {"paging", "timer", "tss"}
  ELSE IF label \in {"here", "stop"} THEN OwnParts ELSE {}

UpOK(c) == core[c].up = UpAt(core[c].pc)

(* How many cores there are, and which of them core 0 has started.         *)
Total ==
  /\ core[0].pc \notin Booting \cup {"config"} => config.totalProcs = Len(OtherProcs) + 1
  /\ core[0].pc \in {"next"} \cup Starting => id < config.totalProcs
  /\ core[0].pc \in Late => id = config.totalProcs

Stopped == {c \in Cores : core[c].pc = "stop"}

Arrived ==
  /\ howManyAreHere = Cardinality(Stopped)
  /\ main # "none" => /\ core[0].pc = "stop"
                      /\ \A c \in 0..(config.totalProcs - 1) : core[c].pc = "stop"

IInv ==
  /\ Orderly /\ LoaderOK /\ Total /\ Arrived /\ halted # "fault"
  /\ \A c \in Cores : UpOK(c)

-----------------------------------------------------------------------------

LEMMA Zero == 0 \in Cores /\ (\A c \in Cores : c \in Nat /\ (c \in Others <=> c # 0))
BY StartUpAssumption DEF Cores, Others

(* The cores but c stay where they are.                                    *)
OnlyMoves(c) == \A d \in Cores : d # c => core'[d] = core[d]

LEMMA Goes ==
  ASSUME core \in [Cores -> CoreType], NEW c \in Cores, NEW label \in Labels, Go(c, label)
  PROVE  /\ core' \in [Cores -> CoreType] /\ OnlyMoves(c)
         /\ core'[c].pc = label /\ core'[c].stack = core[c].stack /\ core'[c].up = core[c].up
<1>1. core' = [core EXCEPT ![c].pc = label]
  BY DEF Go
<1>2. core[c] \in CoreType
  OBVIOUS
<1>3. core' = [core EXCEPT ![c] = [core[c] EXCEPT !.pc = label]]
  BY <1>1
<1> DEFINE r == [core[c] EXCEPT !.pc = label]
<1>4. r \in CoreType /\ r.pc = label /\ r.stack = core[c].stack /\ r.up = core[c].up
  BY <1>2 DEF CoreType
<1> HIDE DEF r
<1>5. core' = [core EXCEPT ![c] = r]
  BY <1>3 DEF r
<1>6. core' \in [Cores -> CoreType] /\ core'[c] = r /\ OnlyMoves(c)
  BY <1>4, <1>5 DEF OnlyMoves
<1> QED BY <1>4, <1>6

LEMMA GoesOwn ==
  ASSUME core \in [Cores -> CoreType], NEW c \in Cores, NEW label, NEW part \in OwnParts,
         NEW then \in Labels, Own(c, label, part, then)
  PROVE  /\ core' \in [Cores -> CoreType] /\ OnlyMoves(c)
         /\ core'[c].pc = then /\ core'[c].stack = core[c].stack
         /\ core'[c].up = core[c].up \cup {part}
<1>1. core' = [core EXCEPT ![c].pc = then, ![c].up = @ \cup {part}]
  BY DEF Own
<1>2. core[c] \in CoreType
  OBVIOUS
<1> DEFINE r == [core[c] EXCEPT !.pc = then, !.up = @ \cup {part}]
<1>3. core' = [core EXCEPT ![c] = r]
  BY <1>1
<1>4. /\ r \in CoreType /\ r.pc = then /\ r.stack = core[c].stack
      /\ r.up = core[c].up \cup {part}
  BY <1>2 DEF CoreType
<1> HIDE DEF r
<1>5. core' \in [Cores -> CoreType] /\ core'[c] = r /\ OnlyMoves(c)
  BY <1>3, <1>4 DEF OnlyMoves
<1> QED BY <1>4, <1>5

(* A step that moves one core, from one place to another.                  *)
Moves(c, from, to) ==
  /\ core[c].pc = from /\ core'[c].pc = to
  /\ core' \in [Cores -> CoreType] /\ OnlyMoves(c)

Keeps(c) == core'[c].stack = core[c].stack

HaltedOK == halted' \in {"no", "panic", "fault"}

-----------------------------------------------------------------------------
(* Core 0 by itself: the others are off.                                   *)

LEMMA AloneMoves ==
  ASSUME Orderly, NEW from \in Alone, NEW to \in Alone, Moves(0, from, to), UNCHANGED smp
  PROVE  /\ id' \in Nat /\ running' \in Nat /\ howManyAreHere' \in Nat
         /\ OneByOne' /\ \A c \in Others : OtherOK(c)' /\ StackOK(c)'
<1>1. ~HasBegun /\ ~HasBegun'
  BY DEF HasBegun, Moves
<1>2. OneByOne'
  BY <1>1 DEF Orderly, OneByOne, Moves, Alone, Booting, SettingUp, Starting, Late, smp
<1>3. ASSUME NEW c \in Others PROVE OtherOK(c)' /\ StackOK(c)'
  <2>1. c \in Cores /\ core'[c] = core[c] /\ core[c].pc = "off" /\ StackOK(c)
    <3>1. c \in Cores /\ c # 0
      BY DEF Others
    <3>2. OtherOK(c) /\ StackOK(c)
      BY <3>1 DEF Orderly
    <3>3. core'[c] = core[c]
      BY <3>1 DEF Moves, OnlyMoves
    <3>4. core[c].pc = "off"
      BY <1>1, <3>2 DEF OtherOK
    <3> QED BY <3>1, <3>2, <3>3, <3>4
  <2>2. StackOK(c)'
    BY <2>1 DEF StackOK
  <2> QED
    BY <1>1, <2>1, <2>2 DEF OtherOK, Moves, Alone, Booting, SettingUp, Starting, Late
<1> QED BY <1>2, <1>3 DEF Orderly, Typed, smp

(* On the same stack as before.                                            *)
LEMMA AloneGoes ==
  ASSUME Orderly, NEW from \in Alone \ {"kk"}, NEW to \in Alone \ {"kk"}, Moves(0, from, to),
         Keeps(0), from \in {"load", "resetEIP"} <=> to \in {"load", "resetEIP"},
         UNCHANGED smp, HaltedOK, ReadyOK'
  PROVE  Orderly'
<1>1. StackOK(0)'
  <2>1. StackOK(0)
    BY Zero DEF Orderly
  <2> QED BY <2>1 DEF StackOK, Moves, Keeps, Alone, Booting, SettingUp
<1>2. \A c \in Cores : StackOK(c)'
  BY <1>1, AloneMoves, Zero
<1> QED BY <1>2, AloneMoves, Zero DEF Orderly, Typed, Moves, HaltedOK

(* The steps that load and set up the kernel.                              *)
LEMMA InitialiseStep ==
  ASSUME Orderly, NEW label \in Alone \ {"load", "resetEIP", "kk"},
         NEW then \in Alone \ {"load", "resetEIP", "kk"}, At(0, label), Go(0, then),
         UNCHANGED smp, HaltedOK, ReadyOK'
  PROVE  Orderly'
<1>1. core \in [Cores -> CoreType] /\ 0 \in Cores /\ then \in Labels
  BY Zero DEF Orderly, Typed, Labels
<1>2. Moves(0, label, then) /\ Keeps(0)
  BY <1>1, Goes DEF At, Moves, Keeps
<1> QED BY <1>2, AloneGoes

LEMMA GoesReady ==
  ASSUME Orderly, NEW then \in Labels, Go(0, then)
  PROVE  core'[0].pc = then
BY Goes, Zero DEF Orderly, Typed

LEMMA ReadSectorKeeps == ASSUME Orderly, ReadSector, halted = "no" PROVE Orderly'
<1>1. At(0, "load") /\ UNCHANGED <<ready, halted, smp>>
  BY DEF ReadSector, kernel
<1>2. CASE UNCHANGED core
  BY <1>1, <1>2 DEF Orderly, Typed, OneByOne, ReadyOK, OtherOK, StackOK, HasBegun, Counted, smp
<1>3. CASE Go(0, "resetEIP")
  <2>1. Moves(0, "load", "resetEIP") /\ Keeps(0)
    BY <1>1, <1>3, Zero, Goes DEF Orderly, Typed, Labels, Alone, Booting, At, Moves, Keeps
  <2>2. ReadyOK'
    BY <1>1, <2>1 DEF Orderly, ReadyOK, HasBegun, Moves, Booting, SettingUp, Alone
  <2> QED
    BY <1>1, <2>1, <2>2, AloneGoes DEF HaltedOK, Alone, Booting
<1> QED BY <1>2, <1>3 DEF ReadSector, hardware

LEMMA SetUpKeeps ==
  ASSUME Orderly, 
         \/ configInit \/ heapInit \/ newUart \/ globalConstructors \/ physMemInit
         \/ global_init \/ sysInit \/ threadsInit \/ lapicInit \/ setDone \/ calibrate,
         halted = "no"
  PROVE  Orderly'
<1> USE DEF Initialise, At, UsesApic, Uses, Alone, Booting, SettingUp, HaltedOK
<1> DEFINE Set == Alone \ {"load", "resetEIP", "kk"}
<1>0. \A l \in Set : l \in Labels
  BY DEF Labels
<1>1. ASSUME NEW label \in Set, NEW then \in Set, core[0].pc = label, Go(0, then),
             UNCHANGED smp, HaltedOK, core'[0].pc = then => ReadyOK'
      PROVE  Orderly'
  <2>1. core'[0].pc = then
    BY <1>0, <1>1, GoesReady
  <2> HIDE DEF Alone
  <2> QED BY <1>1, <2>1, InitialiseStep DEF At
<1> USE DEF ReadyOK, HasBegun, Orderly
<1>2. CASE configInit
  BY <1>1, <1>2 DEF configInit
<1>3. CASE heapInit
  BY <1>1, <1>3 DEF heapInit
<1>4. CASE newUart
  BY <1>1, <1>4 DEF newUart
<1>5. CASE globalConstructors
  BY <1>1, <1>5 DEF globalConstructors
<1>6. CASE physMemInit
  BY <1>1, <1>6 DEF physMemInit
<1>7. CASE global_init
  BY <1>1, <1>7 DEF global_init
<1>8. CASE sysInit
  BY <1>1, <1>8 DEF sysInit
<1>9. CASE threadsInit
  BY <1>1, <1>9 DEF threadsInit
<1>10. CASE lapicInit
  BY <1>1, <1>10 DEF lapicInit
<1>11. CASE setDone
  BY <1>1, <1>11 DEF setDone
<1>12. CASE calibrate
  BY <1>1, <1>12 DEF calibrate
<1> QED BY <1>2, <1>3, <1>4, <1>5, <1>6, <1>7, <1>8, <1>9, <1>10, <1>11, <1>12

-----------------------------------------------------------------------------
(* Core 0 starts the others.                                               *)

Everything ==
  {"config", "heap", "crt", "physmem", "vmm", "threads", "lapic", "smpInitDone", "apitHandler"}

(* When a second core does anything, all is ready; and it stays so.        *)
LEMMA AllReady ==
  ASSUME Orderly
  PROVE  /\ HasBegun => Everything \subseteq ready
         /\ \A c \in Others : core[c].pc # "off" => HasBegun
<1>1. HasBegun => Everything \subseteq ready
  BY DEF Orderly, ReadyOK, HasBegun, Alone, Booting, SettingUp, Everything
<1>2. ASSUME NEW c \in Others, core[c].pc # "off" PROVE HasBegun
  BY <1>2 DEF Orderly, OtherOK
<1> QED BY <1>1, <1>2

LEMMA ReadyStays ==
  ASSUME Orderly, core'[0] = core[0] \/ (HasBegun /\ HasBegun'), UNCHANGED ready
  PROVE  ReadyOK'
<1>1. CASE core'[0] = core[0]
  BY <1>1 DEF Orderly, ReadyOK, HasBegun
<1>2. CASE HasBegun /\ HasBegun'
  BY <1>2, AllReady DEF ReadyOK, HasBegun, Everything, Alone, Booting, SettingUp
<1> QED BY <1>1, <1>2

(* Core 0 counts itself.                                                   *)
LEMMA CountsItself == ASSUME Orderly, countRunning(0), halted = "no" PROVE Orderly'
<1>1. Moves(0, "count", "next") /\ Keeps(0) /\ UNCHANGED <<ready, halted, id, howManyAreHere>>
  BY Zero, Goes DEF Orderly, Typed, countRunning, At, Moves, Keeps, Labels, kernel
<1>2. running = 0 /\ id = 0 /\ running' = 1 /\ ~HasBegun
  BY <1>1 DEF countRunning, Orderly, OneByOne, HasBegun, Moves, Alone
<1>3. OneByOne' /\ HasBegun'
  BY <1>1, <1>2 DEF OneByOne, HasBegun, Moves, Alone, Booting, SettingUp, Starting, Late
<1>4. StackOK(0)'
  <2>1. StackOK(0)
    BY Zero DEF Orderly
  <2> QED BY <2>1, <1>1 DEF StackOK, Moves, Keeps
<1>5. ASSUME NEW c \in Others PROVE OtherOK(c)' /\ StackOK(c)'
  <2>1. c \in Nat /\ c # 0 /\ c \in Cores
    BY <1>5, Zero DEF Others
  <2>2. core'[c] = core[c] /\ core[c].pc = "off" /\ StackOK(c)
    BY <1>1, <1>2, <2>1, AllReady DEF Moves, OnlyMoves, Orderly
  <2>3. StackOK(c)'
    BY <2>2 DEF StackOK
  <2>4. ~(c <= id')
    BY <1>1, <1>2, <2>1
  <2> QED BY <1>1, <1>3, <2>2, <2>3, <2>4 DEF OtherOK, Moves, Starting, Late
<1>6. ReadyOK'
  BY <1>1 DEF Orderly, ReadyOK, HasBegun, Moves, Alone, Booting, SettingUp
<1>7. Typed'
  BY <1>1, <1>2 DEF Orderly, Typed, Moves
<1> QED BY <1>3, <1>4, <1>5, <1>6, <1>7, Zero DEF Orderly

LEMMA NextIdKeeps == ASSUME Orderly, nextId, halted = "no" PROVE Orderly'
<1> DEFINE to == IF id + 1 < config.totalProcs THEN "init" ELSE "paging"
<1>1. to \in {"init", "paging"} /\ Moves(0, "next", to) /\ Keeps(0)
      /\ UNCHANGED <<ready, halted, running, howManyAreHere>>
  <2>1. to \in Labels
    BY DEF Labels, Starting, Late
  <2>2. At(0, "next") /\ Go(0, to)
    BY DEF nextId
  <2> HIDE DEF to
  <2>3. Moves(0, "next", to) /\ Keeps(0)
    BY <2>1, <2>2, Zero, Goes DEF Orderly, Typed, At, Moves, Keeps
  <2>4. to \in {"init", "paging"}
    BY DEF to
  <2> QED BY <2>3, <2>4 DEF nextId, kernel
<1> HIDE DEF to
<1>2. id \in Nat /\ running = id + 1 /\ id' = id + 1 /\ HasBegun
  BY <1>1 DEF nextId, Orderly, Typed, OneByOne, Moves, HasBegun, Alone, Booting, SettingUp
<1>3. HasBegun'
  BY <1>1 DEF HasBegun, Moves, Alone, Booting, SettingUp
<1>4. ASSUME NEW c \in Others
      PROVE  /\ c \in Nat /\ core'[c] = core[c] /\ StackOK(c)' /\ (Counted(c)' <=> Counted(c))
             /\ IF c <= id THEN Counted(c) ELSE core[c].pc = "off"
  <2>1. c \in Nat /\ c # 0 /\ c \in Cores
    BY <1>4, Zero DEF Others
  <2>2. core'[c] = core[c] /\ StackOK(c) /\ OtherOK(c)
    BY <1>1, <2>1 DEF Moves, OnlyMoves, Orderly
  <2> QED BY <1>1, <2>1, <2>2 DEF StackOK, Counted, OtherOK, Moves
<1>5. ASSUME NEW c \in Others PROVE OtherOK(c)'
  <2>1. /\ c < id' => Counted(c)' /\ core'[c].pc # "wait"
        /\ c >= id' => core'[c].pc = "off"
        /\ core'[c].pc \in {"off", "enable"} \cup Late
    <3>1. c \in Nat /\ c < id' <=> c <= id
      BY <1>2, <1>4
    <3>2. c >= id' <=> ~(c <= id)
      BY <1>2, <1>4
    <3> QED BY <1>4, <3>1, <3>2 DEF Counted, Late
  <2>2. core'[0].pc = to /\ c \in Nat /\ id' \in Nat
    BY <1>1, <1>2, <1>4 DEF Moves
  <2> QED BY <1>1, <1>3, <2>1, <2>2 DEF OtherOK, Starting, Late
<1>6. OneByOne'
  <2>1. ASSUME NEW c \in Others, c = id' PROVE ~Counted(c)'
    <3>1. ~(c <= id) /\ core'[c].pc = "off"
      BY <1>2, <1>4, <2>1
    <3> QED BY <3>1 DEF Counted, Late
  <2>2. core'[0].pc = to /\ id' > 0 /\ running' = id'
    BY <1>1, <1>2 DEF Moves
  <2> QED BY <1>1, <1>3, <2>1, <2>2 DEF OneByOne, Starting, Late
<1>7. StackOK(0)'
  <2>1. StackOK(0)
    BY Zero DEF Orderly
  <2> QED BY <2>1, <1>1 DEF StackOK, Moves, Keeps
<1>8. Typed'
  BY <1>1, <1>2 DEF Orderly, Typed, Moves
<1> QED BY <1>1, <1>2, <1>3, <1>4, <1>5, <1>6, <1>7, <1>8, ReadyStays, Zero DEF Orderly

(* A step of core 0 that only changes what core id does.                   *)
LEMMA StartingKeeps ==
  ASSUME Orderly, NEW to \in {"start", "running"}, UNCHANGED <<ready, smp>>, HaltedOK,
         core[0].pc = IF to = "start" THEN "init" ELSE "start",
         core' \in [Cores -> CoreType], core'[0].pc = to, Keeps(0),
         \A c \in Others : c # id => core'[c] = core[c],
         \A c \in Others : c = id =>
            /\ core'[c].pc \in IF to = "start" THEN {"off", "wait"} ELSE {"off", "resetEIP"}
            /\ core'[c].stack = NoStack
  PROVE  Orderly'
<1>1. id \in Nat /\ id > 0 /\ HasBegun /\ HasBegun' /\ UNCHANGED <<id, running, howManyAreHere>>
  BY DEF Orderly, Typed, OneByOne, HasBegun, Starting, Alone, Booting, SettingUp, smp
<1>2. ASSUME NEW c \in Others PROVE OtherOK(c)' /\ StackOK(c)'
  <2>1. c \in Nat /\ c # 0 /\ c \in Cores
    BY <1>2, Zero DEF Others
  <2>2. OtherOK(c) /\ StackOK(c)
    BY <2>1, <1>2 DEF Orderly
  <2>3. CASE c = id
    <3>1. StackOK(c)'
      BY <1>2, <2>3 DEF StackOK
    <3>2. ~(c < id') /\ ~(c > id')
      BY <1>1, <2>1, <2>3
    <3> QED BY <1>1, <1>2, <2>3, <3>1, <3>2 DEF OtherOK, Late, Starting
  <2>4. CASE c # id
    <3>1. core'[c] = core[c] /\ StackOK(c)' /\ (Counted(c)' <=> Counted(c))
      BY <1>2, <2>2, <2>4 DEF StackOK, Counted
    <3>2. /\ c < id => Counted(c)
          /\ c > id => core[c].pc = "off"
      BY <2>2 DEF OtherOK, Starting
    <3>3. core[c].pc \in {"off", "enable"} \cup Late
      <4>1. c < id \/ c > id
        BY <1>1, <2>1, <2>4
      <4> QED BY <3>2, <4>1 DEF Counted
    <3> QED BY <1>1, <2>1, <2>4, <3>1, <3>2, <3>3 DEF OtherOK, Late, Starting
  <2> QED BY <2>3, <2>4
<1>3. OneByOne'
  <2>1. ASSUME NEW c \in Others, c = id PROVE ~Counted(c) /\ ~Counted(c)'
    <3>1. core[c].pc \in {"off", "wait"}
      BY <2>1 DEF Orderly, OtherOK
    <3> QED BY <2>1, <3>1 DEF Counted, Late
  <2>2. running = id
    BY <2>1 DEF Orderly, OneByOne, Starting
  <2> QED BY <1>1, <2>1, <2>2 DEF OneByOne, Starting, Late
<1>4. StackOK(0)'
  <2>1. StackOK(0)
    BY Zero DEF Orderly
  <2> QED BY <2>1 DEF StackOK, Keeps
<1>5. Typed'
  BY <1>1 DEF Orderly, Typed, HaltedOK
<1> QED BY <1>1, <1>2, <1>3, <1>4, <1>5, ReadyStays, Zero DEF Orderly

LEMMA IpiInitKeeps == ASSUME Orderly, ipiInit, halted = "no" PROVE Orderly'
<1>1. core \in [Cores -> CoreType] /\ 0 \in Cores /\ core[0] \in CoreType /\ id \in Nat
  BY Zero DEF Orderly, Typed
<1> DEFINE zero == [core[0] EXCEPT !.pc = "start"]
           waits == [pc |-> "wait", stack |-> NoStack, up |-> {}]
<1>2. zero \in CoreType /\ zero.pc = "start" /\ zero.stack = core[0].stack
  BY <1>1 DEF CoreType, Labels, Starting
<1>3. waits \in CoreType /\ waits.pc = "wait" /\ waits.stack = NoStack
  BY DEF CoreType, Labels, NoStack
<1>4. /\ core[0].pc = "init" /\ HaltedOK /\ UNCHANGED <<ready, smp>>
      /\ core' = [c \in Cores |-> IF c = 0 THEN zero
                                  ELSE IF c = id /\ id \in machine.answers THEN waits ELSE core[c]]
  BY DEF ipiInit, At, UsesApic, Uses, HaltedOK, kernel
<1> HIDE DEF zero, waits
<1>5. core' \in [Cores -> CoreType] /\ core'[0] = zero
  BY <1>1, <1>2, <1>3, <1>4
<1>6. ASSUME NEW c \in Others
      PROVE  /\ c # id => core'[c] = core[c]
             /\ c = id => core'[c] = core[c] \/ core'[c] = waits
  BY <1>4, <1>6, Zero DEF Others
<1>7. ASSUME NEW c \in Others, c = id
      PROVE  core'[c].pc \in {"off", "wait"} /\ core'[c].stack = NoStack
  <2>1. core[c].pc = "off" /\ core[c].stack = NoStack
    BY <1>4, <1>7 DEF Orderly, OtherOK, StackOK, Others
  <2> QED BY <1>3, <1>6, <1>7, <2>1
<1> QED BY <1>2, <1>4, <1>5, <1>6, <1>7, StartingKeeps DEF Keeps

LEMMA IpiStartKeeps == ASSUME Orderly, ipiStart, halted = "no" PROVE Orderly'
<1>1. core \in [Cores -> CoreType] /\ 0 \in Cores /\ core[0] \in CoreType /\ id \in Nat
  BY Zero DEF Orderly, Typed
<1> DEFINE zero == [core[0] EXCEPT !.pc = "running"]
           enters(c) == [core[c] EXCEPT !.pc = "resetEIP"]
<1>2. zero \in CoreType /\ zero.pc = "running" /\ zero.stack = core[0].stack
  BY <1>1 DEF CoreType, Labels, Starting
<1>3. ASSUME NEW c \in Cores
      PROVE  enters(c) \in CoreType /\ enters(c).pc = "resetEIP" /\ enters(c).stack = core[c].stack
  <2>1. core[c] \in CoreType
    BY <1>1
  <2> QED BY <2>1 DEF CoreType, Labels, Alone, Booting
<1>4. /\ core[0].pc = "start" /\ HaltedOK /\ UNCHANGED <<ready, smp>>
      /\ core' = [c \in Cores |-> IF c = 0 THEN zero
                                  ELSE IF c = id /\ core[c].pc = "wait" THEN enters(c) ELSE core[c]]
  BY DEF ipiStart, At, HaltedOK, kernel, Orderly, Typed
<1> HIDE DEF zero, enters
<1>5. core' \in [Cores -> CoreType] /\ core'[0] = zero
  BY <1>1, <1>2, <1>3, <1>4
<1>6. ASSUME NEW c \in Others
      PROVE  /\ c # id => core'[c] = core[c]
             /\ c = id => core'[c] = IF core[c].pc = "wait" THEN enters(c) ELSE core[c]
  BY <1>4, <1>6, Zero DEF Others
<1>7. ASSUME NEW c \in Others, c = id
      PROVE  core'[c].pc \in {"off", "resetEIP"} /\ core'[c].stack = NoStack
  <2>1. core[c].pc \in {"off", "wait"} /\ core[c].stack = NoStack /\ c \in Cores
    BY <1>4, <1>7 DEF Orderly, OtherOK, StackOK, Others
  <2> QED BY <1>3, <1>6, <1>7, <2>1
<1> QED BY <1>2, <1>4, <1>5, <1>6, <1>7, StartingKeeps DEF Keeps

LEMMA WaitRunningKeeps == ASSUME Orderly, waitRunning, halted = "no" PROVE Orderly'
<1>1. Moves(0, "running", "next") /\ Keeps(0) /\ UNCHANGED <<ready, halted, smp>>
  BY Zero, Goes DEF Orderly, Typed, waitRunning, At, Moves, Keeps, Labels, kernel
<1>2. /\ id \in Nat /\ running > id /\ HasBegun /\ HasBegun'
      /\ UNCHANGED <<id, running, howManyAreHere>>
  BY <1>1 DEF waitRunning, IsRunning, Orderly, Typed, HasBegun, Moves, Alone, Booting, SettingUp,
              Starting, smp
<1>3. running = id + 1 /\ \E c \in Others : c = id /\ Counted(c)
  BY <1>1, <1>2 DEF Orderly, OneByOne, Starting, Moves
<1>4. ASSUME NEW c \in Others PROVE OtherOK(c)' /\ StackOK(c)'
  <2>1. c \in Nat /\ c # 0 /\ c \in Cores
    BY <1>4, Zero DEF Others
  <2>2. core'[c] = core[c] /\ StackOK(c) /\ OtherOK(c)
    BY <1>1, <2>1 DEF Moves, OnlyMoves, Orderly
  <2>3. StackOK(c)' /\ (Counted(c)' <=> Counted(c))
    BY <2>2 DEF StackOK, Counted
  <2>4. IF c <= id THEN Counted(c) ELSE core[c].pc = "off"
    <3>1. c < id => Counted(c)
      BY <1>1, <2>2 DEF OtherOK, Moves, Starting
    <3>2. c > id => core[c].pc = "off"
      BY <1>1, <2>2 DEF OtherOK, Moves, Starting
    <3>3. c = id => Counted(c)
      BY <1>3
    <3> QED BY <1>2, <2>1, <3>1, <3>2, <3>3
  <2>5. core'[c].pc # "wait" /\ core'[c].pc \in {"off", "enable"} \cup Late
    BY <2>2, <2>4 DEF Counted, Late
  <2> QED BY <1>1, <1>2, <2>2, <2>3, <2>4, <2>5 DEF OtherOK, Moves, Starting, Late
<1>5. OneByOne'
  BY <1>1, <1>2, <1>3 DEF OneByOne, Moves, Starting, Late
<1>6. StackOK(0)'
  <2>1. StackOK(0)
    BY Zero DEF Orderly
  <2> QED BY <2>1, <1>1 DEF StackOK, Moves, Keeps
<1>7. Typed'
  BY <1>1, <1>2 DEF Orderly, Typed, Moves
<1> QED BY <1>1, <1>2, <1>4, <1>5, <1>6, <1>7, ReadyStays, Zero DEF Orderly

-----------------------------------------------------------------------------
(* The way of each core, from resetEIP on.                                 *)

(* A core that has been started and not counted is the one core 0 starts.  *)
LEMMA OnItsWay ==
  ASSUME Orderly, NEW c \in Others, core[c].pc \in {"resetEIP", "kk", "count"}
  PROVE  c = id /\ core[0].pc = "running" /\ running = id /\ HasBegun
<1>1. OtherOK(c) /\ OneByOne /\ c \in Nat /\ id \in Nat /\ HasBegun
  BY Zero, AllReady DEF Orderly, Typed, Others
<1>2. core[0].pc # "next" /\ core[0].pc \in Starting \cup Late
  BY <1>1 DEF OtherOK, Counted, Late, OneByOne, HasBegun
<1>3. c = id
  <2>1. ~(c < id) /\ ~(c > id)
    BY <1>1, <1>2 DEF OtherOK, Counted, Late
  <2> QED BY <1>1, <2>1
<1>4. core[0].pc = "running"
  BY <1>1, <1>2, <1>3 DEF OtherOK, Starting, Late
<1>5. ~Counted(c)
  BY DEF Counted, Late
<1> QED BY <1>1, <1>3, <1>4, <1>5 DEF OneByOne, Starting

LEMMA StartedMoves ==
  ASSUME Orderly, NEW c \in Others, NEW from, NEW to, Moves(c, from, to),
         \/ /\ from = "resetEIP" /\ to = "kk"
            /\ core'[c].stack = TempStack /\ UNCHANGED running
         \/ /\ from = "kk" /\ to = "count"
            /\ core'[c].stack = c /\ UNCHANGED running
         \/ /\ from = "count" /\ to = "enable"
            /\ core'[c].stack = c /\ running' = running + 1,
         UNCHANGED <<ready, id, howManyAreHere>>, HaltedOK
  PROVE  Orderly'
<1>1. from \in {"resetEIP", "kk", "count"} /\ core[c].pc = from /\ c \in Cores /\ c # 0
  BY DEF Moves, Others
<1>2. /\ c = id /\ core[0].pc = "running" /\ running = id /\ HasBegun
      /\ id \in Nat /\ howManyAreHere \in Nat
  BY <1>1, OnItsWay DEF Orderly, Typed
<1>3. core'[0] = core[0] /\ HasBegun'
  BY <1>1, <1>2, Zero DEF Moves, OnlyMoves, HasBegun
<1>4. StackOK(c)'
  BY <1>1 DEF StackOK, Moves
<1>5. OtherOK(c)'
  <2>1. ~(c < id') /\ ~(c > id')
    BY <1>2
  <2> QED BY <1>2, <1>3, <2>1 DEF OtherOK, Moves, Starting, Late
<1>6. ASSUME NEW d \in Others, d # c PROVE OtherOK(d)' /\ StackOK(d)' /\ (Counted(d)' <=> Counted(d))
  <2>1. core'[d] = core[d] /\ OtherOK(d) /\ StackOK(d)
    BY <1>6 DEF Moves, OnlyMoves, Orderly, Others
  <2> QED BY <1>2, <1>3, <2>1 DEF OtherOK, StackOK, Counted, HasBegun
<1>7. OneByOne'
  <2>1. Counted(c)' <=> to = "enable"
    BY DEF Counted, Moves, Late
  <2>2. running' = IF to = "enable" THEN id + 1 ELSE id
    BY <1>2
  <2>3. id > 0
    BY <1>2 DEF Orderly, OneByOne, Starting
  <2> QED BY <1>2, <1>3, <2>1, <2>2, <2>3 DEF OneByOne, Starting, Late
<1>8. StackOK(0)'
  <2>1. StackOK(0)
    BY Zero DEF Orderly
  <2> QED BY <2>1, <1>3 DEF StackOK
<1>9. Typed'
  BY <1>2 DEF Typed, Moves, HaltedOK
<1> QED BY <1>3, <1>4, <1>5, <1>6, <1>7, <1>8, <1>9, ReadyStays, Zero DEF Orderly

(* A core that has been counted sets up what it has for itself.            *)
LEMMA CountedMoves ==
  ASSUME Orderly, NEW c \in Cores, NEW from, NEW to \in Late,
         from \in Late \/ (c # 0 /\ from = "enable"),
         Moves(c, from, to), Keeps(c), UNCHANGED <<ready, id, running>>,
         howManyAreHere' \in Nat, HaltedOK
  PROVE  Orderly' /\ HasBegun
<1>1. id \in Nat /\ running \in Nat /\ HasBegun /\ HasBegun'
  <2>1. c # 0 => c \in Others /\ core[c].pc # "off" /\ core'[0] = core[0]
    BY Zero DEF Others, Moves, OnlyMoves, Late
  <2>2. c # 0 => HasBegun /\ HasBegun'
    BY <2>1, AllReady DEF HasBegun
  <2>3. c = 0 => HasBegun /\ HasBegun'
    BY DEF HasBegun, Moves, Late, Alone, Booting, SettingUp
  <2> QED BY <2>2, <2>3 DEF Orderly, Typed
<1>2. ASSUME NEW d \in Cores PROVE StackOK(d)'
  <2>1. StackOK(d)
    BY DEF Orderly
  <2>2. core'[d].stack = core[d].stack
    BY DEF Moves, OnlyMoves, Keeps
  <2>3. d = c => core[d].pc \notin {"off", "wait", "load", "resetEIP", "kk"}
                 /\ core'[d].pc \notin {"off", "wait", "load", "resetEIP", "kk"}
    BY DEF Moves, Late
  <2>4. d # c => core'[d].pc = core[d].pc
    BY DEF Moves, OnlyMoves
  <2> QED BY <2>1, <2>2, <2>3, <2>4 DEF StackOK
<1>3. ASSUME NEW d \in Others
      PROVE  /\ Counted(d)' <=> Counted(d)
             /\ core'[d] = core[d] \/ (core[d].pc \in {"enable"} \cup Late /\ core'[d].pc \in Late)
  <2>1. d \in Cores
    BY <1>3 DEF Others
  <2> QED BY <2>1 DEF Counted, Moves, OnlyMoves
<1>4. \/ core'[0].pc = core[0].pc
      \/ core[0].pc \in Late /\ core'[0].pc \in Late
  BY Zero DEF Moves, OnlyMoves
<1>5. OneByOne'
  <2>1. OneByOne
    BY DEF Orderly
  <2>2. CASE core'[0].pc = core[0].pc
    BY <1>1, <1>3, <2>1, <2>2 DEF OneByOne, HasBegun
  <2>3. CASE core[0].pc \in Late /\ core'[0].pc \in Late
    BY <1>1, <1>3, <2>1, <2>3 DEF OneByOne, Late, Starting
  <2> QED BY <1>4, <2>2, <2>3
<1>6. ASSUME NEW d \in Others PROVE OtherOK(d)'
  <2>1. OtherOK(d) /\ OneByOne /\ d \in Nat
    BY Zero DEF Orderly, Others
  <2>2. CASE core'[d] = core[d]
    <3>1. CASE core'[0].pc = core[0].pc
      BY <1>1, <1>3, <2>1, <2>2, <3>1 DEF OtherOK, HasBegun
    <3>2. CASE core[0].pc \in Late /\ core'[0].pc \in Late
      BY <1>1, <1>3, <2>1, <2>2, <3>2 DEF OtherOK, Late, Starting
    <3> QED BY <1>4, <3>1, <3>2
  <2>3. CASE core[d].pc \in {"enable"} \cup Late /\ core'[d].pc \in Late
    <3>1. core[d].pc # "off" /\ core[d].pc # "wait" /\ core'[d].pc # "off" /\ core'[d].pc # "wait"
          /\ Counted(d) /\ Counted(d)'
      BY <2>3 DEF Counted, Late
    <3>2. d # 0 /\ (d = c => core'[0] = core[0])
      BY <1>3, Zero DEF Others, Moves, OnlyMoves
    <3>3. CASE core'[0].pc = core[0].pc
      BY <1>1, <2>1, <2>3, <3>1, <3>3 DEF OtherOK
    <3>4. CASE core[0].pc \in Late /\ core'[0].pc \in Late
      BY <1>1, <2>1, <2>3, <3>1, <3>4 DEF OtherOK, Late, Starting
    <3> QED BY <1>4, <3>3, <3>4
  <2> QED BY <1>3, <2>2, <2>3
<1>7. ReadyOK'
  BY <1>1, ReadyStays
<1>8. Typed'
  BY <1>1 DEF Orderly, Typed, Moves, HaltedOK
<1> QED BY <1>1, <1>2, <1>5, <1>6, <1>7, <1>8 DEF Orderly

LEMMA EnterKeeps ==
  ASSUME Orderly, NEW c \in Cores, resetEIP(c), halted = "no" PROVE Orderly'
<1>1. core \in [Cores -> CoreType] /\ core[c] \in CoreType
  BY DEF Orderly, Typed
<1> DEFINE r == [core[c] EXCEPT !.pc = "kk", !.stack = TempStack]
<1>2. r \in CoreType /\ r.pc = "kk" /\ r.stack = TempStack
  <2>1. TempStack \in Int
    BY StartUpAssumption DEF TempStack
  <2> QED BY <1>1, <2>1 DEF CoreType, Labels, Alone, Booting
<1>3. /\ core' = [core EXCEPT ![c] = r]
      /\ core[c].pc = "resetEIP" /\ HaltedOK /\ UNCHANGED <<ready, smp>>
  BY DEF resetEIP, At, HaltedOK, kernel
<1> HIDE DEF r
<1>4. Moves(c, "resetEIP", "kk") /\ core'[c].stack = TempStack
  BY <1>1, <1>2, <1>3 DEF Moves, OnlyMoves
<1>5. CASE c = 0
  <2>1. ReadyOK'
    BY <1>3, <1>4, <1>5 DEF Orderly, ReadyOK, HasBegun, Moves, Alone, Booting, SettingUp
  <2>2. StackOK(0)'
    BY <1>4, <1>5 DEF StackOK, Moves
  <2> QED
    BY <1>3, <1>4, <1>5, <2>1, <2>2, AloneMoves, Zero
       DEF Orderly, Typed, Moves, HaltedOK, Alone, Booting
<1>6. CASE c # 0
  BY <1>3, <1>4, <1>6, StartedMoves, Zero DEF smp
<1> QED BY <1>5, <1>6

LEMMA PickKeeps ==
  ASSUME Orderly, NEW c \in Cores, pickKernelStack(c), halted = "no" PROVE Orderly'
<1>1. core \in [Cores -> CoreType] /\ core[c] \in CoreType
  BY DEF Orderly, Typed
<1> DEFINE r == [core[c] EXCEPT !.stack = IF smpInitDone THEN c ELSE 0,
                                !.pc = IF smpInitDone THEN "count" ELSE "config"]
<1>2. /\ r \in CoreType
      /\ r.pc = IF smpInitDone THEN "count" ELSE "config"
      /\ r.stack = IF smpInitDone THEN c ELSE 0
  <2>1. c \in Int /\ 0 \in Int
    BY Zero
  <2> QED BY <1>1, <2>1 DEF CoreType, Labels, Alone, SettingUp
<1>3. /\ core' = [core EXCEPT ![c] = r]
      /\ core[c].pc = "kk" /\ HaltedOK /\ UNCHANGED <<ready, smp>>
  BY DEF pickKernelStack, At, HaltedOK, kernel, UsesApic, Uses
<1> HIDE DEF r
<1>4. core'[c] = r /\ core' \in [Cores -> CoreType] /\ OnlyMoves(c)
  BY <1>1, <1>2, <1>3 DEF OnlyMoves
<1>5. CASE c = 0
  <2>1. ~smpInitDone
    BY <1>3, <1>5 DEF smpInitDone, Orderly, ReadyOK, Booting
  <2>2. Moves(0, "kk", "config") /\ core'[0].stack = 0
    BY <1>2, <1>3, <1>4, <1>5, <2>1 DEF Moves
  <2>3. ReadyOK'
    BY <1>3, <2>2 DEF Orderly, ReadyOK, HasBegun, Moves, Alone, Booting, SettingUp
  <2>4. StackOK(0)'
    BY <2>2 DEF StackOK, Moves
  <2> QED
    BY <1>3, <2>2, <2>3, <2>4, AloneMoves, Zero
       DEF Orderly, Typed, Moves, HaltedOK, Alone, Booting, SettingUp
<1>6. CASE c # 0
  <2>1. c \in Others /\ smpInitDone
    BY <1>3, <1>6, Zero, AllReady DEF Everything, smpInitDone
  <2>2. Moves(c, "kk", "count") /\ core'[c].stack = c
    BY <1>2, <1>3, <1>4, <2>1 DEF Moves
  <2> QED BY <1>3, <2>1, <2>2, StartedMoves DEF smp
<1> QED BY <1>5, <1>6

LEMMA CountKeeps ==
  ASSUME Orderly, NEW c \in Cores, countRunning(c), halted = "no" PROVE Orderly'
<1>1. CASE c = 0
  BY <1>1, CountsItself
<1>2. CASE c # 0
  <2>1. Go(c, "enable") /\ c \in Others /\ core[c].pc = "count"
        /\ UNCHANGED <<ready, id, howManyAreHere, halted>> /\ running' = running + 1
    BY <1>2, Zero DEF countRunning, At, kernel
  <2>2. Moves(c, "count", "enable") /\ Keeps(c)
    BY <2>1, Goes DEF Orderly, Typed, Moves, Keeps, Labels
  <2>3. core'[c].stack = c
    BY <2>1, <2>2 DEF Orderly, StackOK, Keeps
  <2> QED BY <2>1, <2>2, <2>3, StartedMoves DEF HaltedOK
<1> QED BY <1>1, <1>2

LEMMA EnableKeeps ==
  ASSUME Orderly, NEW c \in Cores, enableLapic(c), halted = "no" PROVE Orderly' /\ HasBegun
<1>1. Go(c, "paging") /\ core[c].pc = "enable" /\ HaltedOK /\ UNCHANGED <<ready, smp>>
  BY DEF enableLapic, At, UsesApic, Uses, HaltedOK, kernel
<1>2. c # 0
  BY <1>1 DEF Orderly, OneByOne, Alone, Booting, SettingUp, Starting, Late
<1>3. Moves(c, "enable", "paging") /\ Keeps(c)
  BY <1>1, Goes DEF Orderly, Typed, Moves, Keeps, Labels, Late
<1> QED
  BY <1>1, <1>2, <1>3, CountedMoves DEF smp, Orderly, Typed, Late

LEMMA OwnKeeps ==
  ASSUME Orderly, NEW c \in Cores, NEW label \in Late, NEW part \in OwnParts, NEW then \in Late,
         Own(c, label, part, then), HaltedOK
  PROVE  Orderly' /\ HasBegun
<1>1. core[c].pc = label /\ UNCHANGED <<ready, smp>>
  BY DEF Own, At, kernel
<1>2. core \in [Cores -> CoreType] /\ then \in Labels
  BY DEF Orderly, Typed, Labels
<1>3. Moves(c, label, then) /\ Keeps(c)
  BY <1>1, <1>2, GoesOwn DEF Moves, Keeps
<1> QED BY <1>1, <1>3, CountedMoves DEF smp, Orderly, Typed

LEMMA ArriveKeeps ==
  ASSUME Orderly, NEW c \in Cores, arrive(c) PROVE Orderly' /\ HasBegun
<1>1. Go(c, "stop") /\ core[c].pc = "here" /\ HaltedOK /\ UNCHANGED <<ready, running, id>>
      /\ howManyAreHere' = howManyAreHere + 1
  BY DEF arrive, At, Uses, HaltedOK, kernel
<1>2. Moves(c, "here", "stop") /\ Keeps(c)
  BY <1>1, Goes DEF Orderly, Typed, Moves, Keeps, Labels, Late
<1> QED BY <1>1, <1>2, CountedMoves DEF Orderly, Typed, Late

(* Each core for itself, when all is ready.                                *)
LEMMA LateKeeps ==
  ASSUME Orderly, NEW c \in Cores, halted = "no",
         \/ per_core_init(c) \/ pitInit(c) \/ loadTss(c) \/ enableInterrupts(c) \/ arrive(c)
         \/ enableLapic(c)
  PROVE  Orderly' /\ HasBegun
<1> USE DEF Uses, UsesApic, HaltedOK, Late, OwnParts
<1>1. CASE per_core_init(c)
  BY <1>1, OwnKeeps DEF per_core_init
<1>2. CASE pitInit(c)
  BY <1>2, OwnKeeps DEF pitInit
<1>3. CASE loadTss(c)
  BY <1>3, OwnKeeps DEF loadTss
<1>4. CASE enableInterrupts(c)
  BY <1>4, OwnKeeps DEF enableInterrupts
<1>5. CASE arrive(c)
  BY <1>5, ArriveKeeps
<1>6. CASE enableLapic(c)
  BY <1>6, EnableKeeps
<1> QED BY <1>1, <1>2, <1>3, <1>4, <1>5, <1>6

(* kernelMain() and the driver change nothing of this.                     *)
LEMMA OrderlyElsewhere ==
  ASSUME Orderly, UNCHANGED <<core, smp, ready>>, HaltedOK PROVE Orderly'
BY DEF Orderly, Typed, OneByOne, ReadyOK, OtherOK, StackOK, HasBegun, Counted, smp, HaltedOK

LEMMA MainKeeps == ASSUME Orderly, MainStep, halted = "no" PROVE Orderly'
<1>1. UNCHANGED <<core, smp, ready>> /\ HaltedOK
  BY DEF MainStep, ToMain, kernelMain, pci_init, mount, load, kernel, HaltedOK
<1> QED BY <1>1, OrderlyElsewhere

LEMMA OrderlyInductive == Orderly /\ [Next]_vars => Orderly'
<1> SUFFICES ASSUME Orderly, [Next]_vars PROVE Orderly'
  OBVIOUS
<1>1. CASE UNCHANGED vars
  <2>1. UNCHANGED <<core, smp, ready>> /\ HaltedOK
    BY <1>1 DEF vars, startVars, kernel, HaltedOK, Orderly, Typed
  <2> QED BY <2>1, OrderlyElsewhere
<1>2. CASE Driver
  <2>1. UNCHANGED <<core, smp, ready>> /\ HaltedOK
    BY <1>2 DEF Driver, kernel, HaltedOK
  <2> QED BY <2>1, OrderlyElsewhere
<1>3. CASE halted = "no" /\ BootStep
  BY <1>3, ReadSectorKeeps, SetUpKeeps, NextIdKeeps, IpiInitKeeps, IpiStartKeeps, WaitRunningKeeps
     DEF BootStep
<1>4. ASSUME NEW c \in Cores, halted = "no", CoreStep(c) PROVE Orderly'
  BY <1>4, EnterKeeps, PickKeeps, CountKeeps, LateKeeps DEF CoreStep
<1>5. CASE halted = "no" /\ MainStep
  BY <1>5, MainKeeps
<1> QED BY <1>1, <1>2, <1>3, <1>4, <1>5 DEF Next, StartNext

LEMMA OrderlyAtFirst == Init => Orderly
<1> SUFFICES ASSUME StartInit PROVE Orderly
  BY DEF Init
<1>1. /\ core = [c \in Cores |-> [pc |-> IF c = 0 THEN "load" ELSE "off", stack |-> NoStack, up |-> {}]]
      /\ running = 0 /\ id = 0 /\ howManyAreHere = 0 /\ ready = {} /\ halted = "no"
  BY DEF StartInit
<1>2. ASSUME NEW c \in Cores
      PROVE  /\ core[c] \in CoreType /\ core[c].stack = NoStack
             /\ core[c].pc = IF c = 0 THEN "load" ELSE "off"
  <2> DEFINE label == IF c = 0 THEN "load" ELSE "off"
  <2>1. core[c] = [pc |-> label, stack |-> NoStack, up |-> {}]
    BY <1>1
  <2>2. label \in Labels /\ NoStack \in Int
    BY DEF Labels, Alone, Booting, NoStack
  <2>3. core[c] \in CoreType /\ core[c].stack = NoStack /\ core[c].pc = label
    <3> HIDE DEF label
    <3> QED BY <2>1, <2>2 DEF CoreType
  <2> QED BY <2>3
<1>3. core \in [Cores -> CoreType]
  <2>1. core = [c \in Cores |-> core[c]]
    BY <1>1
  <2> QED BY <1>2, <2>1
<1>4. core[0].pc = "load" /\ ~HasBegun
  BY <1>2, Zero DEF HasBegun, Alone, Booting
<1>5. OneByOne /\ ReadyOK
  BY <1>1, <1>4 DEF OneByOne, ReadyOK, Alone, Booting, SettingUp, Starting, Late
<1>6. \A c \in Others : OtherOK(c)
  BY <1>2, <1>4, Zero DEF OtherOK, Others, Starting, Late
<1>7. \A c \in Cores : StackOK(c)
  BY <1>2 DEF StackOK
<1> QED BY <1>1, <1>3, <1>5, <1>6, <1>7 DEF Orderly, Typed

(* What is asked of the stacks follows from where the cores are.           *)
LEMMA OrderlyStacks == Orderly => OwnStack
<1> SUFFICES ASSUME Orderly, NEW c \in Cores, NEW d \in Cores, c # d, core[c].stack # NoStack,
                    core[c].stack = core[d].stack
             PROVE  FALSE
  BY DEF OwnStack
<1>1. StackOK(c) /\ StackOK(d)
  BY DEF Orderly
<1>2. /\ TempStack \notin Cores /\ NoStack \notin Cores /\ TempStack # NoStack
  BY StartUpAssumption DEF TempStack, NoStack, Cores
<1>3. core[c].pc = "kk" /\ core[d].pc = "kk"
  BY <1>1, <1>2 DEF StackOK
<1>4. ASSUME NEW e \in Others, core[e].pc = "kk" PROVE e = id /\ core[0].pc # "kk"
  BY <1>4, OnItsWay
<1> QED BY <1>3, <1>4, Zero

(* Always, core 0 has set up what it depends on, and starts the others one *)
(* by one: pickKernelStack() of a core runs when no other core does it     *)
(* (mbr.S:159, smp.cc:116).                                                *)
THEOREM AlwaysOrderly == Spec => []Orderly
BY OrderlyAtFirst, OrderlyInductive, PTL DEF Spec

(* No two cores are on the same stack, however many there are and whatever *)
(* the tables of the machine say.                                          *)
THEOREM StacksAreOwn == Spec => []OwnStack
BY AlwaysOrderly, OrderlyStacks, PTL

-----------------------------------------------------------------------------
(* Nothing is used before it is there.                                     *)

LEMMA SameMachine == [Next]_vars => UNCHANGED machine
<1>1. BootStep => UNCHANGED machine
  BY DEF BootStep, ReadSector, configInit, heapInit, newUart, globalConstructors, physMemInit,
         global_init, sysInit, threadsInit, lapicInit, setDone, calibrate, nextId, ipiInit,
         ipiStart, waitRunning, Initialise, hardware
<1>2. \A c \in Cores : CoreStep(c) => UNCHANGED machine
  BY DEF CoreStep, resetEIP, pickKernelStack, countRunning, enableLapic, per_core_init, pitInit,
         loadTss, enableInterrupts, arrive, Own, hardware
<1>3. MainStep => UNCHANGED machine
  BY DEF MainStep, kernelMain, pci_init, mount, load, ToMain, hardware
<1>4. Driver \/ UNCHANGED vars => UNCHANGED machine
  BY DEF Driver, vars, startVars, hardware
<1> QED BY <1>1, <1>2, <1>3, <1>4 DEF Next, StartNext

(* What is selected from the tables is a function of the machine.          *)
OthersIn(m) == SelectSeq(Tail(m.table) \o <<m.behind>>, IsOther)
DevicesIn(m) == SelectSeq(m.functions, HasVendor)

LEMMA SameTables ==
  ASSUME [Next]_vars
  PROVE  OtherProcs' = OtherProcs /\ PciDevices' = PciDevices /\ (Fits => Fits')
<1>1. OthersIn(machine') = OthersIn(machine) /\ DevicesIn(machine') = DevicesIn(machine)
  BY SameMachine
<1>2. OtherProcs = OthersIn(machine)
  BY DEF OtherProcs, OthersIn
<1>3. OtherProcs' = OthersIn(machine')
  BY DEF OtherProcs, OthersIn
<1>4. PciDevices = DevicesIn(machine)
  BY DEF PciDevices, DevicesIn
<1>5. PciDevices' = DevicesIn(machine')
  BY DEF PciDevices, DevicesIn
<1> QED BY <1>1, <1>2, <1>3, <1>4, <1>5 DEF Fits

(* What a step uses is there.                                              *)
LEMMA BootUses ==
  ASSUME Orderly, Fits, BootStep, halted = "no" PROVE halted' # "fault"
<1> USE DEF At, Initialise, Uses, UsesApic, Booting, SettingUp, Orderly, ReadyOK
<1>1. CASE configInit
  <2>1. Len(OtherProcs) \in 0..(MaxProcs - 1)
    BY DEF Fits
  <2>2. ~(Len(OtherProcs) > MaxProcs)
    BY <2>1, StartUpAssumption
  <2> QED BY <1>1, <2>2 DEF configInit
<1>2. CASE \/ ReadSector \/ globalConstructors \/ nextId \/ ipiStart \/ waitRunning
  BY <1>2 DEF ReadSector, globalConstructors, nextId, ipiStart, waitRunning
<1>3. CASE heapInit \/ newUart \/ physMemInit \/ global_init
  BY <1>3 DEF heapInit, newUart, physMemInit, global_init
<1>4. CASE sysInit \/ threadsInit \/ lapicInit \/ setDone
  BY <1>4 DEF sysInit, threadsInit, lapicInit, setDone
<1>5. CASE calibrate
  BY <1>5 DEF calibrate
<1>6. CASE ipiInit
  BY <1>6 DEF ipiInit
<1> QED BY <1>1, <1>2, <1>3, <1>4, <1>5, <1>6 DEF BootStep

LEMMA CoreUses ==
  ASSUME Orderly, NEW c \in Cores, CoreStep(c), halted = "no" PROVE halted' # "fault"
<1>1. HasBegun => Everything \subseteq ready
  BY AllReady
<1> USE DEF Uses, UsesApic, Everything
<1>2. CASE resetEIP(c) \/ countRunning(c)
  BY <1>2 DEF resetEIP, countRunning
<1>3. CASE pickKernelStack(c)
  <2>1. smpInitDone => "lapic" \in ready
    BY DEF smpInitDone, Orderly, ReadyOK, SettingUp
  <2> QED BY <1>3, <2>1 DEF pickKernelStack
<1>4. CASE \/ per_core_init(c) \/ pitInit(c) \/ loadTss(c) \/ enableInterrupts(c) \/ arrive(c)
           \/ enableLapic(c)
  <2>1. Everything \subseteq ready
    BY <1>1, <1>4, LateKeeps
  <2> QED
    BY <1>4, <2>1 DEF per_core_init, pitInit, loadTss, enableInterrupts, arrive, enableLapic
<1> QED BY <1>2, <1>3, <1>4 DEF CoreStep

LEMMA MainUses == ASSUME Fits, MainStep, halted = "no" PROVE halted' # "fault"
<1>1. CASE pci_init
  <2> DEFINE n == Len(PciDevices)
  <2>1. n \in 0..PciSlots
    BY DEF Fits
  <2>2. /\ devices' = n
        /\ halted' = IF devices' > PciSlots THEN "fault" ELSE "no"
    BY <1>1 DEF pci_init
  <2> HIDE DEF n
  <2> QED BY <2>1, <2>2, StartUpAssumption
<1>2. CASE kernelMain \/ mount \/ load
  BY <1>2 DEF kernelMain, mount, load
<1> QED BY <1>1, <1>2 DEF MainStep

LEMMA NoFault == Orderly /\ Fits /\ halted # "fault" /\ [Next]_vars => halted' # "fault"
<1> SUFFICES ASSUME Orderly, Fits, halted # "fault", [Next]_vars PROVE halted' # "fault"
  OBVIOUS
<1>1. Driver \/ UNCHANGED vars => halted' # "fault"
  BY DEF Driver, vars, startVars
<1> QED BY <1>1, BootUses, CoreUses, MainUses DEF Next, StartNext

-----------------------------------------------------------------------------
(* Where a step takes a core.                                              *)

Early == Labels \ {"load", "pit", "tss", "sti", "here", "stop"}

(* No core is at the loader, sets up what it has for itself, or arrives.   *)
Calm ==
  \A c \in Cores :
    \/ core'[c] = core[c]
    \/ /\ core[c].pc \in Early /\ core'[c].pc \in Early
       /\ core'[c].up = core[c].up \/ core'[c].up = {}

(* One of the actions that the lemmas below treat by themselves.           *)
OwnStep(c) == per_core_init(c) \/ pitInit(c) \/ loadTss(c) \/ enableInterrupts(c)

LEMMA CalmIfGoes ==
  ASSUME Orderly, NEW c \in Cores, NEW label \in Early, core[c].pc \in Early, Go(c, label)
  PROVE  Calm
<1>1. OnlyMoves(c) /\ core'[c].pc = label /\ core'[c].up = core[c].up
  BY Goes DEF Orderly, Typed, Early
<1> QED BY <1>1 DEF Calm, OnlyMoves

LEMMA BootIsCalm ==
  ASSUME Orderly, BootStep, ~ReadSector PROVE Calm /\ UNCHANGED <<memory, loop>>
<1> DEFINE Set == {"config", "heap", "uart", "crt", "physmem", "vmm", "sys", "threads", "lapic",
                   "done", "calibrate", "count", "next", "running", "init", "start", "paging"}
<1>1. \A l \in Set : l \in Early
  BY DEF Early, Labels, Alone, Booting, SettingUp, Starting, Late
<1>2. ASSUME NEW from \in Set, NEW to \in Set, core[0].pc = from, Go(0, to) PROVE Calm
  <2> HIDE DEF Set
  <2> QED BY <1>1, <1>2, CalmIfGoes, Zero
<1> USE DEF At, hardware
<1>3. CASE \/ configInit \/ heapInit \/ newUart \/ globalConstructors \/ physMemInit
           \/ global_init
  BY <1>2, <1>3 DEF configInit, heapInit, newUart, globalConstructors, physMemInit, global_init,
                    Initialise
<1>4. CASE sysInit \/ threadsInit \/ lapicInit \/ setDone \/ calibrate
  BY <1>2, <1>4 DEF sysInit, threadsInit, lapicInit, setDone, calibrate, Initialise
<1>5. CASE nextId \/ waitRunning
  <2> DEFINE to == IF id + 1 < config.totalProcs THEN "init" ELSE "paging"
  <2>1. CASE nextId
    <3>1. to \in Set /\ core[0].pc = "next" /\ Go(0, to) /\ UNCHANGED <<memory, loop>>
      BY <2>1 DEF nextId
    <3> HIDE DEF to
    <3> QED BY <1>2, <3>1
  <2>2. CASE waitRunning
    BY <1>2, <2>2 DEF waitRunning
  <2> QED BY <1>5, <2>1, <2>2
<1>6. CASE ipiInit \/ ipiStart
  <2>1. core[0].pc \in Set /\ UNCHANGED <<memory, loop>>
    BY <1>6 DEF ipiInit, ipiStart
  <2>2. core'[0].pc \in Set /\ core'[0].up = core[0].up
    <3>1. core[0] \in CoreType /\ 0 \in Cores
      BY Zero DEF Orderly, Typed
    <3> DEFINE r == [core[0] EXCEPT !.pc = "start"]
               s == [core[0] EXCEPT !.pc = "running"]
    <3>2. r.pc = "start" /\ s.pc = "running" /\ r.up = core[0].up /\ s.up = core[0].up
      BY <3>1 DEF CoreType
    <3>3. core'[0] = r \/ core'[0] = s
      BY <1>6, <3>1 DEF ipiInit, ipiStart
    <3> HIDE DEF r, s
    <3> QED BY <3>2, <3>3
  <2>3. ASSUME NEW c \in Others, core'[c] # core[c]
        PROVE  /\ core[c].pc \in {"off", "wait"} /\ core'[c].pc \in {"wait", "resetEIP"}
               /\ core'[c].up = core[c].up \/ core'[c].up = {}
    <3>1. c \in Cores /\ c # 0 /\ OtherOK(c)
      BY <2>3 DEF Others, Orderly
    <3>2. CASE ipiInit
      <4>1. core[0].pc = "init" /\ c = id /\ core'[c] = [pc |-> "wait", stack |-> NoStack, up |-> {}]
        BY <2>3, <3>1, <3>2 DEF ipiInit
      <4> QED BY <3>1, <4>1 DEF OtherOK
    <3>3. CASE ipiStart
      <4>1. core[c].pc = "wait" /\ core'[c] = [core[c] EXCEPT !.pc = "resetEIP"]
        BY <2>3, <3>1, <3>3 DEF ipiStart
      <4>2. core[c] \in CoreType
        BY <3>1 DEF Orderly, Typed
      <4> QED BY <4>1, <4>2 DEF CoreType
    <3> QED BY <1>6, <3>2, <3>3
  <2>4. {"off", "wait", "resetEIP"} \subseteq Early
    BY DEF Early, Labels, Alone, Booting
  <2> QED BY <1>1, <2>1, <2>2, <2>3, <2>4, Zero DEF Calm, Others
<1> QED BY <1>3, <1>4, <1>5, <1>6 DEF BootStep

LEMMA CoreIsCalm ==
  ASSUME Orderly, NEW c \in Cores, CoreStep(c), ~OwnStep(c), ~arrive(c)
  PROVE  Calm /\ UNCHANGED <<memory, loop>>
<1>1. CASE resetEIP(c) \/ pickKernelStack(c)
  <2>1. core[c] \in CoreType /\ core \in [Cores -> CoreType]
    BY DEF Orderly, Typed
  <2>2. core[c].pc \in {"resetEIP", "kk"} /\ OnlyMoves(c) /\ UNCHANGED <<memory, loop>>
    BY <1>1, <2>1 DEF resetEIP, pickKernelStack, At, OnlyMoves, hardware
  <2>3. core'[c].pc \in {"kk", "config", "count"} /\ core'[c].up = core[c].up
    BY <1>1, <2>1 DEF resetEIP, pickKernelStack, CoreType
  <2>4. {"resetEIP", "kk", "config", "count"} \subseteq Early
    BY DEF Early, Labels, Alone, Booting, SettingUp
  <2> QED BY <2>2, <2>3, <2>4 DEF Calm, OnlyMoves
<1>2. CASE countRunning(c) \/ enableLapic(c)
  <2> DEFINE to == IF c = 0 THEN "next" ELSE "enable"
  <2>1. {"count", "next", "enable", "paging"} \subseteq Early
    BY DEF Early, Labels, Alone, Late
  <2>2. core[c].pc \in {"count", "enable"} /\ (Go(c, to) \/ Go(c, "paging"))
        /\ UNCHANGED <<memory, loop>>
    BY <1>2 DEF countRunning, enableLapic, At, hardware
  <2>3. to \in {"next", "enable"}
    OBVIOUS
  <2> HIDE DEF to
  <2> QED BY <2>1, <2>2, <2>3, CalmIfGoes
<1> QED BY <1>1, <1>2 DEF CoreStep, OwnStep

(* What a core has for itself goes with its place.                         *)
LEMMA LateGoes ==
  ASSUME Orderly, NEW c \in Cores, OwnStep(c) \/ arrive(c)
  PROVE  /\ OnlyMoves(c) /\ core[c].pc \in Late /\ core'[c].pc \in Late
         /\ core[c].pc # "stop" /\ (core'[c].pc = "stop" <=> arrive(c))
         /\ UpOK(c) => UpOK(c)'
         /\ UNCHANGED <<memory, loop>>
<1>1. core \in [Cores -> CoreType] /\ Late \subseteq Labels
  BY DEF Orderly, Typed, Labels
<1>2. ASSUME NEW label \in Late, NEW part \in OwnParts, NEW then \in Late \ {"stop"},
             Own(c, label, part, then), UpAt(then) = UpAt(label) \cup {part},
             label \in {"paging", "pit", "tss", "sti"}
      PROVE  /\ OnlyMoves(c) /\ core[c].pc = label /\ core'[c].pc = then
             /\ UpOK(c) => UpOK(c)'
             /\ UNCHANGED <<memory, loop>> /\ ~arrive(c)
  <2>1. then \in Labels /\ core[c].pc = label
    BY <1>1, <1>2 DEF Own, At
  <2>2. OnlyMoves(c) /\ core'[c].pc = then /\ core'[c].up = core[c].up \cup {part}
    BY <1>1, <1>2, <2>1, GoesOwn
  <2>3. ~arrive(c) /\ UNCHANGED <<memory, loop>>
    BY <1>2, <2>1 DEF arrive, At, Own, hardware
  <2>4. UpOK(c) => UpOK(c)'
    BY <1>2, <2>1, <2>2 DEF UpOK
  <2> QED BY <2>1, <2>2, <2>3, <2>4
<1> USE DEF Late, OwnParts
<1>3. CASE per_core_init(c)
  BY <1>2, <1>3 DEF per_core_init, UpAt
<1>4. CASE pitInit(c)
  BY <1>2, <1>4 DEF pitInit, UpAt
<1>5. CASE loadTss(c)
  BY <1>2, <1>5 DEF loadTss, UpAt
<1>6. CASE enableInterrupts(c)
  BY <1>2, <1>6 DEF enableInterrupts, UpAt
<1>7. CASE arrive(c)
  <2>1. core[c].pc = "here" /\ Go(c, "stop") /\ UNCHANGED <<memory, loop>>
    BY <1>7 DEF arrive, At, hardware
  <2>2. OnlyMoves(c) /\ core'[c].pc = "stop" /\ core'[c].up = core[c].up
    BY <1>1, <2>1, Goes
  <2> QED BY <1>7, <2>1, <2>2 DEF UpOK, UpAt
<1> QED BY <1>3, <1>4, <1>5, <1>6, <1>7 DEF OwnStep

LEMMA ElseIsCalm ==
  MainStep \/ Driver \/ UNCHANGED vars => Calm /\ UNCHANGED <<memory, loop>>
BY DEF MainStep, kernelMain, pci_init, mount, load, ToMain, Driver, vars, startVars, hardware, Calm

-----------------------------------------------------------------------------
(* The loader.                                                             *)

LEMMA LoaderInductive ==
  ASSUME Orderly, LoaderOK, [Next]_vars PROVE LoaderOK'
<1>1. machine' = machine /\ machine.sectors \in Nat
  <2>1. machine.sectors \in 1..(CountW - 1)
    BY StartUpAssumption DEF LoaderOK
  <2> QED BY <2>1, SameMachine
<1>2. CASE ReadSector
  <2> DEFINE n == machine.sectors
             bp == loop.bp
             di == loop.di
             cx == (loop.cx - 1) % CountW
  <2>1. /\ n \in Nat /\ n < CountW /\ n <= Slots - LoadSlot + 1 /\ CountW \in Nat
        /\ Slots \in Int /\ LoadSlot \in Nat /\ LoadSlot > 0 /\ LoadSlot < Slots /\ CountW > 0
    <3>1. machine \in Machines
      BY DEF LoaderOK
    <3>2. n \in 1..(CountW - 1) /\ n <= Slots - LoadSlot + 1
      BY <3>1, StartUpAssumption
    <3>3. /\ Slots \in Int /\ LoadSlot \in 1..(Slots - 1) /\ CountW \in Nat /\ CountW # 0
      BY StartUpAssumption
    <3> HIDE DEF n
    <3> QED BY <3>2, <3>3
  <2>2. /\ bp \in 1..n /\ loop.cx = n - bp + 1 /\ (bp < n => di = LoadSlot + bp - 1)
        /\ Loaded(bp) /\ core[0].pc = "load"
    BY <1>2 DEF ReadSector, At, LoaderOK
  <2>3. cx = n - bp
    <3>1. n - bp \in 0..(CountW - 1) /\ loop.cx - 1 = n - bp
      <4> HIDE DEF n, bp
      <4> QED BY <2>1, <2>2
    <3>2. \A k \in 0..(CountW - 1) : k % CountW = k
      BY <2>1
    <3> QED BY <3>1, <3>2
  <2>4. CASE cx = 0
    <3>1. UNCHANGED <<memory, loop>> /\ Go(0, "resetEIP")
      BY <1>2, <2>4 DEF ReadSector, hardware
    <3>2. core'[0].pc = "resetEIP"
      BY <3>1, GoesReady DEF Labels, Alone, Booting
    <3>3. bp = n
      <4> HIDE DEF n, bp, cx
      <4> QED BY <2>1, <2>2, <2>3, <2>4
    <3>4. Loaded(n)'
      BY <1>1, <2>2, <3>1, <3>3 DEF Loaded
    <3> QED BY <1>1, <3>1, <3>2, <3>4 DEF LoaderOK
  <2>5. CASE cx # 0
    <3>1. /\ memory' = [memory EXCEPT ![di] = bp] /\ core' = core
          /\ loop' = [cx |-> cx, di |-> (di + 1) % Slots, bp |-> bp + 1]
      BY <1>2, <2>5 DEF ReadSector
    <3>2. /\ bp \in Nat /\ bp >= 1 /\ bp < n /\ di = LoadSlot + bp - 1
          /\ di \in 0..(Slots - 1) /\ n - (bp + 1) + 1 = cx /\ bp + 1 \in 1..n
      <4> HIDE DEF n, bp, cx, di
      <4> QED BY <2>1, <2>2, <2>3, <2>5
    <3>3. /\ loop'.cx = n - loop'.bp + 1 /\ loop'.bp = bp + 1
          /\ loop'.di = (di + 1) % Slots
      <4> HIDE DEF n, bp, cx, di
      <4> QED BY <3>1, <3>2
    <3>4. bp + 1 < n => (di + 1) % Slots = LoadSlot + (bp + 1) - 1
      <4>1. bp + 1 < n => di + 1 \in 0..(Slots - 1) /\ di + 1 = LoadSlot + (bp + 1) - 1
        <5> HIDE DEF n, bp, cx, di
        <5> QED BY <2>1, <3>2
      <4>2. \A k \in 0..(Slots - 1) : k % Slots = k
        BY <2>1
      <4> QED BY <4>1, <4>2
    <3>5. /\ memory' \in [0..(Slots - 1) -> Int] /\ memory'[di] = bp
          /\ \A s \in 0..(Slots - 1) : s # di => memory'[s] = memory[s]
      <4>1. memory \in [0..(Slots - 1) -> Int]
        BY DEF LoaderOK
      <4> HIDE DEF bp, di
      <4> QED BY <3>1, <3>2, <4>1
    <3>6. ASSUME NEW s \in 0..bp PROVE memory'[LoadSlot - 1 + s] = s
      <4>1. CASE s = bp
        <5>1. LoadSlot - 1 + s = di
          <6> HIDE DEF bp, di, n
          <6> QED BY <2>1, <3>2, <4>1
        <5> QED BY <3>5, <4>1, <5>1
      <4>2. CASE s # bp
        <5>1. /\ LoadSlot - 1 + s # di /\ s \in 0..(bp - 1)
              /\ LoadSlot - 1 + s \in 0..(Slots - 1)
          <6> HIDE DEF bp, di, n
          <6> QED BY <2>1, <3>2, <4>2
        <5> QED BY <2>2, <3>5, <5>1 DEF Loaded
      <4> QED BY <4>1, <4>2
    <3>7. \A s \in 0..(loop'.bp - 1) : memory'[LoadSlot - 1 + s] = s
      <4>1. loop'.bp - 1 = bp
        <5> HIDE DEF bp, n
        <5> QED BY <3>2, <3>3
      <4> QED BY <3>6, <4>1
    <3>8. LoadSlot' = LoadSlot /\ Loaded(loop.bp)'
      BY <3>7 DEF Loaded
    <3>9. loop'.bp \in 1..n /\ (loop'.bp < n => loop'.di = LoadSlot + loop'.bp - 1)
      BY <3>2, <3>3, <3>4
    <3> QED BY <1>1, <2>2, <3>1, <3>3, <3>5, <3>8, <3>9 DEF LoaderOK
  <2> QED BY <2>4, <2>5
<1>3. CASE ~ReadSector
  <2>1. UNCHANGED <<memory, loop>> /\ (core'[0].pc = "load" <=> core[0].pc = "load")
    <3>1. ASSUME NEW c \in Cores, OwnStep(c) \/ arrive(c)
          PROVE  UNCHANGED <<memory, loop>> /\ (core'[0].pc = "load" <=> core[0].pc = "load")
      BY <3>1, LateGoes, Zero DEF OnlyMoves, Late
    <3>2. Calm /\ UNCHANGED <<memory, loop>> => core'[0].pc = "load" <=> core[0].pc = "load"
      BY Zero DEF Calm, Early
    <3> QED
      BY <1>3, <3>1, <3>2, BootIsCalm, CoreIsCalm, ElseIsCalm DEF Next, StartNext
  <2> QED BY <1>1, <2>1 DEF LoaderOK, Loaded
<1> QED BY <1>2, <1>3

-----------------------------------------------------------------------------
(* Who has arrived.                                                        *)

LEMMA UpInductive ==
  ASSUME Orderly, \A c \in Cores : UpOK(c), [Next]_vars PROVE \A c \in Cores : UpOK(c)'
<1>1. ASSUME NEW c \in Cores, OwnStep(c) \/ arrive(c) PROVE \A d \in Cores : UpOK(d)'
  <2>1. UpOK(c)' /\ OnlyMoves(c)
    BY <1>1, LateGoes
  <2>2. \A d \in Cores : d # c => UpOK(d)'
    BY <2>1 DEF OnlyMoves, UpOK
  <2> QED BY <2>1, <2>2
<1>2. ASSUME Calm, NEW c \in Cores PROVE UpOK(c)'
  <2>1. UpOK(c)
    OBVIOUS
  <2>2. CASE core'[c] = core[c]
    BY <2>1, <2>2 DEF UpOK
  <2>3. CASE core[c].pc \in Early /\ core'[c].pc \in Early
             /\ (core'[c].up = core[c].up \/ core'[c].up = {})
    <3>1. UpAt(core[c].pc) = {} /\ UpAt(core'[c].pc) = {}
      BY <2>3 DEF UpAt, Early
    <3> QED BY <2>1, <2>3, <3>1 DEF UpOK
  <2> QED BY <1>2, <2>2, <2>3 DEF Calm
<1>3. ASSUME ReadSector, NEW c \in Cores PROVE UpOK(c)'
  <2>1. UpOK(c) /\ core[0].pc = "load"
    BY <1>3 DEF ReadSector, At
  <2>2. CASE UNCHANGED core
    BY <2>1, <2>2 DEF UpOK
  <2>3. CASE Go(0, "resetEIP")
    <3>1. OnlyMoves(0) /\ core'[0].pc = "resetEIP" /\ core'[0].up = core[0].up
      BY <2>3, Goes, Zero DEF Orderly, Typed, Labels, Alone, Booting
    <3> QED BY <2>1, <3>1 DEF OnlyMoves, UpOK, UpAt
  <2> QED BY <1>3, <2>2, <2>3 DEF ReadSector
<1> QED
  BY <1>1, <1>2, <1>3, BootIsCalm, CoreIsCalm, ElseIsCalm DEF Next, StartNext

(* Only arrive() adds to those who have stopped, and to the count.         *)
LEMMA WhoStops ==
  ASSUME Orderly, [Next]_vars, NEW c \in Cores
  PROVE  \/ core'[c].pc = "stop" <=> core[c].pc = "stop"
         \/ arrive(c)
<1>1. ASSUME NEW d \in Cores, OwnStep(d) \/ arrive(d)
      PROVE  (core'[c].pc = "stop" <=> core[c].pc = "stop") \/ arrive(c)
  <2>1. CASE d = c
    BY <1>1, <2>1, LateGoes
  <2>2. CASE d # c
    <3>1. core'[c] = core[c]
      BY <1>1, <2>2, LateGoes DEF OnlyMoves
    <3> QED BY <3>1
  <2> QED BY <2>1, <2>2
<1>2. Calm => (core'[c].pc = "stop" <=> core[c].pc = "stop")
  BY DEF Calm, Early
<1>3. ReadSector => (core'[c].pc = "stop" <=> core[c].pc = "stop")
  <2>1. CASE UNCHANGED core
    BY <2>1
  <2>2. CASE core[0].pc = "load" /\ Go(0, "resetEIP")
    <3>1. OnlyMoves(0) /\ core'[0].pc = "resetEIP"
      BY <2>2, Goes, Zero DEF Orderly, Typed, Labels, Alone, Booting
    <3> QED BY <2>2, <3>1 DEF OnlyMoves
  <2> QED BY <2>1, <2>2 DEF ReadSector, At
<1> QED
  BY <1>1, <1>2, <1>3, BootIsCalm, CoreIsCalm, ElseIsCalm DEF Next, StartNext

LEMMA NobodyArrives ==
  ASSUME Orderly, [Next]_vars, \A c \in Cores : ~arrive(c)
  PROVE  /\ Stopped' = Stopped /\ howManyAreHere' = howManyAreHere
         /\ main = "none" => main' = "none"
<1>1. Stopped' = Stopped
  BY WhoStops DEF Stopped
<1>2. BootStep => UNCHANGED <<howManyAreHere, main>>
  BY DEF BootStep, ReadSector, configInit, heapInit, newUart, globalConstructors, physMemInit,
         global_init, sysInit, threadsInit, lapicInit, setDone, calibrate, nextId, ipiInit,
         ipiStart, waitRunning, Initialise, smp, mainThread
<1>3. ASSUME NEW c \in Cores, CoreStep(c) PROVE UNCHANGED <<howManyAreHere, main>>
  BY <1>3 DEF CoreStep, resetEIP, pickKernelStack, countRunning, enableLapic, per_core_init,
              pitInit, loadTss, enableInterrupts, Own, smp, mainThread
<1>4. MainStep => UNCHANGED howManyAreHere /\ main # "none"
  BY DEF MainStep, kernelMain, pci_init, mount, load, ToMain, smp
<1>5. Driver \/ UNCHANGED vars => UNCHANGED <<howManyAreHere, main>>
  BY DEF Driver, vars, startVars, smp, mainThread
<1> QED BY <1>1, <1>2, <1>3, <1>4, <1>5 DEF Next, StartNext

(* Core 0 has passed one of its steps, or is where it was.                 *)
LEMMA TotalStays ==
  ASSUME Total, UNCHANGED <<id, config>>, OtherProcs' = OtherProcs,
         \/ core'[0].pc = core[0].pc
         \/ core[0].pc \in Booting /\ core'[0].pc \in Booting \cup {"config"}
         \/ /\ core[0].pc \in (SettingUp \ {"config"}) \cup {"calibrate"}
            /\ core'[0].pc \in SettingUp \cup {"calibrate", "count"}
         \/ core[0].pc \in Starting /\ core'[0].pc \in {"next"} \cup Starting
         \/ core[0].pc \in Late /\ core'[0].pc \in Late
  PROVE  Total'
BY DEF Total, Booting, SettingUp, Starting, Late

LEMMA TotalInductive ==
  ASSUME Orderly, Fits, Total, [Next]_vars PROVE Total'
<1>1. OtherProcs' = OtherProcs /\ Len(OtherProcs) \in Nat
  <2>1. Len(OtherProcs) \in 0..(MaxProcs - 1)
    BY DEF Fits
  <2>2. Len(OtherProcs) \in Nat
    <3> DEFINE n == Len(OtherProcs)
    <3> HIDE DEF n
    <3>1. n \in 0..(MaxProcs - 1)
      BY <2>1 DEF n
    <3>2. n \in Nat
      BY <3>1
    <3> QED BY <3>2 DEF n
  <2> QED BY <2>2, SameTables
<1>2. ASSUME NEW label \in Labels, Go(0, label) PROVE core'[0].pc = label
  BY <1>2, GoesReady
<1> USE DEF At
<1>3. CASE ReadSector
  <2>1. "resetEIP" \in Labels
    BY DEF Labels, Alone, Booting
  <2>2. core[0].pc = "load" /\ core'[0].pc \in {"load", "resetEIP"} /\ UNCHANGED <<id, config>>
    BY <1>2, <1>3, <2>1 DEF ReadSector, smp, kernel
  <2> QED BY <1>1, <2>2, TotalStays DEF Booting
<1>4. CASE configInit
  <2>1. core'[0].pc = "heap" /\ config'.totalProcs = Len(OtherProcs) + 1
    BY <1>2, <1>4 DEF configInit, Labels, Alone, SettingUp
  <2> QED BY <1>1, <2>1 DEF Total, Starting, Late
<1>5. CASE \/ heapInit \/ newUart \/ globalConstructors \/ physMemInit \/ global_init
           \/ sysInit \/ threadsInit \/ lapicInit \/ setDone \/ calibrate
  <2>1. UNCHANGED <<id, config>>
    BY <1>5 DEF heapInit, newUart, globalConstructors, physMemInit, global_init, sysInit,
                threadsInit, lapicInit, setDone, calibrate, Initialise, smp
  <2>2. /\ core[0].pc \in (SettingUp \ {"config"}) \cup {"calibrate"}
        /\ \E to \in SettingUp \cup {"calibrate", "count"} : Go(0, to)
    BY <1>5 DEF heapInit, newUart, globalConstructors, physMemInit, global_init, sysInit,
                threadsInit, lapicInit, setDone, calibrate, Initialise, SettingUp
  <2>3. core'[0].pc \in SettingUp \cup {"calibrate", "count"}
    BY <1>2, <2>2 DEF Labels, Alone
  <2> QED BY <1>1, <2>1, <2>2, <2>3, TotalStays
<1>6. CASE nextId
  <2> DEFINE to == IF id + 1 < config.totalProcs THEN "init" ELSE "paging"
  <2>1. to \in Labels
    BY DEF Labels, Starting, Late
  <2>2. Go(0, to) /\ id' = id + 1 /\ core[0].pc = "next" /\ UNCHANGED config
    BY <1>6 DEF nextId, kernel
  <2>3. core'[0].pc = to
    <3> HIDE DEF to
    <3> QED BY <1>2, <2>1, <2>2
  <2>4. config.totalProcs = Len(OtherProcs) + 1 /\ id < config.totalProcs /\ id \in Nat
    BY <2>2 DEF Total, Starting, Booting, Orderly, Typed
  <2>5. IF id' < config'.totalProcs THEN to = "init" ELSE to = "paging" /\ id' = config'.totalProcs
    <3> DEFINE n == Len(OtherProcs)
               t == config.totalProcs
    <3>1. t = n + 1 /\ n \in Nat /\ id < t /\ id' = id + 1 /\ t = config'.totalProcs
      BY <1>1, <2>2, <2>4
    <3>2. id + 1 < t \/ id + 1 = t
      <4> HIDE DEF n, t
      <4> QED BY <2>4, <3>1
    <3> QED BY <3>1, <3>2
  <2> HIDE DEF to
  <2> QED BY <1>1, <2>2, <2>3, <2>4, <2>5 DEF Total, Starting, Late
<1>7. CASE ipiInit \/ ipiStart \/ waitRunning
  <2>1. core[0] \in CoreType /\ 0 \in Cores
    BY Zero DEF Orderly, Typed
  <2>2. core[0].pc \in Starting /\ UNCHANGED <<id, config>>
    BY <1>7 DEF ipiInit, ipiStart, waitRunning, Starting, smp, kernel
  <2>3. core'[0].pc \in {"next"} \cup Starting
    <3>1. ipiInit => core'[0].pc = "start"
      BY <2>1 DEF ipiInit, CoreType
    <3>2. ipiStart => core'[0].pc = "running"
      BY <2>1 DEF ipiStart, CoreType
    <3>3. waitRunning => core'[0].pc = "next"
      BY <1>2 DEF waitRunning, Labels
    <3> QED BY <1>7, <3>1, <3>2, <3>3 DEF Starting
  <2> QED BY <1>1, <2>2, <2>3, TotalStays
<1>8. ASSUME NEW c \in Cores, CoreStep(c) PROVE Total'
  <2>1. UNCHANGED <<config>>
    BY <1>8 DEF CoreStep, resetEIP, pickKernelStack, countRunning, enableLapic, per_core_init,
                pitInit, loadTss, enableInterrupts, arrive, Own, kernel
  <2>2. UNCHANGED id
    BY <1>8 DEF CoreStep, resetEIP, pickKernelStack, countRunning, enableLapic, per_core_init,
                pitInit, loadTss, enableInterrupts, arrive, Own, smp
  <2>3. core[c] \in CoreType /\ core \in [Cores -> CoreType] /\ 0 \in Cores
    BY Zero DEF Orderly, Typed
  <2>4. CASE OwnStep(c) \/ arrive(c)
    <3>1. core'[0].pc = core[0].pc \/ (core[0].pc \in Late /\ core'[0].pc \in Late)
      BY <2>4, LateGoes, Zero DEF OnlyMoves
    <3> QED BY <1>1, <2>1, <2>2, <3>1, TotalStays
  <2>5. CASE resetEIP(c) \/ pickKernelStack(c)
    <3>1. c # 0 => core'[0] = core[0]
      BY <2>3, <2>5 DEF resetEIP, pickKernelStack
    <3>2. c = 0 => core[0].pc \in Booting /\ core'[0].pc \in Booting \cup {"config"}
      <4>1. c = 0 /\ pickKernelStack(c) => ~smpInitDone
        BY DEF pickKernelStack, smpInitDone, Orderly, ReadyOK, Booting
      <4> QED BY <2>3, <2>5, <4>1 DEF resetEIP, pickKernelStack, Booting, CoreType
    <3> QED BY <1>1, <2>1, <2>2, <3>1, <3>2, TotalStays
  <2>6. CASE (countRunning(c) \/ enableLapic(c)) /\ c # 0
    <3>1. core'[0] = core[0]
      BY <2>3, <2>6, Goes DEF countRunning, enableLapic, Go
    <3> QED BY <1>1, <2>1, <2>2, <3>1, TotalStays
  <2>7. CASE countRunning(c) /\ c = 0
    <3>1. core[0].pc = "count" /\ core'[0].pc = "next"
      BY <1>2, <2>7 DEF countRunning, Labels
    <3>2. id = 0 /\ config.totalProcs = Len(OtherProcs) + 1
      BY <3>1 DEF Total, Orderly, OneByOne, HasBegun, Alone, Booting
    <3>3. id < config.totalProcs
      <4> DEFINE n == Len(OtherProcs)
                 t == config.totalProcs
      <4>1. id = 0 /\ t = n + 1 /\ n \in Nat
        BY <1>1, <3>2
      <4> HIDE DEF n
      <4> QED BY <4>1
    <3> QED BY <1>1, <2>1, <2>2, <3>1, <3>2, <3>3 DEF Total, Late
  <2>8. ~(enableLapic(c) /\ c = 0)
    BY DEF enableLapic, Orderly, OneByOne, Alone, Booting, SettingUp, Starting, Late
  <2> QED BY <1>8, <2>4, <2>5, <2>6, <2>7, <2>8 DEF CoreStep, OwnStep
<1>9. CASE MainStep \/ Driver \/ UNCHANGED vars
  <2>1. UNCHANGED <<id, config>> /\ core'[0].pc = core[0].pc
    BY <1>9 DEF MainStep, kernelMain, pci_init, mount, load, ToMain, Driver, vars, startVars,
                smp, kernel
  <2> QED BY <1>1, <2>1, TotalStays
<1> QED BY <1>3, <1>4, <1>5, <1>6, <1>7, <1>8, <1>9 DEF Next, StartNext, BootStep

(* A core that has been counted is one of the processors that were found.  *)
LEMMA StoppedAreFound ==
  ASSUME Orderly, Fits, Total, NEW c \in Cores, core[c].pc \in Late
  PROVE  c < config.totalProcs /\ config.totalProcs \in 1..MaxProcs
<1> DEFINE t == config.totalProcs
           n == Len(OtherProcs)
<1>1. HasBegun
  BY AllReady, Zero DEF HasBegun, Alone, Booting, SettingUp, Late
<1>2. t = n + 1 /\ n \in 0..(MaxProcs - 1)
  BY <1>1 DEF Total, HasBegun, Alone, SettingUp, Fits
<1>3. t \in 1..MaxProcs
  <2> HIDE DEF t, n
  <2> QED BY <1>2, StartUpAssumption
<1>4. CASE c = 0
  <2> HIDE DEF t, n
  <2>1. c < t
    BY <1>3, <1>4
  <2> QED BY <1>3, <2>1 DEF t
<1>5. CASE c # 0
  <2>1. OtherOK(c) /\ OneByOne /\ c \in Nat /\ id \in Nat /\ core[c].pc # "off"
    BY <1>5, Zero DEF Orderly, Typed, Late
  <2>2. core[0].pc \in {"next"} \cup Starting \cup Late
    BY <1>1, <2>1 DEF OneByOne, HasBegun
  <2>3. CASE core[0].pc \in {"next"} \cup Starting
    <3>1. id < t
      BY <2>3 DEF Total
    <3>2. ~(c > id)
      BY <2>1, <2>3 DEF OtherOK
    <3> HIDE DEF t
    <3>3. c < t
      BY <1>3, <2>1, <3>1, <3>2
    <3> QED BY <1>3, <3>3 DEF t
  <2>4. CASE core[0].pc \in Late
    <3>1. id = t
      BY <2>4 DEF Total
    <3>2. ~(c >= id)
      BY <2>1, <2>4 DEF OtherOK
    <3> HIDE DEF t
    <3>3. c < t
      BY <1>3, <2>1, <3>1, <3>2
    <3> QED BY <1>3, <3>3 DEF t
  <2> QED BY <2>2, <2>3, <2>4
<1> QED BY <1>4, <1>5

LEMMA StoppedIsFinite ==
  ASSUME Orderly, Fits, Total
  PROVE  IsFiniteSet(Stopped) /\ Cardinality(Stopped) \in Nat
<1>1. 0 \in Int /\ MaxProcs - 1 \in Int /\ Stopped \subseteq 0..(MaxProcs - 1)
  BY StartUpAssumption DEF Stopped, Cores
<1>2. IsFiniteSet(0..(MaxProcs - 1))
  BY <1>1, FS_Interval
<1> QED BY <1>1, <1>2, FS_Subset, FS_CardinalityType

(* The last one to arrive makes the thread: when as many have arrived as   *)
(* were found, it is those that were found.                                *)
LEMMA LastOneArrives ==
  ASSUME Orderly, Fits, Total, Arrived, NEW c \in Cores, arrive(c)
  PROVE  Arrived'
<1> DEFINE S == Stopped \cup {c}
           t == config.totalProcs
<1>1. /\ OnlyMoves(c) /\ core[c].pc = "here" /\ core'[c].pc = "stop"
      /\ howManyAreHere' = howManyAreHere + 1 /\ UNCHANGED config
      /\ main' = IF howManyAreHere + 1 = t THEN "queued" ELSE main
  <2>1. OnlyMoves(c) /\ core'[c].pc = "stop"
    BY LateGoes
  <2> QED BY <2>1 DEF arrive, At, IsLast, kernel
<1>2. Stopped' = S /\ c \notin Stopped
  BY <1>1 DEF Stopped, OnlyMoves
<1>3. IsFiniteSet(Stopped) /\ Cardinality(Stopped) \in Nat /\ howManyAreHere = Cardinality(Stopped)
  BY StoppedIsFinite DEF Arrived
<1>4. IsFiniteSet(S) /\ Cardinality(S) = howManyAreHere + 1
  BY <1>2, <1>3, FS_AddElement
<1>5. /\ t \in 1..MaxProcs
      /\ \A d \in S : d \in 0..(t - 1)
  <2>1. ASSUME NEW d \in S PROVE d \in Nat /\ d < t /\ t \in 1..MaxProcs
    <3>1. d \in Cores /\ core[d].pc \in Late /\ d \in Nat
      BY <1>1, <2>1, Zero DEF Stopped, Late
    <3> QED BY <3>1, StoppedAreFound
  <2>2. t \in 1..MaxProcs
    BY <2>1
  <2> HIDE DEF S, t
  <2>3. t \in Nat
    BY <2>2, StartUpAssumption
  <2> QED BY <2>1, <2>2, <2>3
<1>6. IsFiniteSet(0..(t - 1)) /\ Cardinality(0..(t - 1)) = t
  <2>1. t \in Nat /\ t >= 1
    <3> HIDE DEF t
    <3> QED BY <1>5, StartUpAssumption
  <2>2. 0 \in Int /\ t - 1 \in Int
    BY <2>1
  <2>3. IsFiniteSet(0..(t - 1)) /\ Cardinality(0..(t - 1)) = IF 0 > t - 1 THEN 0 ELSE (t - 1) - 0 + 1
    <3> HIDE DEF t
    <3> QED BY <2>2, FS_Interval, Zenon
  <2> HIDE DEF t
  <2>4. Cardinality(0..(t - 1)) = t
    BY <2>1, <2>3
  <2> QED BY <2>3, <2>4
<1>7. howManyAreHere + 1 = t => S = 0..(t - 1)
  <2> HIDE DEF S, t
  <2>1. S \subseteq 0..(t - 1)
    BY <1>5
  <2> QED BY <1>4, <1>6, <2>1, FS_Subset
<1>8. \A d \in S : core'[d].pc = "stop"
  BY <1>1 DEF Stopped, OnlyMoves
<1>9. main # "none" => core'[0].pc = "stop" /\ \A d \in 0..(t - 1) : core'[d].pc = "stop"
  <2> HIDE DEF t
  <2>1. \A d \in 0..(t - 1) : d \in Cores
    BY <1>5, StartUpAssumption DEF Cores
  <2> QED BY <1>1, <2>1, Zero DEF Arrived, OnlyMoves, t
<1>10. 0 \in 0..(t - 1)
  <2> HIDE DEF t
  <2> QED BY <1>5, StartUpAssumption
<1>11. main' # "none" => core'[0].pc = "stop" /\ \A d \in 0..(t - 1) : core'[d].pc = "stop"
  BY <1>1, <1>7, <1>8, <1>9, <1>10
<1> HIDE DEF S
<1> QED BY <1>1, <1>2, <1>4, <1>11 DEF Arrived

LEMMA ConfigStays ==
  ASSUME [Next]_vars, ~configInit PROVE UNCHANGED config
<1>1. BootStep => UNCHANGED config
  BY DEF BootStep, ReadSector, heapInit, newUart, globalConstructors, physMemInit,
         global_init, sysInit, threadsInit, lapicInit, setDone, calibrate, nextId, ipiInit,
         ipiStart, waitRunning, Initialise, kernel
<1>2. ASSUME NEW c \in Cores, CoreStep(c) PROVE UNCHANGED config
  BY <1>2 DEF CoreStep, resetEIP, pickKernelStack, countRunning, enableLapic, per_core_init,
              pitInit, loadTss, enableInterrupts, arrive, Own, kernel
<1>3. MainStep \/ Driver \/ UNCHANGED vars => UNCHANGED config
  BY DEF MainStep, kernelMain, pci_init, mount, load, ToMain, Driver, vars, startVars, kernel
<1> QED BY <1>1, <1>2, <1>3 DEF Next, StartNext

LEMMA ArrivedInductive ==
  ASSUME Orderly, Fits, Total, Arrived, [Next]_vars PROVE Arrived'
<1>1. CASE \E c \in Cores : arrive(c)
  BY <1>1, LastOneArrives
<1>2. CASE \A c \in Cores : ~arrive(c)
  <2>1. Stopped' = Stopped /\ howManyAreHere' = howManyAreHere /\ (main = "none" => main' = "none")
    BY <1>2, NobodyArrives
  <2>2. core[0].pc = "stop" => UNCHANGED config /\ core'[0].pc = "stop"
    <3>1. ~configInit /\ core[0].pc = "stop" => UNCHANGED config
      BY ConfigStays
    <3>2. configInit => core[0].pc = "config"
      BY DEF configInit, At
    <3>3. core'[0].pc = "stop" <=> core[0].pc = "stop"
      BY <1>2, WhoStops, Zero
    <3> QED BY <3>1, <3>2, <3>3
  <2>3. ASSUME main # "none", NEW d \in 0..(config.totalProcs - 1) PROVE core'[d].pc = "stop"
    <3>1. d \in Cores /\ core[d].pc = "stop"
      <4> DEFINE t == config.totalProcs
      <4>1. core[0].pc \in Late
        BY <2>3 DEF Arrived, Late
      <4>2. t \in 1..MaxProcs
        BY <4>1, StoppedAreFound, Zero
      <4>3. d \in 0..(t - 1)
        OBVIOUS
      <4>4. d \in Cores
        <5> HIDE DEF t
        <5> QED BY <4>2, <4>3, StartUpAssumption DEF Cores
      <4> QED BY <2>3, <4>4 DEF Arrived
    <3>2. d \in Stopped'
      BY <2>1, <3>1 DEF Stopped
    <3> QED BY <3>2 DEF Stopped
  <2> QED BY <2>1, <2>2, <2>3 DEF Arrived
<1> QED BY <1>1, <1>2

-----------------------------------------------------------------------------

LEMMA InitialIInv == Init /\ Fits => IInv
<1> SUFFICES ASSUME Init, Fits PROVE IInv
  OBVIOUS
<1>1. Orderly
  BY OrderlyAtFirst
<1>2. /\ \A c \in Cores : core[c].pc \in {"load", "off"} /\ core[c].up = {}
      /\ core[0].pc = "load" /\ machine \in Machines
      /\ main = "none" /\ halted = "no" /\ howManyAreHere = 0
  BY Zero DEF Init, StartInit
<1>3. LoaderOK
  <2> DEFINE n == machine.sectors
  <2>1. n \in 1..(CountW - 1) /\ CountW \in Nat /\ LoadSlot \in 1..(Slots - 1) /\ Slots \in Nat
    BY <1>2, StartUpAssumption
  <2>2. loop = [cx |-> n % CountW, di |-> LoadSlot, bp |-> 1]
    BY DEF Init, StartInit
  <2>3. memory = [s \in 0..(Slots - 1) |-> IF s = LoadSlot - 1 THEN 0 ELSE -1]
    BY DEF Init, StartInit
  <2>4. loop.cx = n - 1 + 1 /\ loop.bp = 1 /\ 1 \in 1..n /\ loop.di = LoadSlot + 1 - 1
    <3>1. n \in 0..(CountW - 1) /\ \A k \in 0..(CountW - 1) : k % CountW = k
      <4> HIDE DEF n
      <4> QED BY <2>1
    <3>2. loop.cx = n
      BY <2>2, <3>1
    <3>3. n = n - 1 + 1 /\ 1 \in 1..n /\ LoadSlot = LoadSlot + 1 - 1
      <4> HIDE DEF n
      <4> QED BY <2>1
    <3> QED BY <2>2, <3>2, <3>3
  <2>5. memory \in [0..(Slots - 1) -> Int]
    BY <2>3
  <2>6. memory[LoadSlot - 1] = 0
    BY <2>1, <2>3
  <2>7. Loaded(1)
    <3>1. \A s \in 0..0 : LoadSlot - 1 + s = LoadSlot - 1 /\ s = 0
      BY <2>1
    <3> QED BY <2>6, <3>1 DEF Loaded
  <2> QED BY <1>2, <2>4, <2>5, <2>7 DEF LoaderOK
<1>4. Total
  BY <1>2 DEF Total, Booting, Starting, Late
<1>5. Arrived
  <2>1. Stopped = {}
    BY <1>2 DEF Stopped
  <2> QED BY <1>2, <2>1, FS_EmptySet DEF Arrived
<1>6. \A c \in Cores : UpOK(c)
  BY <1>2 DEF UpOK, UpAt
<1> QED BY <1>1, <1>2, <1>3, <1>4, <1>5, <1>6 DEF IInv

LEMMA IInvInductive == Fits /\ IInv /\ [Next]_vars => IInv'
<1> SUFFICES ASSUME Fits, IInv, [Next]_vars PROVE IInv'
  OBVIOUS
<1>1. Orderly' /\ LoaderOK'
  BY OrderlyInductive, LoaderInductive DEF IInv
<1>2. Total' /\ Arrived'
  BY TotalInductive, ArrivedInductive DEF IInv
<1>3. halted' # "fault" /\ \A c \in Cores : UpOK(c)'
  BY NoFault, UpInductive DEF IInv
<1> QED BY <1>1, <1>2, <1>3 DEF IInv

LEMMA IInvReady == Fits /\ IInv => ReadyWhenUsed
<1> SUFFICES ASSUME Fits, IInv PROVE ReadyWhenUsed
  OBVIOUS
<1>1. ImageInPlace
  BY DEF IInv, LoaderOK, Loaded, ImageInPlace, At
<1>2. ASSUME main # "none", NEW c \in 0..(config.totalProcs - 1)
      PROVE  core[c].up = {"paging", "timer", "tss", "interrupts"}
  <2> DEFINE t == config.totalProcs
  <2>1. core[0].pc \in Late /\ core[c].pc = "stop"
    BY <1>2 DEF IInv, Arrived, Late
  <2>2. t \in 1..MaxProcs
    BY <2>1, StoppedAreFound, Zero DEF IInv
  <2>3. c \in 0..(t - 1)
    OBVIOUS
  <2>4. c \in Cores
    <3> HIDE DEF t
    <3> QED BY <2>2, <2>3, StartUpAssumption DEF Cores
  <2> QED BY <2>1, <2>4 DEF IInv, UpOK, UpAt, OwnParts
<1> QED BY <1>1, <1>2 DEF IInv, ReadyWhenUsed

(* On every machine whose processors and devices fit into the arrays, the  *)
(* image is complete when it is entered, no core uses a part that is not   *)
(* there, and kernelMain() begins when all cores are complete              *)
(* (init.cc:118 to 163).                                                   *)
THEOREM NothingIsUsedTooEarly == Spec /\ Fits => []ReadyWhenUsed
<1>1. Init /\ Fits => Fits /\ IInv
  BY InitialIInv
<1>2. (Fits /\ IInv) /\ [Next]_vars => (Fits /\ IInv)'
  BY IInvInductive, SameTables
<1>3. Fits /\ IInv => ReadyWhenUsed
  BY IInvReady
<1> QED BY <1>1, <1>2, <1>3, PTL DEF Spec

=============================================================================
