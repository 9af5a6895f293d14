------------------------------ MODULE StartUp ------------------------------
(***************************************************************************)
(* From the boot sector to the first program: mbr.S, init.cc and what they *)
(* call.                                                                   *)
(*                                                                         *)
(* Core 0 loads the image, sets the kernel up and starts the other cores   *)
(* one after the other; all of them enter through resetEIP and a stack     *)
(* that they share for the call of pickKernelStack().  The core that comes *)
(* last makes the thread that runs kernelMain().                           *)
(*                                                                         *)
(* What a part of the kernel needs of other parts is in the set ready: a   *)
(* step that uses a part that is not there ends in a fault.                *)
(***************************************************************************)
EXTENDS Integers, Sequences

CONSTANTS
  Machines,  \* BOUND: the machines to start, see MachineType
  MaxProcs,  \* the size of the arrays per core, MAX_PROCS
  PciSlots,  \* the size of the arrays of devices and drivers
  Slots,     \* the sectors that a segment register can address, 2048
  LoadSlot,  \* where the loader puts the first sector, 0x7e0 / 0x20
  CountW,    \* sector counts are taken modulo CountW (2^16)
  Hz         \* the frequency of the timer interrupt, 1000

Entry == [type : {"cpu", "ioapic", "other"}, processorId : Nat, apicId : Nat]

MachineType ==
  [table : Seq(Entry),           \* the MADT
   behind : Entry,               \* what is in memory behind it
   answers : SUBSET Nat,         \* the APIC ids of the processors that can be started
   sectors : Nat,                \* the length of the boot drive
   ax : Nat, bx : Nat,           \* the memory above 1M, as the BIOS says
   ticks : Nat,                  \* how far the timer of the APIC gets in a second
   functions : Seq(BOOLEAN),     \* per PCI function, whether there is one
   disk : {"good", "short", "no_init", "not_elf"}]

ASSUME StartUpAssumption ==
  /\ MaxProcs \in Nat \ {0} /\ PciSlots \in Nat
  /\ Slots \in Nat /\ LoadSlot \in 1..(Slots - 1) /\ CountW \in Nat \ {0} /\ Hz \in Nat \ {0}
  /\ \A m \in Machines :
       m.sectors \in 1..(CountW - 1) /\ m.sectors <= Slots - LoadSlot + 1

VARIABLES
  machine,
  memory,         \* per sector's worth of memory, the sector that is there
  loop,           \* the registers of the loader: cx, di and bp
  config,         \* kConfig
  ready,          \* the parts that are initialised
  apitCounter,
  core,           \* per APIC id, what the processor does and has set up
  running,        \* SMP::running
  id,             \* the processor that core 0 is starting
  howManyAreHere,
  main,           \* the thread that runs kernelMain()
  devices,
  halted          \* "no", "panic" or "fault"

hardware == <<machine, memory, loop>>
kernel == <<config, ready, apitCounter>>
smp == <<running, id, howManyAreHere>>
mainThread == <<main, devices>>
startVars == <<hardware, kernel, smp, mainThread, core, halted>>

Cores == 0..(MaxProcs - 1)
NoStack == -1
TempStack == MaxProcs

(* The processor that boots reads sectors, the others are off.             *)
StartInit ==
  /\ machine \in Machines
  /\ memory = [s \in 0..(Slots - 1) |-> IF s = LoadSlot - 1 THEN 0 ELSE -1]
  /\ loop = [cx |-> machine.sectors % CountW, di |-> LoadSlot, bp |-> 1]
  /\ config = [memSize |-> 0, totalProcs |-> 0, apicInfo |-> <<>>]
  /\ ready = {} /\ apitCounter = 0
  /\ core = [c \in Cores |-> [pc |-> IF c = 0 THEN "load" ELSE "off", stack |-> NoStack, up |-> {}]]
  /\ running = 0 /\ id = 0 /\ howManyAreHere = 0
  /\ main = "none" /\ devices = 0
  /\ halted = "no"

-----------------------------------------------------------------------------
(* From the boot sector to C++.                                            *)

At(c, label) == core[c].pc = label
Go(c, label) == core' = [core EXCEPT ![c].pc = label]

Uses(parts) == halted' = IF parts \subseteq ready THEN "no" ELSE "fault"

(* SMP::me() and other registers, through pointers that SMP::init() sets.  *)
UsesApic(more) == Uses({"lapic"} \cup more)

(* One more sector, into the next segment.  The registers wrap around.     *)
ReadSector ==
  LET cx == (loop.cx - 1) % CountW IN
  /\ At(0, "load")
  /\ IF cx = 0 THEN Go(0, "resetEIP") /\ UNCHANGED hardware
     ELSE /\ memory' = [memory EXCEPT ![loop.di] = loop.bp]
          /\ loop' = [cx |-> cx, di |-> (loop.di + 1) % Slots, bp |-> loop.bp + 1]
          /\ UNCHANGED <<machine, core>>
  /\ UNCHANGED <<kernel, smp, mainThread, halted>>

(* To protected mode; each core comes by here.                             *)
resetEIP(c) ==
  /\ At(c, "resetEIP")
  /\ core' = [core EXCEPT ![c].pc = "kk", ![c].stack = TempStack]
  /\ UNCHANGED <<hardware, kernel, smp, mainThread, halted>>

smpInitDone == "smpInitDone" \in ready

pickKernelStack(c) ==
  /\ At(c, "kk")
  /\ core' = [core EXCEPT ![c].stack = IF smpInitDone THEN c ELSE 0,
                          ![c].pc = IF smpInitDone THEN "count" ELSE "config"]
  /\ IF smpInitDone THEN UsesApic({}) ELSE UNCHANGED halted
  /\ UNCHANGED <<hardware, kernel, smp, mainThread>>

-----------------------------------------------------------------------------
(* What core 0 sets up.                                                    *)

(* The walk over the MADT goes to the next entry before it looks at one:   *)
(* it misses the first and takes what is behind the table for an entry.    *)
IsOther(e) == e.type = "cpu" /\ e.processorId # 0
OtherProcs == SelectSeq(Tail(machine.table) \o <<machine.behind>>, IsOther)

(* In blocks of 64K.                                                       *)
memAbove1M == machine.ax \div 64 + machine.bx

configInit ==
  /\ At(0, "config") /\ Go(0, "heap")
  /\ config' = [memSize |-> memAbove1M + 16,
                totalProcs |-> Len(OtherProcs) + 1,
                apicInfo |-> [k \in DOMAIN OtherProcs |-> OtherProcs[k].apicId]]
  /\ ready' = ready \cup {"config"}
  /\ halted' = IF Len(OtherProcs) > MaxProcs THEN "fault" ELSE "no"
  /\ UNCHANGED <<hardware, apitCounter, smp, mainThread>>

Initialise(label, uses, part, then) ==
  /\ At(0, label) /\ Go(0, then)
  /\ Uses(uses)
  /\ ready' = ready \cup {part}
  /\ UNCHANGED <<hardware, config, apitCounter, smp, mainThread>>

heapInit == Initialise("heap", {}, "heap", "uart")
newUart == Initialise("uart", {"heap"}, "uart", "crt")

(* The constructors clear what was in the objects before, such as the ready*)
(* queue and the pointers to the registers of the APIC.                    *)
globalConstructors ==
  /\ At(0, "crt") /\ Go(0, "physmem")
  /\ ready' = (ready \ {"threads", "lapic"}) \cup {"crt"}
  /\ UNCHANGED <<hardware, config, apitCounter, smp, mainThread, halted>>

physMemInit == Initialise("physmem", {"config"}, "physmem", "vmm")
global_init == Initialise("vmm", {"config", "crt", "physmem"}, "vmm", "sys")
sysInit == Initialise("sys", {}, "sys", "threads")
threadsInit == Initialise("threads", {"config", "crt", "heap", "vmm"}, "threads", "lapic")
lapicInit == Initialise("lapic", {"config"}, "lapic", "done")
setDone == Initialise("done", {}, "smpInitDone", "calibrate")

(* Fault: the handler of the timer is not set.                             *)
calibrateNoHandler ==
  /\ At(0, "calibrate") /\ Go(0, "count")
  /\ UsesApic({"heap"})
  /\ apitCounter' = machine.ticks \div Hz
  /\ UNCHANGED <<hardware, config, ready, smp, mainThread>>

(* Counts and sets the handler of the timer.                               *)
calibrate ==
  /\ At(0, "calibrate") /\ Go(0, "count")
  /\ UsesApic({"heap"})
  /\ apitCounter' = machine.ticks \div Hz
  /\ ready' = ready \cup {"apitHandler"}
  /\ UNCHANGED <<hardware, config, smp, mainThread>>

-----------------------------------------------------------------------------
(* Starting the other cores.                                               *)

countRunning(c) ==
  /\ At(c, "count") /\ Go(c, IF c = 0 THEN "next" ELSE "enable")
  /\ running' = running + 1
  /\ UNCHANGED <<hardware, kernel, id, howManyAreHere, mainThread, halted>>

nextId ==
  /\ At(0, "next") /\ Go(0, IF id + 1 < config.totalProcs THEN "init" ELSE "paging")
  /\ id' = id + 1
  /\ UNCHANGED <<hardware, kernel, running, howManyAreHere, mainThread, halted>>

(* INIT stops the processor, whatever it does; it then waits for a SIPI.   *)
ipiInit ==
  /\ At(0, "init")
  /\ UsesApic({})
  /\ core' = [c \in Cores |->
                IF c = 0 THEN [core[0] EXCEPT !.pc = "start"]
                ELSE IF c = id /\ id \in machine.answers
                     THEN [pc |-> "wait", stack |-> NoStack, up |-> {}]
                     ELSE core[c]]
  /\ UNCHANGED <<hardware, kernel, smp, mainThread>>

ipiStart ==
  /\ At(0, "start")
  /\ core' = [c \in Cores |->
                IF c = 0 THEN [core[0] EXCEPT !.pc = "running"]
                ELSE IF c = id /\ At(c, "wait") THEN [core[c] EXCEPT !.pc = "resetEIP"]
                ELSE core[c]]
  /\ UNCHANGED <<hardware, kernel, smp, mainThread, halted>>

(* Fault: a core is waited for that has been counted already.              *)
LastIsRunning == running >= id

IsRunning == running > id

waitRunning ==
  /\ At(0, "running") /\ IsRunning /\ Go(0, "next")
  /\ UNCHANGED <<hardware, kernel, smp, mainThread, halted>>

enableLapic(c) ==
  /\ At(c, "enable") /\ Go(c, "paging")
  /\ UsesApic({})
  /\ UNCHANGED <<hardware, kernel, smp, mainThread>>

-----------------------------------------------------------------------------
(* What each core sets up for itself.                                      *)

Own(c, label, part, then) ==
  /\ At(c, label)
  /\ core' = [core EXCEPT ![c].pc = then, ![c].up = @ \cup {part}]
  /\ UNCHANGED <<hardware, kernel, smp, mainThread>>

per_core_init(c) == Own(c, "paging", "paging", "pit") /\ UsesApic({"threads", "vmm"})

pitInit(c) ==
  /\ Own(c, "pit", "timer", "tss")
  /\ IF apitCounter = 0 THEN halted' = "panic" ELSE UsesApic({})

loadTss(c) == Own(c, "tss", "tss", "sti") /\ UsesApic({})

(* From here on the timer interrupts, also before the threads are used.    *)
enableInterrupts(c) == Own(c, "sti", "interrupts", "here") /\ UsesApic({"apitHandler", "threads"})

(* Fault: the count as it was before this core.                            *)
IsLastBefore == howManyAreHere = config.totalProcs

(* This core is the last one.                                              *)
IsLast == howManyAreHere + 1 = config.totalProcs

arrive(c) ==
  /\ At(c, "here") /\ Go(c, "stop")
  /\ howManyAreHere' = howManyAreHere + 1
  /\ main' = IF IsLast THEN "queued" ELSE main
  /\ Uses({"crt", "heap", "threads"})
  /\ UNCHANGED <<hardware, kernel, running, id, devices>>

-----------------------------------------------------------------------------
(* The thread that the last core makes; a core that has stopped runs it.   *)

ToMain(from, to) ==
  /\ main = from /\ main' = to
  /\ UNCHANGED <<hardware, kernel, core, smp>>

kernelMain ==
  /\ ToMain("queued", "pci")
  /\ \E c \in Cores : At(c, "stop")
  /\ UNCHANGED <<devices, halted>>

(* Every function that has a vendor is put into the array.                 *)
HasVendor(f) == f
PciDevices == SelectSeq(machine.functions, HasVendor)

pci_init ==
  /\ ToMain("pci", "mount")
  /\ devices' = Len(PciDevices)
  /\ halted' = IF devices' > PciSlots THEN "fault" ELSE "no"

(* The table of the block groups has to be read completely.                *)
mount ==
  /\ ToMain("mount", "load")
  /\ halted' = IF machine.disk = "short" THEN "panic" ELSE "no"
  /\ UNCHANGED devices

(* A file that is not there is read through a null pointer, which the page *)
(* fault handler cannot handle.                                            *)
load ==
  /\ ToMain("load", "user")
  /\ halted' = IF machine.disk \in {"no_init", "not_elf"} THEN "panic" ELSE "no"
  /\ UNCHANGED devices

BootStep ==
  \/ ReadSector \/ configInit \/ heapInit \/ newUart \/ globalConstructors \/ physMemInit
  \/ global_init \/ sysInit \/ threadsInit \/ lapicInit \/ setDone \/ calibrate
  \/ nextId \/ ipiInit \/ ipiStart \/ waitRunning

CoreStep(c) ==
  \/ resetEIP(c) \/ pickKernelStack(c) \/ countRunning(c) \/ enableLapic(c)
  \/ per_core_init(c) \/ pitInit(c) \/ loadTss(c) \/ enableInterrupts(c) \/ arrive(c)

MainStep == kernelMain \/ pci_init \/ mount \/ load

StartNext ==
  /\ halted = "no"
  /\ BootStep \/ (\E c \in Cores : CoreStep(c)) \/ MainStep

-----------------------------------------------------------------------------

(* No two cores are on the same stack.  They share the one on which they   *)
(* call pickKernelStack() (mbr.S:159), one after the other, because core 0 *)
(* waits for each; after that every core has the stack of its APIC id.     *)
OwnStack ==
  \A c, d \in Cores : c # d /\ core[c].stack # NoStack => core[c].stack # core[d].stack

(* The image is complete and at the addresses that it is linked for before *)
(* it is entered.                                                          *)
ImageInPlace == ~At(0, "load") => \A s \in 0..(machine.sectors - 1) : memory[LoadSlot - 1 + s] = s

(* No core uses a part of the kernel that is not set up yet, no array is   *)
(* written behind its end, and kernelMain() begins when all cores have     *)
(* paging, a timer, a TSS and interrupts.                                  *)
ReadyWhenUsed ==
  /\ ImageInPlace
  /\ halted # "fault"
  /\ main # "none" => \A c \in 0..(config.totalProcs - 1) :
                        core[c].up = {"paging", "timer", "tss", "interrupts"}

(* All processors that were found can be started, the timer is fast enough *)
(* and the disk has the first program.                                     *)
SoundMachine ==
  /\ 1..Len(OtherProcs) \subseteq machine.answers
  /\ machine.ticks >= Hz /\ machine.disk = "good"

(* On such a machine the first program starts: core 0 hears from every core*)
(* it starts, and the count finds a last one (init.cc:134, 157).           *)
ProgramStarts == SoundMachine => <>(main = "user")

=============================================================================
