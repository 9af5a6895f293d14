---------------------------- MODULE AddressSpaces ----------------------------
(***************************************************************************)
(* Physical frames and the private half of the address spaces: physmem.cc, *)
(* vmm.cc, the page fault handler, and what fork, exec and exit (sys.cc)   *)
(* and the deletion of a TCB (threads.cc) do to them.                      *)
(*                                                                         *)
(* Memory is an array of frames of Width words.  A page directory, a page  *)
(* table and the list of free frames are words in frames like any other,   *)
(* so a frame with two uses would show.  The half below 0x80000000 is the  *)
(* same in all address spaces and is left out, and of the pages of the two *)
(* APICs, which share a table, there is one.                               *)
(*                                                                         *)
(* A page directory is used by its own process and, before that, by the    *)
(* fork that makes it; only the frame allocator is shared, and its lock    *)
(* makes a step of each of its operations.                                 *)
(***************************************************************************)
EXTENDS Naturals, FiniteSets

CONSTANTS
  Procs,     \* BOUND: the TCBs that there are at a time
  First,     \* the one of kernelMain
  NFrames,   \* the frames of [avail, limit) after physmem's init
  Width,     \* BOUND: the words of a frame (1024)
  Touched,   \* BOUND: the pages that programs use
  Values,    \* BOUND: what they write there
  MayExec    \* BOUND: the processes that call exec

ASSUME MemoryAssumption ==
  /\ First \in Procs /\ IsFiniteSet(Procs)
  /\ NFrames \in Nat \ {0, 1} /\ Width \in Nat \ {0, 1}
  /\ Touched \subseteq 0..(Width * Width - 2)
  /\ Values \subseteq Nat \ {0}
  /\ MayExec \subseteq Procs

Frames == 1..NFrames
Words == 0..(Width - 1)

(* Pages are numbered from 0x80000000; the last one is the APIC's, and its *)
(* frame lies outside the memory.                                          *)
Pages == 0..(Width * Width - 1)
apicPage == Width * Width - 1
apicFrame == NFrames + 1
UserPages == Pages \ {apicPage}

VARIABLES
  mem,        \* the words of every frame; as an entry, 0 is "not present"
  firstFree,  \* head of the list of free frames, 0 for none
  avail,      \* frames from here on have not been used yet
  panicked,   \* "no more frames"
  pd,         \* per process, the frame of its page directory
  pc,         \* per process, what it does
  page,       \* per process, the page or the directory entry that it is at
  frame,      \* per process, the frame that it is about to map
  target,     \* per process, in whose directory it maps: its own, or its child's
  view        \* per process, what its program has in its pages

allocator == <<firstFree, avail, panicked>>
locals == <<page, frame, target>>
vars == <<mem, allocator, pd, pc, locals, view>>

Steps == {"none", "made", "run", "exec", "map", "apic", "copy", "zombie", "delete"}

TypeOK ==
  /\ mem \in [Frames -> [Words -> Nat]]
  /\ firstFree \in Frames \cup {0}
  /\ avail \in 1..(NFrames + 1)
  /\ panicked \in BOOLEAN
  /\ pd \in [Procs -> Frames \cup {0}]
  /\ pc \in [Procs -> Steps]
  /\ page \in [Procs -> 0..(Width * Width)]
  /\ frame \in [Procs -> Frames \cup {0}]
  /\ target \in [Procs -> Procs]
  /\ view \in [Procs -> [UserPages -> Values \cup {0}]]

Zeros == [w \in Words |-> 0]

(* The TCB of kernelMain has its directory and the APIC's table.           *)
Init ==
  /\ mem = [f \in Frames |->
              IF f = 1 THEN [Zeros EXCEPT ![Width - 1] = 2]
              ELSE IF f = 2 THEN [Zeros EXCEPT ![Width - 1] = apicFrame]
              ELSE Zeros]
  /\ firstFree = 0 /\ avail = 3 /\ panicked = FALSE
  /\ pd = [p \in Procs |-> IF p = First THEN 1 ELSE 0]
  /\ pc = [p \in Procs |-> IF p = First THEN "run" ELSE "none"]
  /\ page = [p \in Procs |-> 0]
  /\ frame = [p \in Procs |-> 0]
  /\ target = [p \in Procs |-> p]
  /\ view = [p \in Procs |-> [pg \in UserPages |-> 0]]

-----------------------------------------------------------------------------

GoTo(p, step) == pc' = [pc EXCEPT ![p] = step]

(* The page table of a page and the entry, 0 if there is none.             *)
Table(dir, pg) == mem[dir][pg \div Width]
Entry(dir, pg) == IF Table(dir, pg) = 0 THEN 0 ELSE mem[Table(dir, pg)][pg % Width]

Present(p) == {pg \in UserPages : Entry(pd[p], pg) # 0}

OutOfFrames == firstFree = 0 /\ avail = NFrames + 1

(* alloc_frame() when there is a frame; what is put into it, and where its *)
(* number goes, is up to the caller.                                       *)
NextFrame == IF firstFree # 0 THEN firstFree ELSE avail

alloc_frame ==
  /\ ~OutOfFrames
  /\ IF firstFree # 0
       THEN firstFree' = mem[firstFree][0] /\ UNCHANGED avail
       ELSE avail' = avail + 1 /\ UNCHANGED firstFree
  /\ UNCHANGED panicked

dealloc_frame(f) ==
  /\ mem' = [mem EXCEPT ![f][0] = firstFree]
  /\ firstFree' = f
  /\ UNCHANGED <<avail, panicked>>

(* map(), which may need a frame for the page table.                       *)
map(dir, pg, f) ==
  \/ /\ Table(dir, pg) # 0
     /\ mem' = [mem EXCEPT ![Table(dir, pg)][pg % Width] = f]
     /\ UNCHANGED allocator
  \/ /\ Table(dir, pg) = 0
     /\ alloc_frame
     /\ mem' = [mem EXCEPT ![dir][pg \div Width] = NextFrame,
                           ![NextFrame] = [Zeros EXCEPT ![pg % Width] = f]]

(* The program, or the kernel for it, writes to a page: to its first word, *)
(* which stands for all of them.                                           *)
Write(p, pg, v) ==
  /\ pc[p] = "run"
  /\ pg \in Present(p)
  /\ mem' = [mem EXCEPT ![Entry(pd[p], pg)][0] = v]
  /\ view' = [view EXCEPT ![p][pg] = v]
  /\ UNCHANGED <<allocator, pd, pc, locals>>

(* Fault: the frame is not cleared.                                        *)
PageFaultNoBzero(p, pg) ==
  /\ pc[p] = "run"
  /\ pg \in UserPages \ Present(p)
  /\ alloc_frame
  /\ frame' = [frame EXCEPT ![p] = NextFrame]
  /\ page' = [page EXCEPT ![p] = pg]
  /\ GoTo(p, "map")
  /\ UNCHANGED <<mem, pd, target, view>>

PageFault(p, pg) ==
  /\ pc[p] = "run"
  /\ pg \in UserPages \ Present(p)
  /\ alloc_frame
  /\ mem' = [mem EXCEPT ![NextFrame] = Zeros]
  /\ frame' = [frame EXCEPT ![p] = NextFrame]
  /\ page' = [page EXCEPT ![p] = pg]
  /\ GoTo(p, "map")
  /\ UNCHANGED <<pd, target, view>>

(* The end of a page fault, or of the copy of a page.                      *)
Map(p) ==
  /\ pc[p] = "map"
  /\ map(pd[target[p]], page[p], frame[p])
  /\ frame' = [frame EXCEPT ![p] = 0]
  /\ GoTo(p, IF target[p] = p THEN "run" ELSE "copy")
  /\ UNCHANGED <<pd, page, target, view>>

(* fork: the new TCB gets a directory, with the APIC mapped.               *)
Fork(p, q) ==
  /\ pc[p] = "run" /\ pc[q] = "none"
  /\ alloc_frame
  /\ mem' = [mem EXCEPT ![NextFrame] = Zeros]
  /\ pd' = [pd EXCEPT ![q] = NextFrame]
  /\ target' = [target EXCEPT ![p] = q]
  /\ pc' = [pc EXCEPT ![p] = "apic", ![q] = "made"]
  /\ UNCHANGED <<page, frame, view>>

MapApic(p) ==
  /\ pc[p] = "apic"
  /\ map(pd[target[p]], apicPage, apicFrame)
  /\ page' = [page EXCEPT ![p] = 0]
  /\ GoTo(p, "copy")
  /\ UNCHANGED <<pd, frame, target, view>>

(* fork goes through the pages that the parent has.                        *)
ToCopy(p) == {pg \in Present(p) : page[p] <= pg /\ Entry(pd[target[p]], pg) = 0}

NextToCopy(p, pg) == pg \in ToCopy(p) /\ \A q \in ToCopy(p) : pg <= q

(* Fault: the child gets the parent's frame.                               *)
CopyByReference(p, pg) ==
  /\ pc[p] = "copy"
  /\ NextToCopy(p, pg)
  /\ frame' = [frame EXCEPT ![p] = Entry(pd[p], pg)]
  /\ page' = [page EXCEPT ![p] = pg]
  /\ GoTo(p, "map")
  /\ UNCHANGED <<mem, allocator, pd, target, view>>

Copy(p, pg) ==
  /\ pc[p] = "copy"
  /\ NextToCopy(p, pg)
  /\ alloc_frame
  /\ mem' = [mem EXCEPT ![NextFrame] = mem[Entry(pd[p], pg)]]
  /\ frame' = [frame EXCEPT ![p] = NextFrame]
  /\ page' = [page EXCEPT ![p] = pg]
  /\ GoTo(p, "map")
  /\ UNCHANGED <<pd, target, view>>

(* All pages are copied, and the APIC's is mapped again as it was.         *)
ScheduleChild(p) ==
  /\ pc[p] = "copy" /\ ToCopy(p) = {}
  /\ pc' = [pc EXCEPT ![p] = "run", ![target[p]] = "run"]
  /\ view' = [view EXCEPT ![target[p]] = view[p]]
  /\ target' = [target EXCEPT ![p] = p]
  /\ UNCHANGED <<mem, allocator, pd, page, frame>>

(* exec, up to where the program is loaded.  The loop that is to clear the *)
(* private space goes up to memSize (sys.cc:254), which is below, and does *)
(* nothing.  Loading is writing to the pages as they are.                  *)
Exec(p) ==
  /\ pc[p] = "run" /\ p \in MayExec
  /\ GoTo(p, "exec")
  /\ UNCHANGED <<mem, allocator, pd, locals, view>>

Load(p) ==
  /\ pc[p] = "exec"
  /\ GoTo(p, "run")
  /\ UNCHANGED <<mem, allocator, pd, locals, view>>

Exit(p) ==
  /\ pc[p] = "run"
  /\ GoTo(p, "zombie")
  /\ view' = [view EXCEPT ![p] = [pg \in UserPages |-> 0]]
  /\ UNCHANGED <<mem, allocator, pd, locals>>

(* delete_zombies(), on whatever thread, and delete_pd().                  *)
Delete(p) ==
  /\ pc[p] = "zombie"
  /\ page' = [page EXCEPT ![p] = 0]
  /\ GoTo(p, "delete")
  /\ UNCHANGED <<mem, allocator, pd, frame, target, view>>

Tables(p) == {i \in Words : mem[pd[p]][i] # 0 /\ (pc[p] = "delete" => page[p] <= i)}

FreeTable(p, i) ==
  /\ pc[p] = "delete"
  /\ i \in Tables(p) /\ \A j \in Tables(p) : i <= j
  /\ dealloc_frame(mem[pd[p]][i])
  /\ page' = [page EXCEPT ![p] = i + 1]
  /\ UNCHANGED <<pd, pc, frame, target, view>>

FreeDirectory(p) ==
  /\ pc[p] = "delete" /\ Tables(p) = {}
  /\ dealloc_frame(pd[p])
  /\ pd' = [pd EXCEPT ![p] = 0]
  /\ page' = [page EXCEPT ![p] = 0]
  /\ GoTo(p, "none")
  /\ UNCHANGED <<frame, target, view>>

(* Whoever needs a frame when there is none stops the machine.             *)
Panic(p) ==
  /\ OutOfFrames
  /\ \/ pc[p] = "run"
     \/ pc[p] = "map" /\ Table(pd[target[p]], page[p]) = 0
     \/ pc[p] = "apic"
     \/ pc[p] = "copy" /\ ToCopy(p) # {}
  /\ panicked' = TRUE
  /\ UNCHANGED <<mem, firstFree, avail, pd, pc, locals, view>>

Step(p) ==
  \/ \E pg \in Touched : PageFault(p, pg) \/ Copy(p, pg)
  \/ \E pg \in Touched, v \in Values : Write(p, pg, v)
  \/ \E q \in Procs : Fork(p, q)
  \/ Map(p) \/ MapApic(p) \/ ScheduleChild(p) \/ Exec(p) \/ Load(p) \/ Exit(p)
  \/ Delete(p) \/ (\E i \in Words : FreeTable(p, i)) \/ FreeDirectory(p)
  \/ Panic(p)

Next == \E p \in Procs : ~panicked /\ Step(p)

Spec == Init /\ [][Next]_vars

-----------------------------------------------------------------------------

Alive == {p \in Procs : pc[p] \in {"run", "exec", "map", "apic", "copy"}}

(* What is in a page as its program sees it.                               *)
Content(p, pg) == IF pg \in Present(p) THEN mem[Entry(pd[p], pg)][0] ELSE 0

(* A program finds in its memory what it, or before fork its parent, wrote *)
(* there last, and zero where nobody did: frames are not shared after      *)
(* fork, and nothing of a dead process shows in a frame that is used again.*)
ReadsOwnWrites ==
  \A p \in Alive, pg \in UserPages : Content(p, pg) = view[p][pg]

(* The frames on the free list, by their place.                            *)
Free[n \in 0..NFrames] ==
  IF n = 0 THEN firstFree ELSE IF Free[n - 1] = 0 THEN 0 ELSE mem[Free[n - 1]][0]

(* The words and variables that refer to a frame, with the frame.          *)
References ==
  LET owners == {p \in Procs : pd[p] # 0} IN
  {<<"free", n, Free[n]>> : n \in {m \in 0..NFrames : Free[m] # 0}}
    \cup {<<"directory", p, pd[p]>> : p \in owners}
    \cup (UNION {{<<"table", <<p, i>>, mem[pd[p]][i]>> : i \in Tables(p)} : p \in owners})
    \cup (UNION {{<<"page", <<p, pg>>, Entry(pd[p], pg)>> : pg \in Present(p)} :
                 p \in {q \in owners : pc[q] # "delete"}})
    \cup {<<"local", p, frame[p]>> : p \in {q \in Procs : frame[q] # 0}}

(* A frame has one use: it is free, or a directory, or a table, or a page, *)
(* of one process; and none is handed out beyond the last (physmem.cc:30). *)
OneUsePerFrame ==
  /\ TypeOK
  /\ \A r, s \in References : r[3] = s[3] => r = s
  /\ \A r \in References : r[3] < avail

(* "stop should handle all deallocation through zombie queue deletion"     *)
(* (sys.cc:32): a frame that was handed out is in use or free again.       *)
NoFrameIsLost == \A f \in 1..(avail - 1) : \E r \in References : r[3] = f

(* "clear out all of private space" (sys.cc:253): the next program starts  *)
(* with empty pages.                                                       *)
ExecClearsPrivateSpace ==
  \A p \in Procs : pc[p] = "exec" => \A pg \in UserPages : Content(p, pg) = 0

=============================================================================
