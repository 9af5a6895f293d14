-------------------------------- MODULE Files --------------------------------
(***************************************************************************)
(* Files: open, seek and read of sys.cc, the path lookup and the blocks of *)
(* ext2.cc, the loops of block_io.cc, and the driver of ide.cc.            *)
(*                                                                         *)
(* Processes share the descriptors that they inherit, without a lock, and  *)
(* all of them share the drive, with one.  A read takes many steps: of the *)
(* system call, which loads the offset of the descriptor again and again,  *)
(* of the loop over the blocks of the file, and for each block of the loop *)
(* over sectors.  The disk does not change.  A cell stands for four bytes  *)
(* of it, and an inode has NDirect direct blocks instead of twelve.        *)
(***************************************************************************)
EXTENDS Integers, Sequences, FiniteSets

CONSTANTS
  Procs, Descs,
  W,                 \* offsets and sizes are taken modulo W (2^32)
  SectorSize, BlockSize,
  NDirect,           \* the direct blocks of an inode
  Disk,              \* the cells of the disk
  Contents,          \* per path of a file, what somebody stored there
  InodesPerGroup, InodeSize, GroupTable, \* from the super block
  Paths,             \* BOUND: what open() is called with
  Asks, Offsets,     \* BOUND: the sizes and offsets that are asked for
  MaxCalls,          \* BOUND: how many reads and seeks there are
  None

ASSUME FilesAssumption ==
  /\ W \in Nat \ {0} /\ SectorSize \in Nat \ {0} /\ BlockSize \in Nat \ {0}
  /\ BlockSize % SectorSize = 0
  /\ NDirect \in Nat /\ InodesPerGroup \in Nat \ {0} /\ InodeSize \in Nat
  /\ Asks \subseteq 0..(W - 1) /\ Offsets \subseteq 0..(W - 1)
  /\ MaxCalls \in Nat

VARIABLES
  file,      \* per descriptor, the inode number, 0 while it is not open
  offset,    \* per descriptor
  ideLock,   \* Ide::lock
  drive,     \* what the drive does, and the sector in its registers
  pc,        \* per process
  call,      \* per process, the descriptor and the size asked for
  num,       \* per process, num_to_read, which becomes n of read_all
  off,       \* per process, offset of read_all
  block,     \* per process, the block of the file that read() is at
  dev,       \* per process, offset and n of the read_all of the drive
  data,      \* per process, what came from the drive for that
  buffer,    \* per process, what came from the file
  bytes,     \* per process, bytes_read
  added,     \* per process, the offset on its way back into the descriptor
  panicked,
  calls,     \* how many reads and seeks there were
  start,     \* per process, the offsets that its read began with and read from
  alone,     \* the processes whose descriptor nobody moved since their call
  name       \* per descriptor, the path that it was opened with

descriptors == <<file, offset>>
device == <<ideLock, drive>>
blockLoop == <<num, off, block>>
sectorLoop == <<dev, data>>
result == <<buffer, bytes, added>>
history == <<calls, start, alone, name>>
vars == <<descriptors, device, pc, call, blockLoop, sectorLoop, result, panicked, history>>

Uint == 0..(W - 1)
Steps == {"out", "check", "clip", "start", "read", "entry", "lock", "command", "data",
          "unlock", "copy", "load", "store", "return"}

MinOf(a, b) == IF a <= b THEN a ELSE b

-----------------------------------------------------------------------------

(* Ext2::get_node(): where the inode is, by group.                         *)
Inode(number) ==
  LET table == Disk[GroupTable * BlockSize + (number - 1) \div InodesPerGroup]
      at == table * BlockSize + ((number - 1) % InodesPerGroup) * InodeSize IN
  [is_dir |-> Disk[at] = 4,
   size |-> Disk[at + 1],
   n_sectors |-> Disk[at + 2],
   direct |-> [i \in 0..(NDirect - 1) |-> Disk[at + 3 + i]],
   indirect |-> Disk[at + 3 + NDirect]]

(* A cell of a file, as Node::read_block() finds it; what reading through  *)
(* the drive gives is another matter, which DeliversTheFile is about.      *)
BlockIndex(node, i) ==
  IF i < NDirect THEN node.direct[i] ELSE Disk[node.indirect * BlockSize + i - NDirect]

Content(node, k) == Disk[BlockIndex(node, k \div BlockSize) * BlockSize + (k % BlockSize)]

(* Node::find(): entries are inode, total size, length of the name, name;  *)
(* the last one with the name counts.                                      *)
Find(node, part) ==
  LET scan[o \in 0..node.size, out \in Nat] ==
        IF o = node.size THEN out
        ELSE scan[MinOf(o + Content(node, o + 1), node.size),
                  IF Content(node, o + 3) = part THEN Content(node, o) ELSE out]
  IN  scan[0, 0]

(* Ext2::find() from the root: the inode after i parts of a path, 0 when a *)
(* part is not found, -1 when something that is no directory has parts.    *)
Lookup(path) ==
  LET walk[i \in 0..Len(path)] ==
        IF i = 0 THEN 2
        ELSE IF walk[i - 1] \in {0, -1} THEN walk[i - 1]
        ELSE IF ~Inode(walk[i - 1]).is_dir THEN -1
        ELSE Find(Inode(walk[i - 1]), path[i])
  IN  walk[Len(path)]

Node(d) == Inode(file[d])

(* As mkfs.ext2 makes the disk (Makefile:129): the inode of a file counts  *)
(* all blocks of what was stored in it, and they are on the disk.          *)
HoldsFile(node, contents) ==
  /\ contents \in Seq(Nat) /\ node.size = Len(contents) /\ node.size \in 0..(W - 1)
  /\ \A k \in 0..(node.size - 1) :
       LET b == k \div BlockSize IN
       /\ b < NDirect + BlockSize /\ b < node.n_sectors \div (BlockSize \div SectorSize)
       /\ BlockIndex(node, b) \in Nat /\ (b >= NDirect => node.indirect \in Nat)
       /\ \A i \in 0..(BlockSize - 1) : Disk[BlockIndex(node, b) * BlockSize + i] \in Nat
       /\ contents[k + 1] = Content(node, k)

ASSUME DiskAssumption ==
  \A path \in Paths :
    /\ Lookup(path) \in Int
    /\ Lookup(path) > 0 => HoldsFile(Inode(Lookup(path)), Contents[path])

-----------------------------------------------------------------------------

TypeOK ==
  /\ file \in [Descs -> Nat] /\ offset \in [Descs -> Uint]
  /\ ideLock \in BOOLEAN
  /\ drive \in [status : {"idle", "busy", "drq"}, sector : Nat]
  /\ pc \in [Procs -> Steps]
  /\ call \in [Procs -> [d : Descs \cup {None}, n : Uint]]
  /\ num \in [Procs -> Uint] /\ off \in [Procs -> Uint]
  /\ block \in [Procs -> Nat]
  /\ dev \in [Procs -> [off : Nat, num : 0..BlockSize, next : {"entry", "copy"}]]
  /\ data \in [Procs -> Seq(Nat)]
  /\ buffer \in [Procs -> Seq(Nat)]
  /\ bytes \in [Procs -> Uint] /\ added \in [Procs -> Uint]
  /\ panicked \in BOOLEAN
  /\ calls \in 0..MaxCalls
  /\ start \in [Procs -> [asked : Uint, read : Uint]]
  /\ alone \in SUBSET Procs
  /\ name \in [Descs -> Paths \cup {<<>>}]

NoCall == [d |-> None, n |-> 0]
Nowhere == [off |-> 0, num |-> 0, next |-> "copy"]
NotStarted == [asked |-> 0, read |-> 0]

Init ==
  /\ file = [d \in Descs |-> 0] /\ offset = [d \in Descs |-> 0]
  /\ ideLock = FALSE
  /\ drive = [status |-> "idle", sector |-> 0]
  /\ pc = [p \in Procs |-> "out"]
  /\ call = [p \in Procs |-> NoCall]
  /\ num = [p \in Procs |-> 0] /\ off = [p \in Procs |-> 0]
  /\ block = [p \in Procs |-> 0]
  /\ dev = [p \in Procs |-> Nowhere]
  /\ data = [p \in Procs |-> <<>>]
  /\ buffer = [p \in Procs |-> <<>>]
  /\ bytes = [p \in Procs |-> 0] /\ added = [p \in Procs |-> 0]
  /\ panicked = FALSE
  /\ calls = 0
  /\ start = [p \in Procs |-> NotStarted]
  /\ alone = {}
  /\ name = [d \in Descs |-> <<>>]

-----------------------------------------------------------------------------

GoTo(p, step) == pc' = [pc EXCEPT ![p] = step]

(* Whoever else is in a call on the descriptor is not alone with it.       *)
Disturb(p, d) == alone' = {q \in alone : q = p \/ call[q].d # d}

(* open; an assertion stops the machine when the path goes through a file. *)
open(p, d, path) ==
  /\ pc[p] = "out" /\ file[d] = 0
  /\ \/ /\ Lookup(path) > 0
        /\ file' = [file EXCEPT ![d] = Lookup(path)]
        /\ name' = [name EXCEPT ![d] = path]
        /\ UNCHANGED panicked
     \/ /\ Lookup(path) = -1
        /\ panicked' = TRUE
        /\ UNCHANGED <<file, name>>
  /\ UNCHANGED <<offset, device, pc, call, blockLoop, sectorLoop, result, calls, start, alone>>

seek(p, d, o) ==
  /\ pc[p] = "out" /\ file[d] # 0 /\ calls < MaxCalls
  /\ offset' = [offset EXCEPT ![d] = o]
  /\ Disturb(p, d)
  /\ calls' = calls + 1
  /\ UNCHANGED <<file, device, pc, call, blockLoop, sectorLoop, result, panicked, start, name>>

(* read, into a buffer away from the pages of the APICs.                   *)
Call(p, d, n) ==
  /\ pc[p] = "out" /\ file[d] # 0 /\ calls < MaxCalls
  /\ call' = [call EXCEPT ![p] = [d |-> d, n |-> n]]
  /\ num' = [num EXCEPT ![p] = n]
  /\ start' = [start EXCEPT ![p].asked = offset[d]]
  /\ alone' = alone \cup {p}
  /\ calls' = calls + 1
  /\ GoTo(p, "check")
  /\ UNCHANGED <<descriptors, device, off, block, sectorLoop, result, panicked, name>>

(* The end of the file: each time the offset is loaded anew.               *)
Check(p) ==
  LET d == call[p].d IN
  /\ pc[p] = "check"
  /\ GoTo(p, IF (offset[d] + num[p]) % W >= Node(d).size THEN "clip" ELSE "start")
  /\ UNCHANGED <<descriptors, device, call, blockLoop, sectorLoop, result, panicked, history>>

Clip(p) ==
  LET d == call[p].d IN
  /\ pc[p] = "clip"
  /\ num' = [num EXCEPT ![p] = (Node(d).size - offset[d]) % W]
  /\ GoTo(p, "start")
  /\ UNCHANGED <<descriptors, device, call, off, block, sectorLoop, result, panicked, history>>

Start(p) ==
  LET d == call[p].d IN
  /\ pc[p] = "start"
  /\ off' = [off EXCEPT ![p] = offset[d]]
  /\ start' = [start EXCEPT ![p].read = offset[d]]
  /\ GoTo(p, "read")
  /\ UNCHANGED <<descriptors, device, call, num, block, sectorLoop, result, panicked,
                 calls, alone, name>>

-----------------------------------------------------------------------------

(* read_all() of the file.  ReadEnds is the end of its loop and the early  *)
(* returns of read(), which for an offset outside gives -1.                *)
Finish(p, b) ==
  /\ bytes' = [bytes EXCEPT ![p] = b]
  /\ GoTo(p, "load")
  /\ num' = [num EXCEPT ![p] = 0] /\ off' = [off EXCEPT ![p] = 0]

Outside(p) == num[p] > 0 /\ off[p] > Node(call[p].d).size
AtEnd(p) == num[p] = 0 \/ off[p] = Node(call[p].d).size

(* Fault: only n = 0 ends the loop.                                        *)
ReadEndsAtZero(p) ==
  /\ pc[p] = "read"
  /\ Outside(p) \/ num[p] = 0
  /\ Finish(p, IF Outside(p) THEN W - 1 ELSE Len(buffer[p]))
  /\ UNCHANGED <<descriptors, device, call, block, sectorLoop, buffer, added, panicked, history>>

ReadEnds(p) ==
  /\ pc[p] = "read"
  /\ Outside(p) \/ AtEnd(p)
  /\ Finish(p, IF Outside(p) THEN W - 1 ELSE Len(buffer[p]))
  /\ UNCHANGED <<descriptors, device, call, block, sectorLoop, buffer, added, panicked, history>>

(* read_block() of the file, for a direct and for an indirect block.       *)
ReadBlock(p, b) ==
  dev' = [dev EXCEPT ![p] = [off |-> b * BlockSize, num |-> BlockSize, next |-> "copy"]]

ReadEntry(p, b, i) ==
  dev' = [dev EXCEPT ![p] = [off |-> b * BlockSize + i, num |-> 1, next |-> "entry"]]

ReadDirect(p) ==
  LET b == off[p] \div BlockSize IN
  /\ pc[p] = "read" /\ ~Outside(p) /\ ~AtEnd(p)
  /\ b < NDirect
  /\ block' = [block EXCEPT ![p] = b]
  /\ ReadBlock(p, Node(call[p].d).direct[b])
  /\ GoTo(p, "lock")
  /\ UNCHANGED <<descriptors, device, call, num, off, data, result, panicked, history>>

ReadIndirect(p) ==
  LET b == off[p] \div BlockSize IN
  /\ pc[p] = "read" /\ ~Outside(p) /\ ~AtEnd(p)
  /\ b >= NDirect
  /\ block' = [block EXCEPT ![p] = b]
  /\ ReadEntry(p, Node(call[p].d).indirect, b - NDirect)
  /\ GoTo(p, "lock")
  /\ UNCHANGED <<descriptors, device, call, num, off, data, result, panicked, history>>

(* The table entry is there.                                               *)
Entry(p) ==
  /\ pc[p] = "entry"
  /\ ReadBlock(p, data[p][1])
  /\ data' = [data EXCEPT ![p] = <<>>]
  /\ GoTo(p, "lock")
  /\ UNCHANGED <<descriptors, device, call, blockLoop, result, panicked, history>>

(* The block is there: the part that was asked for goes into the buffer,   *)
(* for a whole block without the detour, and the loop goes on behind it.   *)
Copy(p) ==
  LET o == off[p] % BlockSize
      n == MinOf(BlockSize - o, MinOf(num[p], Node(call[p].d).size - off[p])) IN
  /\ pc[p] = "copy"
  /\ buffer' = [buffer EXCEPT ![p] = @ \o SubSeq(data[p], o + 1, o + n)]
  /\ off' = [off EXCEPT ![p] = @ + n]
  /\ num' = [num EXCEPT ![p] = @ - n]
  /\ data' = [data EXCEPT ![p] = <<>>]
  /\ dev' = [dev EXCEPT ![p] = Nowhere]
  /\ block' = [block EXCEPT ![p] = 0]
  /\ GoTo(p, "read")
  /\ UNCHANGED <<descriptors, device, call, bytes, added, panicked, history>>

-----------------------------------------------------------------------------

(* Ide::read_block(), for the sector that the loop is at.                  *)
Sector(p) == dev[p].off \div SectorSize

(* Fault: the lock is not looked at.                                       *)
LockAnyway(p) ==
  /\ pc[p] = "lock"
  /\ ideLock' = TRUE
  /\ GoTo(p, "command")
  /\ UNCHANGED <<descriptors, drive, call, blockLoop, sectorLoop, result, panicked, history>>

Lock(p) ==
  /\ pc[p] = "lock" /\ ~ideLock
  /\ ideLock' = TRUE
  /\ GoTo(p, "command")
  /\ UNCHANGED <<descriptors, drive, call, blockLoop, sectorLoop, result, panicked, history>>

Command(p) ==
  /\ pc[p] = "command" /\ drive.status # "busy"
  /\ drive' = [status |-> "busy", sector |-> Sector(p)]
  /\ GoTo(p, "data")
  /\ UNCHANGED <<descriptors, ideLock, call, blockLoop, sectorLoop, result, panicked, history>>

(* The drive itself has the sector in its buffer.                          *)
DriveReady ==
  /\ drive.status = "busy"
  /\ drive' = [drive EXCEPT !.status = "drq"]
  /\ UNCHANGED <<descriptors, ideLock, pc, call, blockLoop, sectorLoop, result, panicked, history>>

(* The words of the sector, of which read() may want a part, and the next  *)
(* turn of read_all().                                                     *)
Data(p) ==
  LET o == dev[p].off % SectorSize
      n == MinOf(SectorSize - o, dev[p].num) IN
  /\ pc[p] = "data" /\ drive.status = "drq"
  /\ data' = [data EXCEPT ![p] =
                @ \o [i \in 1..n |-> Disk[drive.sector * SectorSize + o + i - 1]]]
  /\ dev' = [dev EXCEPT ![p].off = @ + n, ![p].num = @ - n]
  /\ drive' = [drive EXCEPT !.status = "idle"]
  /\ GoTo(p, "unlock")
  /\ UNCHANGED <<descriptors, ideLock, call, blockLoop, result, panicked, history>>

(* Fault: a sector is all that is read of a block.                         *)
UnlockAfterOne(p) ==
  /\ pc[p] = "unlock"
  /\ ideLock' = FALSE
  /\ GoTo(p, dev[p].next)
  /\ UNCHANGED <<descriptors, drive, call, blockLoop, sectorLoop, result, panicked, history>>

Unlock(p) ==
  /\ pc[p] = "unlock"
  /\ ideLock' = FALSE
  /\ GoTo(p, IF dev[p].num > 0 THEN "lock" ELSE dev[p].next)
  /\ UNCHANGED <<descriptors, drive, call, blockLoop, sectorLoop, result, panicked, history>>

-----------------------------------------------------------------------------

(* offset += bytes_read, which is no atomic operation.                     *)
LoadOffset(p) ==
  /\ pc[p] = "load"
  /\ added' = [added EXCEPT ![p] = (offset[call[p].d] + bytes[p]) % W]
  /\ GoTo(p, "store")
  /\ UNCHANGED <<descriptors, device, call, blockLoop, sectorLoop, buffer, bytes, panicked, history>>

(* Fault: the offset becomes the number of bytes.                          *)
StoreBytes(p) ==
  /\ pc[p] = "store"
  /\ offset' = [offset EXCEPT ![call[p].d] = bytes[p]]
  /\ Disturb(p, call[p].d)
  /\ GoTo(p, "return")
  /\ UNCHANGED <<file, device, call, blockLoop, sectorLoop, result, panicked, calls, start, name>>

StoreOffset(p) ==
  /\ pc[p] = "store"
  /\ offset' = [offset EXCEPT ![call[p].d] = added[p]]
  /\ Disturb(p, call[p].d)
  /\ GoTo(p, "return")
  /\ UNCHANGED <<file, device, call, blockLoop, sectorLoop, result, panicked, calls, start, name>>

Return(p) ==
  /\ pc[p] = "return"
  /\ GoTo(p, "out")
  /\ call' = [call EXCEPT ![p] = NoCall]
  /\ buffer' = [buffer EXCEPT ![p] = <<>>]
  /\ bytes' = [bytes EXCEPT ![p] = 0] /\ added' = [added EXCEPT ![p] = 0]
  /\ start' = [start EXCEPT ![p] = NotStarted]
  /\ alone' = alone \ {p}
  /\ UNCHANGED <<descriptors, device, blockLoop, sectorLoop, panicked, calls, name>>

-----------------------------------------------------------------------------

(* The steps of a read that has begun.                                     *)
Continue(p) ==
  \/ Check(p) \/ Clip(p) \/ Start(p)
  \/ ReadEnds(p) \/ ReadDirect(p) \/ ReadIndirect(p) \/ Entry(p) \/ Copy(p)
  \/ Lock(p) \/ Command(p) \/ Data(p) \/ Unlock(p)
  \/ LoadOffset(p) \/ StoreOffset(p) \/ Return(p)

Request(p, d) ==
  \/ \E path \in Paths : open(p, d, path)
  \/ \E o \in Offsets : seek(p, d, o)
  \/ \E n \in Asks : Call(p, d, n)

Next ==
  /\ ~panicked
  /\ \/ DriveReady
     \/ \E p \in Procs : Continue(p) \/ \E d \in Descs : Request(p, d)

(* The drive answers, and a process that is in the kernel goes on.  Nobody *)
(* has to call.                                                            *)
Fairness ==
  /\ WF_vars(~panicked /\ DriveReady)
  /\ \A p \in Procs : WF_vars(~panicked /\ Continue(p))

Spec == Init /\ [][Next]_vars /\ Fairness

-----------------------------------------------------------------------------

(* "-1 error" (block_io.h:50): what read() returns for that.               *)
Failed(p) == bytes[p] = W - 1

(* What a read returns is what is stored under the path of the descriptor, *)
(* from the offset that it began to read at, whatever other processes do   *)
(* with the drive and the descriptor, in blocks and in parts of blocks.    *)
DeliversTheFile ==
  \A p \in Procs :
    pc[p] = "return" /\ ~Failed(p) =>
      /\ Len(buffer[p]) = bytes[p]
      /\ buffer[p] = SubSeq(Contents[name[call[p].d]],
                            start[p].read + 1, start[p].read + bytes[p])

(* The assertions of read(), read_block() and read_all() on the way: the   *)
(* part is in the block and in the file, the block is one that the inode   *)
(* has, directly or in its one indirect block, and the drive gave all of   *)
(* it.                                                                     *)
AssertionsHold ==
  /\ TypeOK
  /\ \A p \in Procs :
       LET node == Node(call[p].d)
           o == off[p] % BlockSize
           n == MinOf(BlockSize - o, MinOf(num[p], node.size - off[p])) IN
       /\ pc[p] \in {"lock", "command", "data", "unlock", "entry", "copy"} =>
            /\ block[p] < node.n_sectors \div (BlockSize \div SectorSize)
            /\ block[p] < NDirect + BlockSize
            /\ n <= num[p] /\ off[p] + n <= node.size /\ o + n <= BlockSize
       /\ pc[p] = "entry" => Len(data[p]) = 1
       /\ pc[p] = "copy" => Len(data[p]) = BlockSize

(* A read of a descriptor that nobody else moves in the meantime delivers  *)
(* what was asked for, as far as the file goes, and moves the offset       *)
(* behind it: wrapped sums and differences do not matter.                  *)
AloneReadsInOrder ==
  \A p \in alone :
    LET from == start[p].asked
        size == Len(Contents[name[call[p].d]]) IN
    pc[p] = "return" /\ from <= size =>
      /\ start[p].read = from
      /\ bytes[p] = MinOf(call[p].n, size - from)
      /\ offset[call[p].d] = from + bytes[p]

(* "reads up to nbytes" (test.dir/sbin/sys.h:32).                          *)
ReadsAtMostAsked ==
  \A p \in Procs : pc[p] = "return" /\ ~Failed(p) => bytes[p] <= call[p].n

(* Every read returns, also one whose size has wrapped around.             *)
EveryReadReturns ==
  \A p \in Procs : (pc[p] # "out") ~> (pc[p] = "out" \/ panicked)

=============================================================================
