----------------------------- MODULE FilesProofs -----------------------------
(***************************************************************************)
(* Proofs about a read of a shared descriptor, for any number of processes *)
(* and descriptors, any sizes of words, sectors and blocks, and any disk   *)
(* that holds a file system.                                               *)
(*                                                                         *)
(* A read is a loop over blocks with a loop over sectors in it, and the    *)
(* drive, which all processes share, in the middle.  The invariant says of *)
(* a process how far each loop has got: what is in its buffer is the file  *)
(* from where it began, and what is in its hands of a block is the disk    *)
(* from the start of that block.  Of a process that is alone with its      *)
(* descriptor it also says what is left to read.                           *)
(***************************************************************************)
EXTENDS Files, SequenceTheorems, TLAPS

Fetching == {"lock", "command", "data", "unlock", "entry", "copy"}
Loop == {"read"} \cup Fetching
Ending == {"load", "store", "return"}

Nd(p) == Node(call[p].d)
Text(p) == Contents[name[call[p].d]]

(* A descriptor that is open has the inode of its path.                    *)
Opened ==
  \A d \in Descs : file[d] # 0 =>
    name[d] \in Paths /\ file[d] = Lookup(name[d]) /\ file[d] > 0

(* One process has the drive, and the drive has its sector.                *)
OneAtTheDrive ==
  \A p \in Procs : pc[p] \in {"command", "data", "unlock"} =>
    /\ ideLock
    /\ \A q \in Procs : pc[q] \in {"command", "data", "unlock"} => q = p
    /\ pc[p] = "data" => drive.sector = Sector(p)

InCall(p) == pc[p] # "out" => call[p].d \in Descs /\ file[call[p].d] # 0

(* The buffer has the file from where the read began.                      *)
IsFile(p) ==
  /\ buffer[p] # <<>> => start[p].read + Len(buffer[p]) <= Nd(p).size
  /\ \A i \in 1..Len(buffer[p]) : buffer[p][i] = Text(p)[start[p].read + i]

BufferOK(p) ==
  /\ pc[p] \in {"out", "check", "clip", "start"} => buffer[p] = <<>>
  /\ pc[p] \in Loop => off[p] = start[p].read + Len(buffer[p]) /\ IsFile(p)
  /\ pc[p] \in Ending /\ ~Failed(p) => bytes[p] = Len(buffer[p]) /\ IsFile(p)

(* What is fetched from the drive, a block or an entry of the indirect     *)
(* block, and where it is on the disk.                                     *)
Part(p) == IF dev[p].next = "copy" THEN BlockSize ELSE 1
From(p) == IF dev[p].next = "copy" THEN BlockIndex(Nd(p), block[p]) * BlockSize
           ELSE Nd(p).indirect * BlockSize + (block[p] - NDirect)

FetchOK(p) ==
  /\ pc[p] \notin Fetching => data[p] = <<>>
  /\ pc[p] \in Fetching =>
       /\ num[p] > 0 /\ off[p] < Nd(p).size
       /\ block[p] = off[p] \div BlockSize
       /\ dev[p].next = "entry" => block[p] >= NDirect
       /\ dev[p].num <= Part(p) /\ dev[p].off = From(p) + Part(p) - dev[p].num
       /\ Len(data[p]) = Part(p) - dev[p].num
       /\ \A i \in 1..Len(data[p]) : data[p][i] = Disk[From(p) + i - 1]
  /\ pc[p] \in {"lock", "command", "data"} => dev[p].num > 0
  /\ pc[p] \in {"entry", "copy"} => dev[p].num = 0 /\ dev[p].next = pc[p]

(* What a process that is alone with its descriptor has still to read.     *)
Wanted(p) == MinOf(call[p].n, Nd(p).size - start[p].asked)

AloneOK(p) ==
  p \in alone =>
    /\ pc[p] # "out"
    /\ pc[p] # "return" => offset[call[p].d] = start[p].asked
    /\ start[p].asked <= Nd(p).size =>
         /\ pc[p] \in {"check", "clip"} => num[p] = call[p].n
         /\ pc[p] = "clip" => (start[p].asked + num[p]) % W >= Nd(p).size
         /\ pc[p] = "start" => MinOf(num[p], Nd(p).size - start[p].asked) = Wanted(p)
         /\ pc[p] \in Loop \cup Ending => start[p].read = start[p].asked
         /\ pc[p] \in Loop => MinOf(num[p], Nd(p).size - off[p]) + Len(buffer[p]) = Wanted(p)
         /\ pc[p] \in Ending => bytes[p] = Wanted(p)
         /\ pc[p] = "store" => added[p] = start[p].asked + bytes[p]
         /\ pc[p] = "return" => offset[call[p].d] = start[p].asked + bytes[p]

ProcOK(p) == InCall(p) /\ BufferOK(p) /\ FetchOK(p) /\ AloneOK(p)

IInv == TypeOK /\ Opened /\ OneAtTheDrive /\ \A p \in Procs : ProcOK(p)

-----------------------------------------------------------------------------
(* Arithmetic.                                                             *)

LEMMA Division ==
  ASSUME NEW m \in Nat \ {0}, NEW k \in Nat
  PROVE  /\ k \div m \in Nat /\ k % m \in 0..(m - 1) /\ k = m * (k \div m) + (k % m)
         /\ \A j \in Nat : (k % m) + j < m => (k + j) \div m = k \div m /\ (k + j) % m = (k % m) + j
<1>0. m \in Nat /\ m > 0 /\ k \in Int
  OBVIOUS
<1>1. k % m \in 0..(m - 1) /\ k = m * (k \div m) + (k % m) /\ k \div m \in Int
  BY <1>0
<1>2. \A x \in Int : x < 0 => m * x <= -m
  OBVIOUS
<1>3. k \div m \in Nat
  BY <1>1, <1>2
<1>4. ASSUME NEW j \in Nat, (k % m) + j < m
      PROVE  (k + j) \div m = k \div m /\ (k + j) % m = (k % m) + j
  <2>0. k + j \in Int
    OBVIOUS
  <2>1. /\ k + j = m * ((k + j) \div m) + ((k + j) % m) /\ (k + j) % m \in 0..(m - 1)
        /\ (k + j) \div m \in Int
    BY <1>0, <2>0
  <2> DEFINE a == (k + j) \div m
             b == k \div m
             r == (k + j) % m
             s == (k % m) + j
  <2>2. a \in Int /\ b \in Int /\ r \in 0..(m - 1) /\ s \in 0..(m - 1) /\ m * a + r = m * b + s
    BY <1>1, <1>4, <2>1
  <2> HIDE DEF a, b, r, s
  <2>3. \A x, y \in Int : x < y => m * x + m <= m * y
    OBVIOUS
  <2>4. a = b
    <3>1. m * a \in Int /\ m * b \in Int
      BY <2>2
    <3>2. ~(a < b) /\ ~(b < a)
      BY <2>2, <2>3, <3>1
    <3> QED BY <2>2, <3>2
  <2>5. r = s
    <3>1. m * a \in Int /\ m * b \in Int /\ m * a = m * b
      BY <2>2, <2>4
    <3> QED BY <2>2, <3>1
  <2> QED BY <2>4, <2>5 DEF a, b, r, s
<1> QED BY <1>1, <1>3, <1>4

LEMMA Sizes ==
  /\ W \in Nat \ {0} /\ SectorSize \in Nat \ {0} /\ BlockSize \in Nat \ {0}
  /\ NDirect \in Nat /\ MaxCalls \in Nat /\ Asks \subseteq Uint /\ Offsets \subseteq Uint
  /\ \A k \in Int : k % W \in Uint /\ (k \in Uint => k % W = k)
<1>1. /\ W \in Nat \ {0} /\ SectorSize \in Nat \ {0} /\ BlockSize \in Nat \ {0}
      /\ NDirect \in Nat /\ MaxCalls \in Nat /\ Asks \subseteq Uint /\ Offsets \subseteq Uint
  BY FilesAssumption DEF Uint
<1>2. ASSUME NEW k \in Int PROVE k % W \in Uint
  BY <1>1 DEF Uint
<1>3. ASSUME NEW k \in Uint PROVE k % W = k
  <2>1. /\ k \in Int /\ k = W * (k \div W) + (k % W) /\ k % W \in 0..(W - 1) /\ k \div W \in Int
    BY <1>1 DEF Uint
  <2>2. \A x \in Int : (x < 0 => W * x <= -W) /\ (x > 0 => W * x >= W)
    BY <1>1
  <2>3. k \div W = 0
    BY <1>1, <1>3, <2>1, <2>2 DEF Uint
  <2>4. W * (k \div W) = 0
    BY <1>1, <2>3
  <2> QED BY <2>1, <2>4
<1> QED BY <1>1, <1>2, <1>3

(* A buffer that has the file from some place on is that part of the file. *)
LEMMA PartOfFile ==
  ASSUME NEW s \in Seq(Nat), NEW b \in Seq(Nat), NEW r \in Nat,
         b # <<>> => r + Len(b) <= Len(s), \A i \in 1..Len(b) : b[i] = s[r + i]
  PROVE  b = SubSeq(s, r + 1, r + Len(b))
<1>1. Len(b) \in Nat /\ Len(s) \in Nat
  BY LenProperties
<1>2. CASE b = <<>>
  <2>1. Len(b) = 0
    BY <1>2
  <2>2. r + Len(b) < r + 1 /\ r + 1 \in Int /\ r + Len(b) \in Int
    BY <1>1, <2>1
  <2> QED BY <1>2, <2>2, SubSeqEmpty
<1>3. CASE b # <<>>
  <2>1. \A i \in (r + 1)..(r + Len(b)) : i \in 1..Len(s)
    BY <1>1, <1>3
  <2>2. \A i \in (r + 1)..(r + Len(b)) : s[i] \in Nat
    BY <2>1, ElementOfSeq
  <2>3. r + 1 \in Int /\ r + Len(b) \in Int /\ Len(b) # 0
    BY <1>1, <1>3, EmptySeq
  <2>4. /\ SubSeq(s, r + 1, r + Len(b)) \in Seq(Nat)
        /\ Len(SubSeq(s, r + 1, r + Len(b))) = IF r + 1 <= r + Len(b) THEN r + Len(b) - (r + 1) + 1 ELSE 0
        /\ \A i \in 1..(r + Len(b) - (r + 1) + 1) : SubSeq(s, r + 1, r + Len(b))[i] = s[(r + 1) + i - 1]
    BY <2>2, <2>3, SubSeqProperties
  <2>5. Len(SubSeq(s, r + 1, r + Len(b))) = Len(b)
    BY <1>1, <2>3, <2>4
  <2>6. \A i \in 1..Len(b) : b[i] = SubSeq(s, r + 1, r + Len(b))[i]
    <3>1. ASSUME NEW i \in 1..Len(b) PROVE b[i] = SubSeq(s, r + 1, r + Len(b))[i]
      <4>1. i \in 1..(r + Len(b) - (r + 1) + 1) /\ (r + 1) + i - 1 = r + i
        BY <1>1
      <4> QED BY <2>4, <4>1
    <3> QED BY <3>1
  <2> QED BY <2>4, <2>5, <2>6, SeqEqual
<1> QED BY <1>2, <1>3

-----------------------------------------------------------------------------
(* What an open descriptor leads to.                                       *)

LEMMA FileFacts ==
  ASSUME TypeOK, Opened, NEW d \in Descs, file[d] # 0
  PROVE  /\ name[d] \in Paths /\ HoldsFile(Node(d), Contents[name[d]])
         /\ Node(d).size \in Nat /\ Node(d).size \in Uint
         /\ Contents[name[d]] \in Seq(Nat) /\ Node(d).size = Len(Contents[name[d]])
<1>1. name[d] \in Paths /\ file[d] = Lookup(name[d]) /\ Lookup(name[d]) > 0
  BY DEF Opened
<1>2. HoldsFile(Node(d), Contents[name[d]])
  BY <1>1, DiskAssumption DEF Node
<1>3. /\ Contents[name[d]] \in Seq(Nat) /\ Node(d).size = Len(Contents[name[d]])
      /\ Node(d).size \in 0..(W - 1)
  BY <1>2 DEF HoldsFile
<1>4. Node(d).size \in Nat
  BY <1>3, Sizes
<1> QED BY <1>1, <1>2, <1>3, <1>4 DEF Uint

LEMMA CallFacts ==
  ASSUME TypeOK, Opened, NEW p \in Procs, InCall(p), pc[p] # "out"
  PROVE  /\ call[p].d \in Descs /\ file[call[p].d] # 0
         /\ HoldsFile(Nd(p), Text(p)) /\ Nd(p).size \in Nat /\ Nd(p).size \in Uint
         /\ Text(p) \in Seq(Nat) /\ Nd(p).size = Len(Text(p))
BY FileFacts DEF InCall, Nd, Text

(* A cell of a file and the block it is in.                                *)
LEMMA BlockFacts ==
  ASSUME NEW node, NEW contents, HoldsFile(node, contents), NEW k \in Nat, k < node.size
  PROVE  LET b == k \div BlockSize IN
         /\ b \in Nat /\ b < NDirect + BlockSize
         /\ b < node.n_sectors \div (BlockSize \div SectorSize)
         /\ BlockIndex(node, b) \in Nat /\ (b >= NDirect => node.indirect \in Nat)
         /\ \A i \in 0..(BlockSize - 1) : Disk[BlockIndex(node, b) * BlockSize + i] \in Nat
         /\ contents[k + 1] = Disk[BlockIndex(node, b) * BlockSize + (k % BlockSize)]
<1>1. node.size \in Nat /\ k \in 0..(node.size - 1)
  <2>1. node.size \in 0..(W - 1)
    BY DEF HoldsFile
  <2>2. node.size \in Nat
    BY <2>1, Sizes
  <2> QED BY <2>2
<1>2. k \div BlockSize \in Nat
  BY Division, Sizes
<1>3. contents[k + 1] = Content(node, k)
  BY <1>1 DEF HoldsFile
<1> QED BY <1>1, <1>2, <1>3 DEF HoldsFile, Content

-----------------------------------------------------------------------------
(* Who is not involved in a step.                                          *)

Same(q) ==
  /\ pc'[q] = pc[q] /\ call'[q] = call[q] /\ num'[q] = num[q] /\ off'[q] = off[q]
  /\ block'[q] = block[q] /\ dev'[q] = dev[q] /\ data'[q] = data[q]
  /\ buffer'[q] = buffer[q] /\ bytes'[q] = bytes[q] /\ added'[q] = added[q]
  /\ start'[q] = start[q]

(* Open descriptors stay as they are.                                      *)
FilesStay == \A d \in Descs : file[d] # 0 => file'[d] = file[d] /\ name'[d] = name[d]

(* Whoever stays alone keeps the offset.                                   *)
StaysAlone(q) == q \in alone' => q \in alone /\ offset'[call[q].d] = offset[call[q].d]

LEMMA NodeStays ==
  ASSUME NEW q \in Procs, InCall(q), FilesStay, call'[q] = call[q], pc[q] # "out"
  PROVE  Nd(q)' = Nd(q) /\ Text(q)' = Text(q)
BY DEF InCall, FilesStay, Nd, Text, Node

LEMMA Bystander ==
  ASSUME NEW q \in Procs, ProcOK(q), Same(q), FilesStay, StaysAlone(q)
  PROVE  ProcOK(q)'
<1>1. pc[q] # "out" => Nd(q)' = Nd(q) /\ Text(q)' = Text(q)
  BY NodeStays DEF ProcOK, Same
<1>2. InCall(q)'
  BY DEF ProcOK, InCall, Same, FilesStay
<1>3. Failed(q)' <=> Failed(q)
  BY DEF Failed, Same
<1>4. pc[q] # "out" => (IsFile(q)' <=> IsFile(q))
  BY <1>1 DEF IsFile, Same
<1>5. BufferOK(q)'
  BY <1>3, <1>4 DEF ProcOK, BufferOK, Same, Loop, Fetching, Ending
<1>6. pc[q] # "out" => Part(q)' = Part(q) /\ From(q)' = From(q)
  BY <1>1 DEF Part, From, Same
<1>7. FetchOK(q)'
  <2>1. /\ Same(q) /\ FetchOK(q) /\ (pc[q] \in Fetching => pc[q] # "out")
    BY DEF ProcOK, Fetching
  <2> QED BY <1>1, <1>6, <2>1 DEF FetchOK, Same
<1>8. AloneOK(q)'
  <2>1. CASE q \in alone'
    <3>1. q \in alone /\ AloneOK(q) /\ pc[q] # "out" /\ offset'[call[q].d] = offset[call[q].d]
      BY <2>1 DEF StaysAlone, ProcOK, AloneOK
    <3>2. Nd(q)' = Nd(q) /\ Wanted(q)' = Wanted(q)
      BY <1>1, <3>1 DEF Wanted, Same
    <3> QED BY <3>1, <3>2 DEF AloneOK, Same
  <2>2. CASE q \notin alone'
    BY <2>2 DEF AloneOK
  <2> QED BY <2>1, <2>2
<1> QED BY <1>2, <1>5, <1>7, <1>8 DEF ProcOK

(* A step of p that is not about the drive.                                *)
LEMMA DriveAside ==
  ASSUME NEW p \in Procs, OneAtTheDrive, \A q \in Procs : q # p => Same(q),
         ideLock' = ideLock, drive' = drive,
         pc'[p] \notin {"command", "data", "unlock"}, pc[p] \notin {"command", "data", "unlock"}
  PROVE  OneAtTheDrive'
<1> SUFFICES ASSUME NEW q \in Procs, pc'[q] \in {"command", "data", "unlock"}
             PROVE  /\ ideLock'
                    /\ \A r \in Procs : pc'[r] \in {"command", "data", "unlock"} => r = q
                    /\ pc'[q] = "data" => drive'.sector = Sector(q)'
  BY DEF OneAtTheDrive
<1>1. q # p /\ pc'[q] = pc[q] /\ Sector(q)' = Sector(q)
  BY DEF Same, Sector
<1>2. \A r \in Procs : pc'[r] \in {"command", "data", "unlock"} =>
        pc[r] \in {"command", "data", "unlock"}
  BY DEF Same
<1> QED BY <1>1, <1>2 DEF OneAtTheDrive

(* What is left to show of a step of p.                                    *)
LEMMA StepOf ==
  ASSUME IInv, NEW p \in Procs, TypeOK', Opened', OneAtTheDrive', FilesStay,
         \A q \in Procs : q # p => Same(q) /\ StaysAlone(q), ProcOK(p)'
  PROVE  IInv'
<1>1. \A q \in Procs : q # p => ProcOK(q)'
  BY Bystander DEF IInv
<1> QED BY <1>1 DEF IInv

LEMMA SameFiles ==
  ASSUME Opened, file' = file, name' = name
  PROVE  Opened' /\ FilesStay
BY DEF Opened, FilesStay

LEMMA SameOffsets ==
  ASSUME alone' = alone, offset' = offset
  PROVE  \A q \in Procs : StaysAlone(q)
BY DEF StaysAlone

-----------------------------------------------------------------------------
(* read() up to the loop.                                                  *)

LEMMA CheckKeepsIInv ==
  ASSUME IInv, NEW p \in Procs, Check(p)
  PROVE  IInv'
<1>1. TypeOK /\ Opened /\ OneAtTheDrive /\ ProcOK(p)
  BY DEF IInv
<1>2. /\ pc[p] = "check" /\ pc'[p] \in {"clip", "start"}
      /\ pc'[p] = "clip" <=> (offset[call[p].d] + num[p]) % W >= Nd(p).size
      /\ UNCHANGED <<descriptors, device, call, blockLoop, sectorLoop, result, panicked, history>>
      /\ pc' \in [Procs -> Steps]
      /\ \A q \in Procs : q # p => pc'[q] = pc[q]
  BY <1>1 DEF Check, GoTo, TypeOK, Steps, Nd
<1>3. TypeOK'
  BY <1>1, <1>2 DEF TypeOK, descriptors, device, blockLoop, sectorLoop, result, history
<1>4. \A q \in Procs : q # p => Same(q)
  BY <1>2 DEF Same, blockLoop, sectorLoop, result, history
<1>5. Opened' /\ FilesStay /\ \A q \in Procs : StaysAlone(q)
  BY <1>1, <1>2, SameFiles, SameOffsets DEF descriptors, history
<1>6. OneAtTheDrive'
  BY <1>1, <1>2, <1>4, DriveAside DEF device
<1>7. ProcOK(p)'
  <2>1. Nd(p)' = Nd(p) /\ Text(p)' = Text(p)
    BY <1>1, <1>2, <1>5, NodeStays DEF ProcOK
  <2>2. InCall(p)'
    BY <1>1, <1>2 DEF ProcOK, InCall, descriptors
  <2>3. BufferOK(p)'
    BY <1>1, <1>2 DEF ProcOK, BufferOK, Loop, Fetching, Ending, result
  <2>4. FetchOK(p)'
    BY <1>1, <1>2 DEF ProcOK, FetchOK, Fetching, sectorLoop
  <2>5. AloneOK(p)'
    <3>1. SUFFICES ASSUME p \in alone PROVE AloneOK(p)'
      BY <1>2 DEF AloneOK, history
    <3>2. offset[call[p].d] = start[p].asked /\ Wanted(p)' = Wanted(p)
      BY <1>1, <1>2, <2>1, <3>1 DEF ProcOK, AloneOK, Wanted, history
    <3>3. ASSUME start[p].asked <= Nd(p).size, pc'[p] = "start"
          PROVE  MinOf(num[p], Nd(p).size - start[p].asked) = Wanted(p)
      BY <1>1, <1>2, <3>1, <3>3 DEF ProcOK, AloneOK, Wanted
    <3> QED BY <1>1, <1>2, <2>1, <3>1, <3>2, <3>3
         DEF ProcOK, AloneOK, Loop, Fetching, Ending, history, blockLoop, descriptors
  <2> QED BY <2>2, <2>3, <2>4, <2>5 DEF ProcOK
<1> QED BY <1>3, <1>4, <1>5, <1>6, <1>7, StepOf

LEMMA ClipKeepsIInv ==
  ASSUME IInv, NEW p \in Procs, Clip(p)
  PROVE  IInv'
<1>1. TypeOK /\ Opened /\ OneAtTheDrive /\ ProcOK(p)
  BY DEF IInv
<1>2. /\ pc[p] = "clip" /\ num'[p] = (Nd(p).size - offset[call[p].d]) % W
      /\ UNCHANGED <<descriptors, device, call, off, block, sectorLoop, result, panicked, history>>
      /\ pc' = [pc EXCEPT ![p] = "start"]
      /\ num' = [num EXCEPT ![p] = (Nd(p).size - offset[call[p].d]) % W]
  BY <1>1 DEF Clip, GoTo, TypeOK, Nd
<1>3. pc'[p] = "start" /\ pc' \in [Procs -> Steps] /\ \A q \in Procs : q # p => pc'[q] = pc[q]
  BY <1>1, <1>2 DEF TypeOK, Steps
<1>4. /\ call[p].d \in Descs /\ Nd(p).size \in Uint /\ offset[call[p].d] \in Uint
      /\ start[p].asked \in Uint /\ call[p].n \in Uint /\ num[p] \in Uint
  BY <1>1, <1>2, CallFacts DEF ProcOK, TypeOK
<1>5. (Nd(p).size - offset[call[p].d]) % W \in Uint
  <2>1. Nd(p).size - offset[call[p].d] \in Int
    BY <1>4, Sizes DEF Uint
  <2> QED BY <2>1, Sizes
<1>6. num' \in [Procs -> Uint] /\ \A q \in Procs : q # p => num'[q] = num[q]
  BY <1>1, <1>2, <1>5 DEF TypeOK
<1>7. TypeOK'
  BY <1>1, <1>2, <1>3, <1>6 DEF TypeOK, descriptors, device, sectorLoop, result, history
<1>8. \A q \in Procs : q # p => Same(q)
  BY <1>2, <1>3, <1>6 DEF Same, sectorLoop, result, history
<1>9. Opened' /\ FilesStay /\ \A q \in Procs : StaysAlone(q)
  BY <1>1, <1>2, SameFiles, SameOffsets DEF descriptors, history
<1>10. OneAtTheDrive'
  BY <1>1, <1>2, <1>3, <1>8, DriveAside DEF device
<1>11. ProcOK(p)'
  <2>1. Nd(p)' = Nd(p) /\ Text(p)' = Text(p)
    BY <1>1, <1>2, <1>9, NodeStays DEF ProcOK
  <2>2. InCall(p)'
    BY <1>1, <1>2 DEF ProcOK, InCall, descriptors
  <2>3. BufferOK(p)'
    BY <1>1, <1>2, <1>3 DEF ProcOK, BufferOK, Loop, Fetching, Ending, result
  <2>4. FetchOK(p)'
    BY <1>1, <1>2, <1>3 DEF ProcOK, FetchOK, Fetching, sectorLoop
  <2>5. AloneOK(p)'
    <3>1. SUFFICES ASSUME p \in alone PROVE AloneOK(p)'
      BY <1>2 DEF AloneOK, history
    <3>2. offset[call[p].d] = start[p].asked /\ Wanted(p)' = Wanted(p)
      BY <1>1, <1>2, <2>1, <3>1 DEF ProcOK, AloneOK, Wanted, history
    <3>3. ASSUME start[p].asked <= Nd(p).size
          PROVE  MinOf(num'[p], Nd(p).size - start[p].asked) = Wanted(p)
      <4>1. num[p] = call[p].n /\ (start[p].asked + num[p]) % W >= Nd(p).size
        BY <1>1, <1>2, <3>1, <3>3 DEF ProcOK, AloneOK
      <4> DEFINE n == call[p].n
                 a == start[p].asked
                 s == Nd(p).size
      <4>2. n \in Uint /\ a \in Uint /\ s \in Uint /\ a <= s /\ (a + n) % W >= s
        BY <1>4, <3>3, <4>1
      <4>3. num'[p] = (s - a) % W /\ Wanted(p) = MinOf(n, s - a)
        BY <1>2, <3>2 DEF Wanted
      <4> HIDE DEF n, a, s
      <4>4. s - a \in Uint
        BY <4>2, Sizes DEF Uint
      <4>5. n >= s - a
        <5>1. SUFFICES ASSUME n < s - a PROVE FALSE
          BY <4>2, Sizes DEF Uint
        <5>2. a + n \in Uint /\ a + n < s
          BY <4>2, <5>1, Sizes DEF Uint
        <5>3. (a + n) % W = a + n
          BY <5>2, Sizes DEF Uint
        <5> QED BY <4>2, <5>2, <5>3, Sizes DEF Uint
      <4>6. num'[p] = s - a
        BY <4>3, <4>4, Sizes DEF Uint
      <4>7. MinOf(num'[p], s - a) = Wanted(p)
        BY <4>2, <4>3, <4>5, <4>6, Sizes DEF MinOf, Uint
      <4> QED BY <4>7 DEF s, a
    <3> QED BY <1>1, <1>2, <1>3, <2>1, <3>1, <3>2, <3>3
         DEF ProcOK, AloneOK, Loop, Fetching, Ending, history, descriptors
  <2> QED BY <2>2, <2>3, <2>4, <2>5 DEF ProcOK
<1> QED BY <1>7, <1>8, <1>9, <1>10, <1>11, StepOf

LEMMA StartKeepsIInv ==
  ASSUME IInv, NEW p \in Procs, Start(p)
  PROVE  IInv'
<1>1. TypeOK /\ Opened /\ OneAtTheDrive /\ ProcOK(p)
  BY DEF IInv
<1>2. /\ pc[p] = "start"
      /\ UNCHANGED <<descriptors, device, call, num, block, sectorLoop, result, panicked, calls, alone, name>>
      /\ pc' = [pc EXCEPT ![p] = "read"]
      /\ off' = [off EXCEPT ![p] = offset[call[p].d]]
      /\ start' = [start EXCEPT ![p].read = offset[call[p].d]]
  BY DEF Start, GoTo
<1>3. pc'[p] = "read" /\ pc' \in [Procs -> Steps] /\ \A q \in Procs : q # p => pc'[q] = pc[q]
  BY <1>1, <1>2 DEF TypeOK, Steps
<1>4. /\ call[p].d \in Descs /\ offset[call[p].d] \in Uint
      /\ start[p].asked \in Uint /\ call[p].n \in Uint /\ Nd(p).size \in Nat
  BY <1>1, <1>2, CallFacts DEF ProcOK, TypeOK
<1>5. /\ off' \in [Procs -> Uint] /\ off'[p] = offset[call[p].d]
      /\ \A q \in Procs : q # p => off'[q] = off[q]
  BY <1>1, <1>2, <1>4 DEF TypeOK
<1>6. /\ start' \in [Procs -> [asked : Uint, read : Uint]]
      /\ start'[p].asked = start[p].asked /\ start'[p].read = offset[call[p].d]
      /\ \A q \in Procs : q # p => start'[q] = start[q]
  <2>1. start \in [Procs -> [asked : Uint, read : Uint]] /\ offset[call[p].d] \in Uint
    BY <1>1, <1>4 DEF TypeOK
  <2> QED BY <1>2, <2>1
<1>7. TypeOK'
  BY <1>1, <1>2, <1>3, <1>5, <1>6 DEF TypeOK, descriptors, device, sectorLoop, result
<1>8. \A q \in Procs : q # p => Same(q)
  BY <1>2, <1>3, <1>5, <1>6 DEF Same, sectorLoop, result
<1>9. Opened' /\ FilesStay /\ \A q \in Procs : StaysAlone(q)
  BY <1>1, <1>2, SameFiles, SameOffsets DEF descriptors
<1>10. OneAtTheDrive'
  BY <1>1, <1>2, <1>3, <1>8, DriveAside DEF device
<1>11. ProcOK(p)'
  <2>1. Nd(p)' = Nd(p) /\ Text(p)' = Text(p)
    BY <1>1, <1>2, <1>9, NodeStays DEF ProcOK
  <2>2. InCall(p)'
    BY <1>1, <1>2 DEF ProcOK, InCall, descriptors
  <2>3. buffer[p] = <<>> /\ buffer'[p] = <<>> /\ Len(buffer'[p]) = 0
    BY <1>1, <1>2 DEF ProcOK, BufferOK, result
  <2>4. BufferOK(p)'
    <3>1. off'[p] = start'[p].read + Len(buffer'[p])
      <4>1. \A x \in Uint : x = x + 0
        BY Sizes DEF Uint
      <4> QED BY <1>4, <1>5, <1>6, <2>3, <4>1
    <3>2. IsFile(p)'
      BY <2>3 DEF IsFile
    <3> QED BY <1>3, <2>3, <3>1, <3>2 DEF BufferOK, Loop, Fetching, Ending
  <2>5. FetchOK(p)'
    BY <1>1, <1>2, <1>3 DEF ProcOK, FetchOK, Fetching, sectorLoop
  <2>6. AloneOK(p)'
    <3>1. SUFFICES ASSUME p \in alone PROVE AloneOK(p)'
      BY <1>2 DEF AloneOK
    <3>2. offset[call[p].d] = start[p].asked /\ Wanted(p)' = Wanted(p)
      BY <1>1, <1>2, <1>6, <2>1, <3>1 DEF ProcOK, AloneOK, Wanted
    <3>3. ASSUME start[p].asked <= Nd(p).size
          PROVE  MinOf(num[p], Nd(p).size - off'[p]) + Len(buffer'[p]) = Wanted(p)
      <4>1. MinOf(num[p], Nd(p).size - start[p].asked) = Wanted(p)
        BY <1>1, <1>2, <3>1, <3>3 DEF ProcOK, AloneOK
      <4>2. Wanted(p) \in Int
        BY <1>4, Sizes DEF Wanted, MinOf, Uint
      <4> QED BY <1>5, <2>3, <3>2, <4>1, <4>2
    <3> QED BY <1>1, <1>2, <1>3, <1>6, <2>1, <3>1, <3>2, <3>3
         DEF ProcOK, AloneOK, Loop, Fetching, Ending, descriptors
  <2> QED BY <2>2, <2>4, <2>5, <2>6 DEF ProcOK
<1> QED BY <1>7, <1>8, <1>9, <1>10, <1>11, StepOf

-----------------------------------------------------------------------------
(* The loop over the blocks of a file.                                     *)

(* A step of the loop that does not get any further in the file.           *)
LEMMA StaysInLoop ==
  ASSUME NEW p \in Procs, ProcOK(p), pc[p] \in Loop, pc'[p] \in Loop,
         call'[p] = call[p], num'[p] = num[p], off'[p] = off[p], buffer'[p] = buffer[p],
         start'[p] = start[p], FilesStay, file' = file, offset' = offset, alone' = alone,
         FetchOK(p)'
  PROVE  ProcOK(p)'
<1>1. pc[p] \notin {"out", "return"} /\ pc'[p] # "out" /\ pc'[p] \notin Ending
      /\ pc'[p] \notin {"check", "clip", "start", "return", "store"}
  BY DEF Loop, Fetching, Ending
<1>2. Nd(p)' = Nd(p) /\ Text(p)' = Text(p)
  BY <1>1, NodeStays DEF ProcOK
<1>3. InCall(p)'
  BY <1>1 DEF ProcOK, InCall
<1>4. BufferOK(p)'
  <2>1. IsFile(p)' <=> IsFile(p)
    BY <1>2 DEF IsFile
  <2> QED BY <1>1, <2>1 DEF ProcOK, BufferOK
<1>5. AloneOK(p)'
  <2>1. Wanted(p)' = Wanted(p)
    BY <1>2 DEF Wanted
  <2>2. SUFFICES ASSUME p \in alone PROVE AloneOK(p)'
    BY DEF AloneOK
  <2>3. offset'[call'[p].d] = start'[p].asked
    BY <1>1, <2>2 DEF ProcOK, AloneOK
  <2>4. ASSUME start[p].asked <= Nd(p).size
        PROVE  /\ start[p].read = start[p].asked
               /\ MinOf(num[p], Nd(p).size - off[p]) + Len(buffer[p]) = Wanted(p)
    BY <2>2, <2>4 DEF ProcOK, AloneOK
  <2>5. start'[p].asked <= Nd(p)'.size =>
          /\ start'[p].read = start'[p].asked
          /\ MinOf(num'[p], Nd(p)'.size - off'[p]) + Len(buffer'[p]) = Wanted(p)'
    BY <1>2, <2>1, <2>4
  <2> QED BY <1>1, <2>3, <2>5 DEF AloneOK
<1> QED BY <1>3, <1>4, <1>5 DEF ProcOK

(* What is in the buffer is no longer than the file.                       *)
LEMMA BufferFacts ==
  ASSUME TypeOK, Opened, NEW p \in Procs, ProcOK(p), pc[p] \in Loop
  PROVE  /\ call[p].d \in Descs /\ HoldsFile(Nd(p), Text(p))
         /\ Nd(p).size \in Uint /\ Nd(p).size \in Nat
         /\ Text(p) \in Seq(Nat) /\ Nd(p).size = Len(Text(p))
         /\ buffer[p] \in Seq(Nat) /\ Len(buffer[p]) \in Uint /\ Len(buffer[p]) \in Nat
         /\ num[p] \in Uint /\ num[p] \in Nat /\ off[p] \in Uint /\ off[p] \in Nat
         /\ start[p].read \in Uint /\ start[p].read \in Nat
         /\ off[p] = start[p].read + Len(buffer[p]) /\ IsFile(p)
<1>1. pc[p] # "out" /\ InCall(p) /\ off[p] = start[p].read + Len(buffer[p]) /\ IsFile(p)
  BY DEF ProcOK, BufferOK, Loop, Fetching
<1>2. /\ call[p].d \in Descs /\ HoldsFile(Nd(p), Text(p))
      /\ Nd(p).size \in Uint /\ Nd(p).size \in Nat
      /\ Text(p) \in Seq(Nat) /\ Nd(p).size = Len(Text(p))
  BY <1>1, CallFacts
<1>3. /\ buffer[p] \in Seq(Nat) /\ num[p] \in Uint /\ off[p] \in Uint /\ start[p].read \in Uint
  BY DEF TypeOK
<1>4. Len(buffer[p]) \in Nat
  BY <1>3, LenProperties
<1>5. num[p] \in Nat /\ off[p] \in Nat /\ start[p].read \in Nat
  BY <1>3, Sizes DEF Uint
<1>6. Len(buffer[p]) \in Uint
  <2>1. W \in Nat /\ off[p] <= W - 1
    BY <1>3, Sizes DEF Uint
  <2> QED BY <1>1, <1>4, <1>5, <2>1 DEF Uint
<1> QED BY <1>1, <1>2, <1>3, <1>4, <1>5, <1>6

LEMMA ReadEndsKeepsIInv ==
  ASSUME IInv, NEW p \in Procs, ReadEnds(p)
  PROVE  IInv'
<1>1. TypeOK /\ Opened /\ OneAtTheDrive /\ ProcOK(p)
  BY DEF IInv
<1> DEFINE b == IF Outside(p) THEN W - 1 ELSE Len(buffer[p])
<1>2. /\ pc[p] = "read" /\ (Outside(p) \/ AtEnd(p))
      /\ UNCHANGED <<descriptors, device, call, block, sectorLoop, buffer, added, panicked, history>>
      /\ pc' = [pc EXCEPT ![p] = "load"]
      /\ bytes' = [bytes EXCEPT ![p] = b]
      /\ num' = [num EXCEPT ![p] = 0] /\ off' = [off EXCEPT ![p] = 0]
  BY DEF ReadEnds, Finish, GoTo
<1>3. pc'[p] = "load" /\ pc' \in [Procs -> Steps] /\ \A q \in Procs : q # p => pc'[q] = pc[q]
  BY <1>1, <1>2 DEF TypeOK, Steps
<1>4. /\ Len(buffer[p]) \in Uint /\ Len(buffer[p]) \in Nat /\ Nd(p).size \in Nat
      /\ off[p] \in Nat /\ num[p] \in Nat /\ start[p].read \in Nat
      /\ off[p] = start[p].read + Len(buffer[p]) /\ IsFile(p)
  BY <1>1, <1>2, BufferFacts DEF Loop
<1>5. b \in Uint /\ 0 \in Uint /\ W - 1 \in Uint
  BY <1>4, Sizes DEF Uint
<1>6. /\ bytes' \in [Procs -> Uint] /\ bytes'[p] = b
      /\ \A q \in Procs : q # p => bytes'[q] = bytes[q]
  <2>1. bytes \in [Procs -> Uint]
    BY <1>1 DEF TypeOK
  <2> HIDE DEF b
  <2> QED BY <1>2, <1>5, <2>1
<1>7. /\ num' \in [Procs -> Uint] /\ off' \in [Procs -> Uint]
      /\ \A q \in Procs : q # p => num'[q] = num[q] /\ off'[q] = off[q]
  <2>1. num \in [Procs -> Uint] /\ off \in [Procs -> Uint]
    BY <1>1 DEF TypeOK
  <2> QED BY <1>2, <1>5, <2>1
<1>8. TypeOK'
  BY <1>1, <1>2, <1>3, <1>6, <1>7 DEF TypeOK, descriptors, device, sectorLoop, history
<1>9. \A q \in Procs : q # p => Same(q)
  BY <1>2, <1>3, <1>6, <1>7 DEF Same, sectorLoop, history
<1>10. Opened' /\ FilesStay /\ \A q \in Procs : StaysAlone(q)
  BY <1>1, <1>2, SameFiles, SameOffsets DEF descriptors, history
<1>11. OneAtTheDrive'
  BY <1>1, <1>2, <1>3, <1>9, DriveAside DEF device
<1>12. ProcOK(p)'
  <2>1. Nd(p)' = Nd(p) /\ Text(p)' = Text(p)
    BY <1>1, <1>2, <1>10, NodeStays DEF ProcOK
  <2>2. InCall(p)'
    BY <1>1, <1>2 DEF ProcOK, InCall, descriptors
  <2>3. IsFile(p)'
    BY <1>2, <1>4, <2>1 DEF IsFile, history
  <2>4. BufferOK(p)'
    <3>1. Outside(p) => Failed(p)'
      BY <1>6 DEF Failed
    <3>2. ~Outside(p) => bytes'[p] = Len(buffer'[p])
      BY <1>2, <1>6
    <3> QED BY <1>3, <2>3, <3>1, <3>2 DEF BufferOK, Loop, Fetching, Ending
  <2>5. FetchOK(p)'
    BY <1>1, <1>2, <1>3 DEF ProcOK, FetchOK, Fetching, sectorLoop
  <2>6. AloneOK(p)'
    <3>1. SUFFICES ASSUME p \in alone PROVE AloneOK(p)'
      BY <1>2 DEF AloneOK, history
    <3>2. offset[call[p].d] = start[p].asked /\ Wanted(p)' = Wanted(p)
      BY <1>1, <1>2, <2>1, <3>1 DEF ProcOK, AloneOK, Wanted, history
    <3>3. ASSUME start[p].asked <= Nd(p).size
          PROVE  start[p].read = start[p].asked /\ bytes'[p] = Wanted(p)
      <4>1. /\ start[p].read = start[p].asked
            /\ MinOf(num[p], Nd(p).size - off[p]) + Len(buffer[p]) = Wanted(p)
        BY <1>1, <1>2, <3>1, <3>3 DEF ProcOK, AloneOK, Loop
      <4>2. off[p] <= Nd(p).size
        <5>1. CASE buffer[p] = <<>>
          BY <1>4, <3>3, <4>1, <5>1
        <5>2. CASE buffer[p] # <<>>
          BY <1>4, <5>2 DEF IsFile
        <5> QED BY <5>1, <5>2
      <4>3. ~Outside(p) /\ AtEnd(p)
        BY <1>2, <1>4, <4>2 DEF Outside, Nd
      <4>4. MinOf(num[p], Nd(p).size - off[p]) = 0
        BY <1>4, <4>2, <4>3 DEF AtEnd, MinOf, Nd
      <4>5. Wanted(p) = Len(buffer[p])
        BY <1>4, <4>1, <4>4
      <4> QED BY <1>6, <4>1, <4>3, <4>5
    <3> QED BY <1>1, <1>2, <1>3, <2>1, <3>1, <3>2, <3>3
         DEF ProcOK, AloneOK, Loop, Fetching, Ending, history, descriptors
  <2> QED BY <2>2, <2>4, <2>5, <2>6 DEF ProcOK
<1> QED BY <1>8, <1>9, <1>10, <1>11, <1>12, StepOf

LEMMA Products == \A x \in Nat : x * BlockSize \in Nat
<1>1. BlockSize \in Nat
  BY Sizes
<1> QED BY <1>1

(* A step that gets the next block, or the entry for it.                   *)
LEMMA BeginsBlock ==
  ASSUME IInv, NEW p \in Procs, pc[p] = "read", ~Outside(p), ~AtEnd(p),
         UNCHANGED <<descriptors, device, call, num, off, data, result, panicked, history>>,
         pc' = [pc EXCEPT ![p] = "lock"],
         block' = [block EXCEPT ![p] = off[p] \div BlockSize],
         NEW o \in Nat, NEW n \in 1..BlockSize, NEW kind \in {"entry", "copy"},
         dev' = [dev EXCEPT ![p] = [off |-> o, num |-> n, next |-> kind]],
         kind = "copy" =>
           n = BlockSize /\ o = BlockIndex(Nd(p), off[p] \div BlockSize) * BlockSize,
         kind = "entry" =>
           /\ n = 1 /\ off[p] \div BlockSize >= NDirect
           /\ o = Nd(p).indirect * BlockSize + (off[p] \div BlockSize - NDirect)
  PROVE  IInv'
<1>1. TypeOK /\ Opened /\ OneAtTheDrive /\ ProcOK(p)
  BY DEF IInv
<1>2. pc'[p] = "lock" /\ pc' \in [Procs -> Steps] /\ \A q \in Procs : q # p => pc'[q] = pc[q]
  BY <1>1 DEF TypeOK, Steps
<1>3. /\ HoldsFile(Nd(p), Text(p)) /\ Nd(p).size \in Nat /\ off[p] \in Nat /\ num[p] \in Nat
      /\ off[p] = start[p].read + Len(buffer[p]) /\ IsFile(p)
  BY <1>1, BufferFacts DEF Loop
<1>4. num[p] > 0 /\ off[p] < Nd(p).size
  BY <1>3 DEF Outside, AtEnd, Nd
<1>5. off[p] \div BlockSize \in Nat
  BY <1>3, Sizes, Division
<1>6. /\ block' \in [Procs -> Nat] /\ block'[p] = off[p] \div BlockSize
      /\ \A q \in Procs : q # p => block'[q] = block[q]
  <2>1. block \in [Procs -> Nat]
    BY <1>1 DEF TypeOK
  <2> QED BY <1>5, <2>1
<1>7. /\ dev' \in [Procs -> [off : Nat, num : 0..BlockSize, next : {"entry", "copy"}]]
      /\ dev'[p] = [off |-> o, num |-> n, next |-> kind]
      /\ \A q \in Procs : q # p => dev'[q] = dev[q]
  <2>1. dev \in [Procs -> [off : Nat, num : 0..BlockSize, next : {"entry", "copy"}]]
    BY <1>1 DEF TypeOK
  <2>2. n \in 0..BlockSize
    BY Sizes
  <2> QED BY <2>1, <2>2
<1>8. TypeOK'
  BY <1>1, <1>2, <1>6, <1>7 DEF TypeOK, descriptors, device, result, history
<1>9. \A q \in Procs : q # p => Same(q)
  BY <1>2, <1>6, <1>7 DEF Same, result, history
<1>10. Opened' /\ FilesStay /\ \A q \in Procs : StaysAlone(q)
  BY <1>1, SameFiles, SameOffsets DEF descriptors, history
<1>11. OneAtTheDrive'
  BY <1>1, <1>2, <1>9, DriveAside DEF device
<1>12. FetchOK(p)'
  <2>1. Nd(p)' = Nd(p)
    BY <1>1, <1>10, NodeStays DEF ProcOK
  <2>2. dev'[p].off = o /\ dev'[p].num = n /\ dev'[p].next = kind
    BY <1>7
  <2>3. Part(p)' = n
    BY <2>2 DEF Part
  <2>4. From(p)' = o
    BY <1>6, <2>1, <2>2 DEF From
  <2>5. data'[p] = <<>> /\ Len(data'[p]) = 0
    BY <1>1 DEF ProcOK, FetchOK, Fetching
  <2>6. n \in Nat /\ n > 0 /\ n <= n /\ o + n - n = o /\ n - n = 0
    BY Sizes
  <2>7. num'[p] > 0 /\ off'[p] < Nd(p)'.size /\ block'[p] = off'[p] \div BlockSize
    BY <1>4, <1>6, <2>1
  <2>8. \A i \in 1..Len(data'[p]) : data'[p][i] = Disk[From(p)' + i - 1]
    BY <2>5
  <2>9. dev'[p].num <= Part(p)' /\ dev'[p].off = From(p)' + Part(p)' - dev'[p].num
    BY <2>2, <2>3, <2>4, <2>6
  <2>10. Len(data'[p]) = Part(p)' - dev'[p].num /\ dev'[p].num > 0
    BY <2>2, <2>3, <2>5, <2>6
  <2>11. dev'[p].next = "entry" => block'[p] >= NDirect
    BY <1>6, <2>2
  <2> QED BY <1>2, <2>7, <2>8, <2>9, <2>10, <2>11 DEF FetchOK, Fetching
<1>13. ProcOK(p)'
  BY <1>1, <1>2, <1>10, <1>12, StaysInLoop DEF Loop, Fetching, descriptors, history, result
<1> QED BY <1>8, <1>9, <1>10, <1>11, <1>13, StepOf

LEMMA ReadDirectKeepsIInv ==
  ASSUME IInv, NEW p \in Procs, ReadDirect(p)
  PROVE  IInv'
<1>1. TypeOK /\ Opened /\ ProcOK(p) /\ pc[p] = "read" /\ ~Outside(p) /\ ~AtEnd(p)
  BY DEF IInv, ReadDirect
<1>2. /\ HoldsFile(Nd(p), Text(p)) /\ Nd(p).size \in Nat /\ off[p] \in Nat /\ num[p] \in Nat
      /\ off[p] < Nd(p).size
  <2>1. HoldsFile(Nd(p), Text(p)) /\ Nd(p).size \in Nat /\ off[p] \in Nat /\ num[p] \in Nat
    BY <1>1, BufferFacts DEF Loop
  <2> QED BY <1>1, <2>1 DEF Outside, AtEnd, Nd
<1> DEFINE b == off[p] \div BlockSize
<1>3. b \in Nat /\ b < NDirect /\ BlockIndex(Nd(p), b) \in Nat /\ Nd(p).direct[b] = BlockIndex(Nd(p), b)
  BY <1>2, BlockFacts DEF ReadDirect, BlockIndex
<1>4. BlockIndex(Nd(p), b) * BlockSize \in Nat /\ BlockSize \in 1..BlockSize
  BY <1>3, Products, Sizes
<1>5. dev' = [dev EXCEPT ![p] = [off |-> BlockIndex(Nd(p), b) * BlockSize, num |-> BlockSize,
                                 next |-> "copy"]]
  BY <1>3 DEF ReadDirect, ReadBlock, Nd
<1>6. /\ UNCHANGED <<descriptors, device, call, num, off, data, result, panicked, history>>
      /\ pc' = [pc EXCEPT ![p] = "lock"] /\ block' = [block EXCEPT ![p] = b]
  BY DEF ReadDirect, GoTo
<1> QED BY <1>1, <1>4, <1>5, <1>6, BeginsBlock

LEMMA ReadIndirectKeepsIInv ==
  ASSUME IInv, NEW p \in Procs, ReadIndirect(p)
  PROVE  IInv'
<1>1. TypeOK /\ Opened /\ ProcOK(p) /\ pc[p] = "read" /\ ~Outside(p) /\ ~AtEnd(p)
  BY DEF IInv, ReadIndirect
<1>2. /\ HoldsFile(Nd(p), Text(p)) /\ Nd(p).size \in Nat /\ off[p] \in Nat /\ num[p] \in Nat
      /\ off[p] < Nd(p).size
  <2>1. HoldsFile(Nd(p), Text(p)) /\ Nd(p).size \in Nat /\ off[p] \in Nat /\ num[p] \in Nat
    BY <1>1, BufferFacts DEF Loop
  <2> QED BY <1>1, <2>1 DEF Outside, AtEnd, Nd
<1> DEFINE b == off[p] \div BlockSize
           o == Nd(p).indirect * BlockSize + (b - NDirect)
<1>3. b \in Nat /\ b >= NDirect /\ Nd(p).indirect \in Nat
  BY <1>2, BlockFacts DEF ReadIndirect
<1>4. o \in Nat /\ 1 \in 1..BlockSize
  <2>1. Nd(p).indirect * BlockSize \in Nat /\ b - NDirect \in Nat
    BY <1>3, Products, Sizes
  <2> QED BY <2>1, Sizes
<1>5. dev' = [dev EXCEPT ![p] = [off |-> o, num |-> 1, next |-> "entry"]]
  BY DEF ReadIndirect, ReadEntry, Nd
<1>6. /\ UNCHANGED <<descriptors, device, call, num, off, data, result, panicked, history>>
      /\ pc' = [pc EXCEPT ![p] = "lock"] /\ block' = [block EXCEPT ![p] = b]
  BY DEF ReadIndirect, GoTo
<1> QED BY <1>1, <1>3, <1>4, <1>5, <1>6, BeginsBlock

LEMMA EntryKeepsIInv ==
  ASSUME IInv, NEW p \in Procs, Entry(p)
  PROVE  IInv'
<1>1. TypeOK /\ Opened /\ OneAtTheDrive /\ ProcOK(p)
  BY DEF IInv
<1> DEFINE x == data[p][1]
<1>2. /\ pc[p] = "entry"
      /\ UNCHANGED <<descriptors, device, call, blockLoop, result, panicked, history>>
      /\ pc' = [pc EXCEPT ![p] = "lock"]
      /\ data' = [data EXCEPT ![p] = <<>>]
      /\ dev' = [dev EXCEPT ![p] = [off |-> x * BlockSize, num |-> BlockSize, next |-> "copy"]]
  BY DEF Entry, ReadBlock, GoTo
<1>3. pc'[p] = "lock" /\ pc' \in [Procs -> Steps] /\ \A q \in Procs : q # p => pc'[q] = pc[q]
  BY <1>1, <1>2 DEF TypeOK, Steps
<1>4. /\ HoldsFile(Nd(p), Text(p)) /\ off[p] \in Nat
  BY <1>1, <1>2, BufferFacts DEF Loop, Fetching
<1>5. /\ num[p] > 0 /\ off[p] < Nd(p).size /\ block[p] = off[p] \div BlockSize
      /\ block[p] >= NDirect /\ Part(p) = 1 /\ Len(data[p]) = 1
      /\ From(p) = Nd(p).indirect * BlockSize + (block[p] - NDirect)
      /\ \A i \in 1..Len(data[p]) : data[p][i] = Disk[From(p) + i - 1]
  <2>1. /\ num[p] > 0 /\ off[p] < Nd(p).size /\ block[p] = off[p] \div BlockSize
        /\ dev[p].next = "entry" => block[p] >= NDirect
        /\ Len(data[p]) = Part(p) - dev[p].num
        /\ \A i \in 1..Len(data[p]) : data[p][i] = Disk[From(p) + i - 1]
        /\ dev[p].num = 0 /\ dev[p].next = "entry"
    BY <1>1, <1>2 DEF ProcOK, FetchOK, Fetching
  <2>2. Part(p) = 1 /\ From(p) = Nd(p).indirect * BlockSize + (block[p] - NDirect)
    BY <2>1 DEF Part, From
  <2> QED BY <2>1, <2>2
<1>6. block[p] \in Nat /\ BlockIndex(Nd(p), block[p]) \in Nat /\ Nd(p).indirect \in Nat
  BY <1>4, <1>5, BlockFacts
<1>7. x = BlockIndex(Nd(p), block[p])
  <2>1. x = Disk[From(p) + 1 - 1]
    BY <1>5
  <2>2. Nd(p).indirect * BlockSize \in Nat
    BY <1>6, Products
  <2>3. From(p) + 1 - 1 = Nd(p).indirect * BlockSize + block[p] - NDirect
    BY <1>5, <1>6, <2>2, Sizes
  <2>4. ~(block[p] < NDirect)
    BY <1>5, <1>6, Sizes
  <2> QED BY <2>1, <2>3, <2>4 DEF BlockIndex
<1> HIDE DEF x
<1>8. x * BlockSize \in Nat /\ BlockSize \in 0..BlockSize /\ BlockSize > 0 /\ BlockSize \in Nat
  BY <1>6, <1>7, Products, Sizes
<1>9. /\ dev' \in [Procs -> [off : Nat, num : 0..BlockSize, next : {"entry", "copy"}]]
      /\ dev'[p] = [off |-> x * BlockSize, num |-> BlockSize, next |-> "copy"]
      /\ \A q \in Procs : q # p => dev'[q] = dev[q]
  <2>1. dev \in [Procs -> [off : Nat, num : 0..BlockSize, next : {"entry", "copy"}]]
    BY <1>1 DEF TypeOK
  <2> QED BY <1>2, <1>8, <2>1
<1>10. /\ data' \in [Procs -> Seq(Nat)] /\ data'[p] = <<>>
       /\ \A q \in Procs : q # p => data'[q] = data[q]
  <2>1. data \in [Procs -> Seq(Nat)] /\ <<>> \in Seq(Nat)
    BY <1>1 DEF TypeOK
  <2> QED BY <1>2, <2>1
<1>11. TypeOK'
  BY <1>1, <1>2, <1>3, <1>9, <1>10 DEF TypeOK, descriptors, device, blockLoop, result, history
<1>12. \A q \in Procs : q # p => Same(q)
  BY <1>2, <1>3, <1>9, <1>10 DEF Same, blockLoop, result, history
<1>13. Opened' /\ FilesStay /\ \A q \in Procs : StaysAlone(q)
  BY <1>1, <1>2, SameFiles, SameOffsets DEF descriptors, history
<1>14. OneAtTheDrive'
  BY <1>1, <1>2, <1>3, <1>12, DriveAside DEF device
<1>15. FetchOK(p)'
  <2>1. Nd(p)' = Nd(p) /\ num'[p] = num[p] /\ off'[p] = off[p] /\ block'[p] = block[p]
    BY <1>1, <1>2, <1>13, NodeStays DEF ProcOK, blockLoop
  <2>2. dev'[p].off = x * BlockSize /\ dev'[p].num = BlockSize /\ dev'[p].next = "copy"
    BY <1>9
  <2>3. Part(p)' = BlockSize
    BY <2>2 DEF Part
  <2>4. From(p)' = x * BlockSize
    BY <1>7, <2>1, <2>2 DEF From
  <2>5. Len(data'[p]) = 0
    BY <1>10
  <2>6. /\ x * BlockSize = x * BlockSize + BlockSize - BlockSize /\ 0 = BlockSize - BlockSize
        /\ BlockSize <= BlockSize
    BY <1>8
  <2>7. dev'[p].num <= Part(p)' /\ dev'[p].off = From(p)' + Part(p)' - dev'[p].num
    BY <2>2, <2>3, <2>4, <2>6
  <2>8. Len(data'[p]) = Part(p)' - dev'[p].num /\ dev'[p].num > 0
    BY <1>8, <2>2, <2>3, <2>5, <2>6
  <2>9. \A i \in 1..Len(data'[p]) : data'[p][i] = Disk[From(p)' + i - 1]
    BY <2>5
  <2>10. num'[p] > 0 /\ off'[p] < Nd(p)'.size /\ block'[p] = off'[p] \div BlockSize
    BY <1>5, <2>1
  <2> QED BY <1>3, <2>2, <2>7, <2>8, <2>9, <2>10 DEF FetchOK, Fetching
<1>16. ProcOK(p)'
  BY <1>1, <1>2, <1>3, <1>13, <1>15, StaysInLoop
     DEF Loop, Fetching, descriptors, blockLoop, result, history
<1> QED BY <1>11, <1>12, <1>13, <1>14, <1>16, StepOf

(* The part of a block that goes into the buffer.                          *)
LEMMA CopyFacts ==
  ASSUME TypeOK, Opened, NEW p \in Procs, ProcOK(p), pc[p] = "copy"
  PROVE  LET o == off[p] % BlockSize
             n == MinOf(BlockSize - o, MinOf(num[p], Nd(p).size - off[p]))
             part == SubSeq(data[p], o + 1, o + n) IN
         /\ o \in Nat /\ n \in Nat /\ n > 0
         /\ n <= num[p] /\ off[p] + n <= Nd(p).size /\ o + n <= BlockSize
         /\ part \in Seq(Nat) /\ Len(part) = n
         /\ \A i \in 1..n : part[i] = Text(p)[off[p] + i]
<1> DEFINE o == off[p] % BlockSize
           n == MinOf(BlockSize - o, MinOf(num[p], Nd(p).size - off[p]))
           part == SubSeq(data[p], o + 1, o + n)
<1>1. /\ HoldsFile(Nd(p), Text(p)) /\ Nd(p).size \in Nat /\ off[p] \in Nat /\ num[p] \in Nat
  BY BufferFacts DEF Loop, Fetching
<1>2. /\ num[p] > 0 /\ off[p] < Nd(p).size /\ block[p] = off[p] \div BlockSize
      /\ Len(data[p]) = BlockSize /\ From(p) = BlockIndex(Nd(p), block[p]) * BlockSize
      /\ \A i \in 1..Len(data[p]) : data[p][i] = Disk[From(p) + i - 1]
  <2>1. /\ num[p] > 0 /\ off[p] < Nd(p).size /\ block[p] = off[p] \div BlockSize
        /\ Len(data[p]) = Part(p) - dev[p].num
        /\ \A i \in 1..Len(data[p]) : data[p][i] = Disk[From(p) + i - 1]
        /\ dev[p].num = 0 /\ dev[p].next = "copy"
    BY DEF ProcOK, FetchOK, Fetching
  <2>2. Part(p) = BlockSize /\ From(p) = BlockIndex(Nd(p), block[p]) * BlockSize
    BY <2>1 DEF Part, From
  <2> QED BY <2>1, <2>2, Sizes
<1>3. o \in 0..(BlockSize - 1) /\ BlockSize \in Nat /\ o \in Nat
  <2>1. BlockSize \in Nat \ {0} /\ off[p] \in Nat
    BY <1>1, Sizes
  <2>2. off[p] % BlockSize \in 0..(BlockSize - 1)
    BY <2>1, Division
  <2> QED BY <2>1, <2>2
<1>4. /\ n \in Nat /\ n > 0 /\ n <= num[p] /\ n <= Nd(p).size - off[p] /\ n <= BlockSize - o
  <2>1. BlockSize - o \in Nat /\ BlockSize - o > 0
    BY <1>3
  <2>2. Nd(p).size - off[p] \in Nat /\ Nd(p).size - off[p] > 0
    BY <1>1, <1>2
  <2> HIDE DEF o
  <2> QED BY <1>1, <1>2, <2>1, <2>2 DEF MinOf
<1> HIDE DEF n
<1>5. off[p] + n <= Nd(p).size /\ o + n <= BlockSize
  BY <1>1, <1>3, <1>4
<1>6. data[p] \in Seq(Nat) /\ \A i \in 1..BlockSize : data[p][i] \in Nat
  <2>1. data[p] \in Seq(Nat)
    BY DEF TypeOK
  <2> QED BY <1>2, <2>1, ElementOfSeq
<1>7. part \in Seq(Nat) /\ Len(part) = n /\ \A i \in 1..n : part[i] = data[p][o + i]
  <2>1. o + 1 \in Int /\ o + n \in Int /\ o + 1 <= o + n /\ o + n - (o + 1) + 1 = n
    BY <1>3, <1>4
  <2>2. \A i \in (o + 1)..(o + n) : data[p][i] \in Nat
    <3>1. \A i \in (o + 1)..(o + n) : i \in 1..BlockSize
      BY <1>3, <1>4, <1>5
    <3> QED BY <1>6, <3>1
  <2> DEFINE a == o + 1
             z == o + n
  <2>3. /\ part \in Seq(Nat)
        /\ Len(part) = IF a <= z THEN z - a + 1 ELSE 0
        /\ \A i \in 1..(z - a + 1) : part[i] = data[p][a + i - 1]
    <3>1. a \in Int /\ z \in Int /\ \A i \in a..z : data[p][i] \in Nat
      BY <2>1, <2>2
    <3>2. part = SubSeq(data[p], a, z)
      OBVIOUS
    <3> HIDE DEF a, z, part
    <3> QED BY <3>1, <3>2, SubSeqProperties
  <2> HIDE DEF o
  <2>4. z - a + 1 = n /\ a <= z /\ \A i \in 1..n : a + i - 1 = o + i
    BY <1>3, <1>4
  <2> HIDE DEF part, a, z
  <2>5. Len(part) = n
    BY <2>3, <2>4
  <2>6. \A i \in 1..n : part[i] = data[p][o + i]
    BY <2>3, <2>4
  <2> QED BY <2>3, <2>5, <2>6
<1>8. ASSUME NEW i \in 1..n PROVE data[p][o + i] = Text(p)[off[p] + i]
  <2> DEFINE k == off[p] + (i - 1)
  <2>1. /\ i - 1 \in Nat /\ o + (i - 1) < BlockSize /\ k \in Nat /\ k < Nd(p).size
        /\ o + i \in 1..BlockSize /\ k + 1 = off[p] + i
    <3> HIDE DEF o
    <3>1. i \in Nat /\ i >= 1 /\ i <= n
      BY <1>4
    <3>2. /\ i - 1 \in Nat /\ o + (i - 1) < BlockSize /\ o + i \in 1..BlockSize
      BY <1>3, <1>4, <1>5, <3>1
    <3>3. k \in Nat /\ k < Nd(p).size /\ k + 1 = off[p] + i
      BY <1>1, <1>4, <1>5, <3>1
    <3> QED BY <3>2, <3>3
  <2>2. k \div BlockSize = block[p] /\ k % BlockSize = o + (i - 1)
    <3> DEFINE j == i - 1
    <3>1. BlockSize \in Nat \ {0} /\ off[p] \in Nat /\ j \in Nat /\ (off[p] % BlockSize) + j < BlockSize
      BY <1>1, <2>1, Sizes
    <3> HIDE DEF j
    <3>2. /\ (off[p] + j) \div BlockSize = off[p] \div BlockSize
          /\ (off[p] + j) % BlockSize = (off[p] % BlockSize) + j
      BY <3>1, Division
    <3> QED BY <1>2, <3>2 DEF j
  <2> HIDE DEF k
  <2>3. /\ Text(p)[k + 1] = Disk[BlockIndex(Nd(p), k \div BlockSize) * BlockSize + (k % BlockSize)]
        /\ BlockIndex(Nd(p), k \div BlockSize) \in Nat
    BY <1>1, <2>1, BlockFacts
  <2>4. Text(p)[off[p] + i] = Disk[From(p) + (o + (i - 1))] /\ From(p) \in Nat
    BY <1>2, <2>1, <2>2, <2>3, Products
  <2>5. From(p) + (o + (i - 1)) = From(p) + (o + i) - 1
    BY <1>3, <2>1, <2>4
  <2> HIDE DEF o
  <2> QED BY <1>2, <2>1, <2>4, <2>5
<1> QED BY <1>3, <1>4, <1>5, <1>7, <1>8 DEF n

LEMMA CopyKeepsIInv ==
  ASSUME IInv, NEW p \in Procs, Copy(p)
  PROVE  IInv'
<1>1. TypeOK /\ Opened /\ OneAtTheDrive /\ ProcOK(p)
  BY DEF IInv
<1> DEFINE o == off[p] % BlockSize
           n == MinOf(BlockSize - o, MinOf(num[p], Nd(p).size - off[p]))
           part == SubSeq(data[p], o + 1, o + n)
<1>2. /\ pc[p] = "copy"
      /\ UNCHANGED <<descriptors, device, call, bytes, added, panicked, history>>
      /\ pc' = [pc EXCEPT ![p] = "read"]
      /\ buffer' = [buffer EXCEPT ![p] = @ \o part]
      /\ off' = [off EXCEPT ![p] = @ + n] /\ num' = [num EXCEPT ![p] = @ - n]
      /\ data' = [data EXCEPT ![p] = <<>>]
      /\ dev' = [dev EXCEPT ![p] = Nowhere] /\ block' = [block EXCEPT ![p] = 0]
  BY DEF Copy, GoTo, Nd
<1>3. pc'[p] = "read" /\ pc' \in [Procs -> Steps] /\ \A q \in Procs : q # p => pc'[q] = pc[q]
  BY <1>1, <1>2 DEF TypeOK, Steps
<1>4. /\ n \in Nat /\ n > 0 /\ n <= num[p] /\ off[p] + n <= Nd(p).size
      /\ part \in Seq(Nat) /\ Len(part) = n
      /\ \A i \in 1..n : part[i] = Text(p)[off[p] + i]
  BY <1>1, <1>2, CopyFacts
<1> HIDE DEF o, n, part
<1>5. /\ call[p].d \in Descs /\ Nd(p).size \in Uint /\ Nd(p).size \in Nat
      /\ buffer[p] \in Seq(Nat) /\ Len(buffer[p]) \in Nat
      /\ num[p] \in Uint /\ num[p] \in Nat /\ off[p] \in Nat /\ start[p].read \in Nat
      /\ off[p] = start[p].read + Len(buffer[p]) /\ IsFile(p)
  BY <1>1, <1>2, BufferFacts DEF Loop, Fetching
<1>6. off[p] + n \in Uint /\ num[p] - n \in Uint /\ 0 \in Nat
  <2>1. W \in Nat /\ Nd(p).size <= W - 1 /\ num[p] <= W - 1
    BY <1>5, Sizes DEF Uint
  <2> QED BY <1>4, <1>5, <2>1 DEF Uint
<1>7. /\ buffer[p] \o part \in Seq(Nat)
      /\ Len(buffer[p] \o part) = Len(buffer[p]) + n
      /\ \A i \in 1..(Len(buffer[p]) + n) :
           (buffer[p] \o part)[i] = IF i <= Len(buffer[p]) THEN buffer[p][i]
                                    ELSE part[i - Len(buffer[p])]
  <2>1. /\ buffer[p] \o part \in Seq(Nat)
        /\ Len(buffer[p] \o part) = Len(buffer[p]) + Len(part)
        /\ \A i \in 1..(Len(buffer[p]) + Len(part)) :
             (buffer[p] \o part)[i] = IF i <= Len(buffer[p]) THEN buffer[p][i]
                                      ELSE part[i - Len(buffer[p])]
    <3> DEFINE a == buffer[p]
    <3>1. a \in Seq(Nat) /\ part \in Seq(Nat)
      BY <1>4, <1>5
    <3> HIDE DEF a
    <3>2. /\ a \o part \in Seq(Nat)
          /\ Len(a \o part) = Len(a) + Len(part)
          /\ \A i \in 1..(Len(a) + Len(part)) :
               (a \o part)[i] = IF i <= Len(a) THEN a[i] ELSE part[i - Len(a)]
      BY <3>1, ConcatProperties, Zenon
    <3> QED BY <3>2 DEF a
  <2>2. Len(part) = n
    BY <1>4
  <2> QED BY <2>1, <2>2
<1>8. /\ buffer' \in [Procs -> Seq(Nat)] /\ buffer'[p] = buffer[p] \o part
      /\ \A q \in Procs : q # p => buffer'[q] = buffer[q]
  <2>1. buffer \in [Procs -> Seq(Nat)]
    BY <1>1 DEF TypeOK
  <2> QED BY <1>2, <1>7, <2>1
<1>9. /\ off' \in [Procs -> Uint] /\ off'[p] = off[p] + n
      /\ \A q \in Procs : q # p => off'[q] = off[q]
  <2>1. off \in [Procs -> Uint]
    BY <1>1 DEF TypeOK
  <2> QED BY <1>2, <1>6, <2>1
<1>10. /\ num' \in [Procs -> Uint] /\ num'[p] = num[p] - n
       /\ \A q \in Procs : q # p => num'[q] = num[q]
  <2>1. num \in [Procs -> Uint]
    BY <1>1 DEF TypeOK
  <2> QED BY <1>2, <1>6, <2>1
<1>11. /\ data' \in [Procs -> Seq(Nat)] /\ data'[p] = <<>>
       /\ \A q \in Procs : q # p => data'[q] = data[q]
  <2>1. data \in [Procs -> Seq(Nat)] /\ <<>> \in Seq(Nat)
    BY <1>1 DEF TypeOK
  <2> QED BY <1>2, <2>1
<1>12. /\ dev' \in [Procs -> [off : Nat, num : 0..BlockSize, next : {"entry", "copy"}]]
       /\ \A q \in Procs : q # p => dev'[q] = dev[q]
  <2>1. dev \in [Procs -> [off : Nat, num : 0..BlockSize, next : {"entry", "copy"}]]
    BY <1>1 DEF TypeOK
  <2>2. Nowhere \in [off : Nat, num : 0..BlockSize, next : {"entry", "copy"}]
    BY Sizes DEF Nowhere
  <2> QED BY <1>2, <2>1, <2>2
<1>13. /\ block' \in [Procs -> Nat]
       /\ \A q \in Procs : q # p => block'[q] = block[q]
  <2>1. block \in [Procs -> Nat]
    BY <1>1 DEF TypeOK
  <2> QED BY <1>2, <1>6, <2>1
<1>14. TypeOK'
  BY <1>1, <1>2, <1>3, <1>8, <1>9, <1>10, <1>11, <1>12, <1>13
     DEF TypeOK, descriptors, device, history
<1>15. \A q \in Procs : q # p => Same(q)
  BY <1>2, <1>3, <1>8, <1>9, <1>10, <1>11, <1>12, <1>13 DEF Same, history
<1>16. Opened' /\ FilesStay /\ \A q \in Procs : StaysAlone(q)
  BY <1>1, <1>2, SameFiles, SameOffsets DEF descriptors, history
<1>17. OneAtTheDrive'
  BY <1>1, <1>2, <1>3, <1>15, DriveAside DEF device
<1>18. ProcOK(p)'
  <2>1. Nd(p)' = Nd(p) /\ Text(p)' = Text(p)
    BY <1>1, <1>2, <1>16, NodeStays DEF ProcOK
  <2>2. InCall(p)'
    BY <1>1, <1>2 DEF ProcOK, InCall, descriptors
  <2>3. /\ Len(buffer'[p]) = Len(buffer[p]) + n /\ start'[p] = start[p]
        /\ off'[p] = start[p].read + Len(buffer'[p]) /\ off'[p] <= Nd(p).size
    BY <1>2, <1>4, <1>5, <1>7, <1>8, <1>9 DEF history
  <2>4. \A i \in 1..Len(buffer'[p]) : buffer'[p][i] = Text(p)[start[p].read + i]
    <3>1. SUFFICES ASSUME NEW i \in 1..(Len(buffer[p]) + n)
                   PROVE  (buffer[p] \o part)[i] = Text(p)[start[p].read + i]
      BY <1>8, <2>3
    <3>2. CASE i <= Len(buffer[p])
      BY <1>5, <1>7, <3>2 DEF IsFile
    <3>3. CASE ~(i <= Len(buffer[p]))
      <4>1. i - Len(buffer[p]) \in 1..n /\ off[p] + (i - Len(buffer[p])) = start[p].read + i
        <5> DEFINE l == Len(buffer[p])
        <5>1. /\ l \in Nat /\ i \in 1..(l + n) /\ ~(i <= l) /\ off[p] = start[p].read + l
              /\ start[p].read \in Nat /\ n \in Nat
          BY <1>4, <1>5, <3>3
        <5> HIDE DEF l
        <5>2. i - l \in 1..n /\ off[p] + (i - l) = start[p].read + i
          BY <5>1
        <5> QED BY <5>2 DEF l
      <4>2. (buffer[p] \o part)[i] = part[i - Len(buffer[p])]
        BY <1>7, <3>3
      <4> QED BY <1>4, <4>1, <4>2
    <3> QED BY <3>2, <3>3
  <2>5. BufferOK(p)'
    <3>1. IsFile(p)'
      BY <2>1, <2>3, <2>4 DEF IsFile
    <3> QED BY <1>3, <2>3, <3>1 DEF BufferOK, Loop, Fetching, Ending
  <2>6. FetchOK(p)'
    BY <1>3, <1>11 DEF FetchOK, Fetching
  <2>7. AloneOK(p)'
    <3>1. SUFFICES ASSUME p \in alone PROVE AloneOK(p)'
      BY <1>2 DEF AloneOK, history
    <3>2. offset[call[p].d] = start[p].asked /\ Wanted(p)' = Wanted(p)
      BY <1>1, <1>2, <2>1, <3>1 DEF ProcOK, AloneOK, Wanted, history
    <3>3. ASSUME start[p].asked <= Nd(p).size
          PROVE  /\ start[p].read = start[p].asked
                 /\ MinOf(num'[p], Nd(p).size - off'[p]) + Len(buffer'[p]) = Wanted(p)
      <4>1. /\ start[p].read = start[p].asked
            /\ MinOf(num[p], Nd(p).size - off[p]) + Len(buffer[p]) = Wanted(p)
        BY <1>1, <1>2, <3>1, <3>3 DEF ProcOK, AloneOK, Loop, Fetching
      <4>2. MinOf(num[p] - n, Nd(p).size - (off[p] + n)) + n = MinOf(num[p], Nd(p).size - off[p])
        BY <1>4, <1>5 DEF MinOf
      <4>3. /\ MinOf(num[p] - n, Nd(p).size - (off[p] + n)) \in Int
            /\ MinOf(num[p], Nd(p).size - off[p]) \in Int
        BY <1>4, <1>5 DEF MinOf
      <4>4. MinOf(num[p] - n, Nd(p).size - (off[p] + n)) + (Len(buffer[p]) + n) = Wanted(p)
        <5> DEFINE l == Len(buffer[p])
                   x == MinOf(num[p] - n, Nd(p).size - (off[p] + n))
                   y == MinOf(num[p], Nd(p).size - off[p])
        <5>1. /\ x \in Int /\ y \in Int /\ x + n = y /\ y + l = Wanted(p)
              /\ l \in Nat /\ n \in Nat
          BY <1>4, <1>5, <4>1, <4>2, <4>3
        <5> HIDE DEF l, x, y
        <5>2. x + (l + n) = Wanted(p)
          BY <5>1
        <5> QED BY <5>2 DEF l, x
      <4> QED BY <1>9, <1>10, <2>3, <4>1, <4>4
    <3> QED BY <1>1, <1>2, <1>3, <2>1, <2>3, <3>1, <3>2, <3>3
         DEF ProcOK, AloneOK, Loop, Fetching, Ending, history, descriptors
  <2> QED BY <2>2, <2>5, <2>6, <2>7 DEF ProcOK
<1> QED BY <1>14, <1>15, <1>16, <1>17, <1>18, StepOf

-----------------------------------------------------------------------------
(* The drive and its lock.                                                 *)

AtDrive == {"command", "data", "unlock"}

LEMMA LockKeepsIInv ==
  ASSUME IInv, NEW p \in Procs, Lock(p)
  PROVE  IInv'
<1>1. TypeOK /\ Opened /\ OneAtTheDrive /\ ProcOK(p)
  BY DEF IInv
<1>2. /\ pc[p] = "lock" /\ ~ideLock /\ ideLock' = TRUE
      /\ pc' = [pc EXCEPT ![p] = "command"]
      /\ UNCHANGED <<descriptors, drive, call, blockLoop, sectorLoop, result, panicked, history>>
  BY DEF Lock, GoTo
<1>3. pc'[p] = "command" /\ pc' \in [Procs -> Steps] /\ \A q \in Procs : q # p => pc'[q] = pc[q]
  BY <1>1, <1>2 DEF TypeOK, Steps
<1>4. TypeOK'
  BY <1>1, <1>2, <1>3 DEF TypeOK, descriptors, blockLoop, sectorLoop, result, history
<1>5. \A q \in Procs : q # p => Same(q)
  BY <1>2, <1>3 DEF Same, blockLoop, sectorLoop, result, history
<1>6. Opened' /\ FilesStay /\ \A q \in Procs : StaysAlone(q)
  BY <1>1, <1>2, SameFiles, SameOffsets DEF descriptors, history
<1>7. OneAtTheDrive'
  <2>1. \A q \in Procs : pc'[q] \in AtDrive => q = p
    BY <1>1, <1>2, <1>3 DEF OneAtTheDrive, AtDrive
  <2> QED BY <1>2, <1>3, <2>1 DEF OneAtTheDrive, AtDrive
<1>8. FetchOK(p)'
  <2>1. /\ Nd(p)' = Nd(p)
        /\ UNCHANGED <<dev, data, num, off, block>>
    BY <1>1, <1>2, <1>6, NodeStays DEF ProcOK, sectorLoop, blockLoop
  <2>2. Part(p)' = Part(p) /\ From(p)' = From(p)
    BY <2>1 DEF Part, From
  <2> QED BY <1>1, <1>2, <1>3, <2>1, <2>2 DEF ProcOK, FetchOK, Fetching
<1>9. ProcOK(p)'
  BY <1>1, <1>2, <1>3, <1>6, <1>8, StaysInLoop
     DEF Loop, Fetching, descriptors, blockLoop, result, history
<1> QED BY <1>4, <1>5, <1>6, <1>7, <1>9, StepOf

LEMMA CommandKeepsIInv ==
  ASSUME IInv, NEW p \in Procs, Command(p)
  PROVE  IInv'
<1>1. TypeOK /\ Opened /\ OneAtTheDrive /\ ProcOK(p)
  BY DEF IInv
<1>2. /\ pc[p] = "command" /\ drive' = [status |-> "busy", sector |-> Sector(p)]
      /\ pc' = [pc EXCEPT ![p] = "data"]
      /\ UNCHANGED <<descriptors, ideLock, call, blockLoop, sectorLoop, result, panicked, history>>
  BY DEF Command, GoTo
<1>3. pc'[p] = "data" /\ pc' \in [Procs -> Steps] /\ \A q \in Procs : q # p => pc'[q] = pc[q]
  BY <1>1, <1>2 DEF TypeOK, Steps
<1>4. drive' \in [status : {"idle", "busy", "drq"}, sector : Nat]
  <2>1. dev[p].off \in Nat
    BY <1>1 DEF TypeOK
  <2>2. Sector(p) \in Nat
    BY <2>1, Sizes, Division DEF Sector
  <2> QED BY <1>2, <2>2
<1>5. TypeOK'
  BY <1>1, <1>2, <1>3, <1>4 DEF TypeOK, descriptors, blockLoop, sectorLoop, result, history
<1>6. \A q \in Procs : q # p => Same(q)
  BY <1>2, <1>3 DEF Same, blockLoop, sectorLoop, result, history
<1>7. Opened' /\ FilesStay /\ \A q \in Procs : StaysAlone(q)
  BY <1>1, <1>2, SameFiles, SameOffsets DEF descriptors, history
<1>8. OneAtTheDrive'
  <2>1. ideLock' /\ \A q \in Procs : pc'[q] \in AtDrive => q = p
    BY <1>1, <1>2, <1>3 DEF OneAtTheDrive, AtDrive
  <2>2. drive'.sector = Sector(p)'
    BY <1>2 DEF Sector, sectorLoop
  <2> QED BY <2>1, <2>2 DEF OneAtTheDrive, AtDrive
<1>9. FetchOK(p)'
  <2>1. /\ Nd(p)' = Nd(p)
        /\ UNCHANGED <<dev, data, num, off, block>>
    BY <1>1, <1>2, <1>7, NodeStays DEF ProcOK, sectorLoop, blockLoop
  <2>2. Part(p)' = Part(p) /\ From(p)' = From(p)
    BY <2>1 DEF Part, From
  <2> QED BY <1>1, <1>2, <1>3, <2>1, <2>2 DEF ProcOK, FetchOK, Fetching
<1>10. ProcOK(p)'
  BY <1>1, <1>2, <1>3, <1>7, <1>9, StaysInLoop
     DEF Loop, Fetching, descriptors, blockLoop, result, history
<1> QED BY <1>5, <1>6, <1>7, <1>8, <1>10, StepOf

LEMMA DriveReadyKeepsIInv ==
  ASSUME IInv, DriveReady
  PROVE  IInv'
<1>1. TypeOK /\ Opened /\ OneAtTheDrive /\ \A q \in Procs : ProcOK(q)
  BY DEF IInv
<1>2. /\ drive' = [drive EXCEPT !.status = "drq"]
      /\ UNCHANGED <<descriptors, ideLock, pc, call, blockLoop, sectorLoop, result, panicked, history>>
  BY DEF DriveReady
<1>3. drive' \in [status : {"idle", "busy", "drq"}, sector : Nat] /\ drive'.sector = drive.sector
  <2>1. drive \in [status : {"idle", "busy", "drq"}, sector : Nat]
    BY <1>1 DEF TypeOK
  <2> QED BY <1>2, <2>1
<1>4. TypeOK'
  BY <1>1, <1>2, <1>3 DEF TypeOK, descriptors, blockLoop, sectorLoop, result, history
<1>5. \A q \in Procs : Same(q)
  BY <1>2 DEF Same, blockLoop, sectorLoop, result, history
<1>6. Opened' /\ FilesStay /\ \A q \in Procs : StaysAlone(q)
  BY <1>1, <1>2, SameFiles, SameOffsets DEF descriptors, history
<1>7. OneAtTheDrive'
  BY <1>1, <1>2, <1>3 DEF OneAtTheDrive, Sector, sectorLoop
<1>8. \A q \in Procs : ProcOK(q)'
  BY <1>1, <1>5, <1>6, Bystander
<1> QED BY <1>4, <1>6, <1>7, <1>8 DEF IInv

LEMMA UnlockKeepsIInv ==
  ASSUME IInv, NEW p \in Procs, Unlock(p)
  PROVE  IInv'
<1>1. TypeOK /\ Opened /\ OneAtTheDrive /\ ProcOK(p)
  BY DEF IInv
<1> DEFINE next == IF dev[p].num > 0 THEN "lock" ELSE dev[p].next
<1>2. /\ pc[p] = "unlock" /\ ideLock' = FALSE
      /\ pc' = [pc EXCEPT ![p] = next]
      /\ UNCHANGED <<descriptors, drive, call, blockLoop, sectorLoop, result, panicked, history>>
  BY DEF Unlock, GoTo
<1>3. dev[p].num \in Nat /\ dev[p].next \in {"entry", "copy"}
  <2>1. dev[p] \in [off : Nat, num : 0..BlockSize, next : {"entry", "copy"}]
    BY <1>1 DEF TypeOK
  <2> QED BY <2>1, Sizes
<1>4. /\ next \in {"lock", "entry", "copy"} /\ (next = "lock" => dev[p].num > 0)
      /\ (next # "lock" => dev[p].num = 0 /\ next = dev[p].next)
  BY <1>3
<1> HIDE DEF next
<1>5. pc'[p] = next /\ pc' \in [Procs -> Steps] /\ \A q \in Procs : q # p => pc'[q] = pc[q]
  BY <1>1, <1>2, <1>4 DEF TypeOK, Steps
<1>6. TypeOK'
  BY <1>1, <1>2, <1>5 DEF TypeOK, descriptors, blockLoop, sectorLoop, result, history
<1>7. \A q \in Procs : q # p => Same(q)
  BY <1>2, <1>5 DEF Same, blockLoop, sectorLoop, result, history
<1>8. Opened' /\ FilesStay /\ \A q \in Procs : StaysAlone(q)
  BY <1>1, <1>2, SameFiles, SameOffsets DEF descriptors, history
<1>9. OneAtTheDrive'
  <2>1. \A q \in Procs : pc'[q] \notin AtDrive
    BY <1>1, <1>2, <1>4, <1>5 DEF OneAtTheDrive, AtDrive
  <2> QED BY <2>1 DEF OneAtTheDrive, AtDrive
<1>10. FetchOK(p)'
  <2>1. /\ Nd(p)' = Nd(p)
        /\ UNCHANGED <<dev, data, num, off, block>>
    BY <1>1, <1>2, <1>8, NodeStays DEF ProcOK, sectorLoop, blockLoop
  <2>2. Part(p)' = Part(p) /\ From(p)' = From(p)
    BY <2>1 DEF Part, From
  <2> QED BY <1>1, <1>2, <1>4, <1>5, <2>1, <2>2 DEF ProcOK, FetchOK, Fetching
<1>11. ProcOK(p)'
  BY <1>1, <1>2, <1>4, <1>5, <1>8, <1>10, StaysInLoop
     DEF Loop, Fetching, descriptors, blockLoop, result, history
<1> QED BY <1>6, <1>7, <1>8, <1>9, <1>11, StepOf

(* What is fetched is on the disk.                                         *)
LEMMA FetchFacts ==
  ASSUME TypeOK, Opened, NEW p \in Procs, ProcOK(p), pc[p] \in Fetching
  PROVE  /\ From(p) \in Nat /\ Part(p) \in Nat /\ Part(p) <= BlockSize
         /\ \A j \in 0..(Part(p) - 1) : Disk[From(p) + j] \in Nat
<1>1. HoldsFile(Nd(p), Text(p)) /\ off[p] \in Nat
  BY BufferFacts DEF Loop
<1>2. /\ off[p] < Nd(p).size /\ block[p] = off[p] \div BlockSize
      /\ dev[p].next = "entry" => block[p] >= NDirect
  BY DEF ProcOK, FetchOK
<1>3. /\ block[p] \in Nat /\ BlockIndex(Nd(p), block[p]) \in Nat
      /\ block[p] >= NDirect => Nd(p).indirect \in Nat
      /\ \A i \in 0..(BlockSize - 1) : Disk[BlockIndex(Nd(p), block[p]) * BlockSize + i] \in Nat
  BY <1>1, <1>2, BlockFacts
<1>4. dev[p].next \in {"entry", "copy"}
  <2>1. dev[p] \in [off : Nat, num : 0..BlockSize, next : {"entry", "copy"}]
    BY DEF TypeOK
  <2> QED BY <2>1
<1>5. CASE dev[p].next = "copy"
  <2>1. Part(p) = BlockSize /\ From(p) = BlockIndex(Nd(p), block[p]) * BlockSize
    BY <1>5 DEF Part, From
  <2>2. From(p) \in Nat
    BY <1>3, <2>1, Products
  <2>3. BlockSize \in Nat /\ BlockSize <= BlockSize
    BY Sizes
  <2>4. \A j \in 0..(Part(p) - 1) : Disk[From(p) + j] \in Nat
    BY <1>3, <2>1
  <2> QED BY <2>1, <2>2, <2>3, <2>4
<1>6. CASE dev[p].next = "entry"
  <2>1. /\ Part(p) = 1 /\ From(p) = Nd(p).indirect * BlockSize + (block[p] - NDirect)
        /\ block[p] >= NDirect
    BY <1>2, <1>6 DEF Part, From
  <2>2. Nd(p).indirect * BlockSize \in Nat /\ block[p] - NDirect \in Nat /\ ~(block[p] < NDirect)
    <3> DEFINE x == Nd(p).indirect
    <3>1. x \in Nat
      BY <1>3, <2>1
    <3>2. x * BlockSize \in Nat
      BY <3>1, Products
    <3>3. block[p] \in Nat /\ NDirect \in Nat /\ block[p] >= NDirect
      BY <1>3, <2>1, Sizes
    <3>4. block[p] - NDirect \in Nat /\ ~(block[p] < NDirect)
      BY <3>3
    <3> QED BY <3>2, <3>4
  <2>3. From(p) = Nd(p).indirect * BlockSize + block[p] - NDirect /\ From(p) \in Nat
    BY <1>3, <2>1, <2>2, Sizes
  <2>4. Disk[From(p)] \in Nat
    BY <1>3, <2>2, <2>3 DEF BlockIndex
  <2>5. \A j \in 0..(Part(p) - 1) : From(p) + j = From(p)
    BY <2>1, <2>3
  <2> QED BY <2>1, <2>3, <2>4, <2>5, Sizes
<1> QED BY <1>4, <1>5, <1>6

LEMMA DataKeepsIInv ==
  ASSUME IInv, NEW p \in Procs, Data(p)
  PROVE  IInv'
<1>1. TypeOK /\ Opened /\ OneAtTheDrive /\ ProcOK(p)
  BY DEF IInv
<1> DEFINE o == dev[p].off % SectorSize
           n == MinOf(SectorSize - o, dev[p].num)
           got == [i \in 1..n |-> Disk[drive.sector * SectorSize + o + i - 1]]
<1>2. /\ pc[p] = "data"
      /\ data' = [data EXCEPT ![p] = @ \o got]
      /\ dev' = [dev EXCEPT ![p].off = @ + n, ![p].num = @ - n]
      /\ drive' = [drive EXCEPT !.status = "idle"]
      /\ pc' = [pc EXCEPT ![p] = "unlock"]
      /\ UNCHANGED <<descriptors, ideLock, call, blockLoop, result, panicked, history>>
  BY DEF Data, GoTo
<1>3. pc'[p] = "unlock" /\ pc' \in [Procs -> Steps] /\ \A q \in Procs : q # p => pc'[q] = pc[q]
  BY <1>1, <1>2 DEF TypeOK, Steps
<1>4. /\ dev[p] \in [off : Nat, num : 0..BlockSize, next : {"entry", "copy"}]
      /\ dev[p].off \in Nat /\ dev[p].num \in Nat
  <2>1. dev[p] \in [off : Nat, num : 0..BlockSize, next : {"entry", "copy"}]
    BY <1>1 DEF TypeOK
  <2> QED BY <2>1, Sizes
<1>5. /\ num[p] > 0 /\ off[p] < Nd(p).size /\ block[p] = off[p] \div BlockSize
      /\ dev[p].next = "entry" => block[p] >= NDirect
      /\ dev[p].num <= Part(p) /\ dev[p].off = From(p) + Part(p) - dev[p].num
      /\ Len(data[p]) = Part(p) - dev[p].num
      /\ \A i \in 1..Len(data[p]) : data[p][i] = Disk[From(p) + i - 1]
      /\ dev[p].num > 0
  BY <1>1, <1>2 DEF ProcOK, FetchOK, Fetching
<1>6. /\ From(p) \in Nat /\ Part(p) \in Nat /\ Part(p) <= BlockSize
      /\ \A j \in 0..(Part(p) - 1) : Disk[From(p) + j] \in Nat
  BY <1>1, <1>2, FetchFacts DEF Fetching
<1>7. o \in 0..(SectorSize - 1) /\ SectorSize \in Nat /\ drive.sector * SectorSize + o = dev[p].off
  <2>1. SectorSize \in Nat \ {0}
    BY Sizes
  <2>2. drive.sector = dev[p].off \div SectorSize
    BY <1>1, <1>2 DEF OneAtTheDrive, Sector
  <2>3. /\ dev[p].off % SectorSize \in 0..(SectorSize - 1) /\ dev[p].off \div SectorSize \in Nat
        /\ dev[p].off = SectorSize * (dev[p].off \div SectorSize) + (dev[p].off % SectorSize)
    BY <1>4, <2>1, Division
  <2>4. \A x \in Nat : x * SectorSize = SectorSize * x
    BY <2>1
  <2> QED BY <2>1, <2>2, <2>3, <2>4
<1>8. n \in Nat /\ n > 0 /\ n <= dev[p].num
  <2>1. SectorSize - o \in Nat /\ SectorSize - o > 0
    BY <1>7
  <2> HIDE DEF o
  <2> QED BY <1>4, <1>5, <2>1 DEF MinOf
<1> HIDE DEF o, n
<1>9. ASSUME NEW i \in 1..n
      PROVE  /\ drive.sector * SectorSize + o + i - 1 = From(p) + (Len(data[p]) + i) - 1
             /\ Disk[drive.sector * SectorSize + o + i - 1] \in Nat
  <2> DEFINE l == Len(data[p])
  <2>1. l = Part(p) - dev[p].num /\ l \in Nat /\ dev[p].off = From(p) + l
    BY <1>4, <1>5, <1>6
  <2>2. drive.sector * SectorSize + o + i - 1 = dev[p].off + i - 1
    BY <1>7
  <2> HIDE DEF l
  <2>3. dev[p].off + i - 1 = From(p) + (l + i) - 1 /\ dev[p].off + i - 1 = From(p) + (l + (i - 1))
    BY <1>6, <1>8, <2>1
  <2>4. l + (i - 1) \in 0..(Part(p) - 1)
    BY <1>4, <1>5, <1>6, <1>8, <2>1
  <2>5. Disk[From(p) + (l + (i - 1))] \in Nat
    BY <1>6, <2>4
  <2> QED BY <2>2, <2>3, <2>5 DEF l
<1>10. /\ got \in Seq(Nat) /\ Len(got) = n
       /\ \A i \in 1..n : got[i] = Disk[From(p) + (Len(data[p]) + i) - 1]
  <2>1. got \in [1..n -> Nat]
    BY <1>9
  <2>2. got \in Seq(Nat)
    BY <1>8, <2>1, SeqDef
  <2>3. Len(got) = n
    BY <1>8, <2>1, <2>2
  <2>4. \A i \in 1..n : got[i] = Disk[From(p) + (Len(data[p]) + i) - 1]
    BY <1>9
  <2> QED BY <2>2, <2>3, <2>4
<1> HIDE DEF got
<1>11. /\ data[p] \o got \in Seq(Nat)
       /\ Len(data[p] \o got) = Len(data[p]) + n
       /\ \A i \in 1..(Len(data[p]) + n) :
            (data[p] \o got)[i] = IF i <= Len(data[p]) THEN data[p][i]
                                  ELSE got[i - Len(data[p])]
  <2> DEFINE a == data[p]
  <2>1. a \in Seq(Nat) /\ got \in Seq(Nat) /\ Len(got) = n
    BY <1>1, <1>10 DEF TypeOK
  <2> HIDE DEF a
  <2>2. /\ a \o got \in Seq(Nat)
        /\ Len(a \o got) = Len(a) + Len(got)
        /\ \A i \in 1..(Len(a) + Len(got)) :
             (a \o got)[i] = IF i <= Len(a) THEN a[i] ELSE got[i - Len(a)]
    BY <2>1, ConcatProperties, Zenon
  <2> QED BY <2>1, <2>2 DEF a
<1>12. /\ data' \in [Procs -> Seq(Nat)] /\ data'[p] = data[p] \o got
       /\ \A q \in Procs : q # p => data'[q] = data[q]
  <2>1. data \in [Procs -> Seq(Nat)]
    BY <1>1 DEF TypeOK
  <2> QED BY <1>2, <1>11, <2>1
<1>13. /\ dev' \in [Procs -> [off : Nat, num : 0..BlockSize, next : {"entry", "copy"}]]
       /\ dev'[p].off = dev[p].off + n /\ dev'[p].num = dev[p].num - n
       /\ dev'[p].next = dev[p].next
       /\ \A q \in Procs : q # p => dev'[q] = dev[q]
  <2>1. dev \in [Procs -> [off : Nat, num : 0..BlockSize, next : {"entry", "copy"}]]
    BY <1>1 DEF TypeOK
  <2>2. dev[p].off + n \in Nat /\ dev[p].num - n \in 0..BlockSize
    <3>1. dev[p].num <= BlockSize /\ BlockSize \in Nat
      BY <1>4, Sizes
    <3> QED BY <1>4, <1>8, <3>1
  <2> QED BY <1>2, <2>1, <2>2
<1>14. drive' \in [status : {"idle", "busy", "drq"}, sector : Nat]
  <2>1. drive \in [status : {"idle", "busy", "drq"}, sector : Nat]
    BY <1>1 DEF TypeOK
  <2> QED BY <1>2, <2>1
<1>15. TypeOK'
  BY <1>1, <1>2, <1>3, <1>12, <1>13, <1>14 DEF TypeOK, descriptors, blockLoop, result, history
<1>16. \A q \in Procs : q # p => Same(q)
  BY <1>2, <1>3, <1>12, <1>13 DEF Same, blockLoop, result, history
<1>17. Opened' /\ FilesStay /\ \A q \in Procs : StaysAlone(q)
  BY <1>1, <1>2, SameFiles, SameOffsets DEF descriptors, history
<1>18. OneAtTheDrive'
  <2>1. ideLock' /\ \A q \in Procs : pc'[q] \in AtDrive => q = p
    BY <1>1, <1>2, <1>3 DEF OneAtTheDrive, AtDrive
  <2> QED BY <1>3, <2>1 DEF OneAtTheDrive, AtDrive
<1>19. FetchOK(p)'
  <2>1. Nd(p)' = Nd(p) /\ UNCHANGED <<num, off, block>>
    BY <1>1, <1>2, <1>17, NodeStays DEF ProcOK, blockLoop
  <2>2. Part(p)' = Part(p) /\ From(p)' = From(p)
    BY <1>13, <2>1 DEF Part, From
  <2> DEFINE l == Len(data[p])
  <2>3. l \in Nat /\ Len(data'[p]) = l + n
    BY <1>1, <1>11, <1>12, LenProperties DEF TypeOK
  <2>4. \A i \in 1..(l + n) : (data[p] \o got)[i] = Disk[From(p) + i - 1]
    <3>1. SUFFICES ASSUME NEW i \in 1..(l + n)
                   PROVE  (data[p] \o got)[i] = Disk[From(p) + i - 1]
      OBVIOUS
    <3>2. CASE i <= l
      BY <1>5, <1>11, <2>3, <3>2
    <3>3. CASE ~(i <= l)
      <4>1. i - l \in 1..n /\ l + (i - l) = i
        <5> HIDE DEF l
        <5> QED BY <1>8, <2>3, <3>3
      <4>2. (data[p] \o got)[i] = got[i - l]
        BY <1>11, <3>3
      <4>3. got[i - l] = Disk[From(p) + (l + (i - l)) - 1]
        BY <1>10, <4>1
      <4> QED BY <4>1, <4>2, <4>3
    <3> QED BY <3>2, <3>3
  <2>5. l = Part(p) - dev[p].num
    BY <1>5
  <2> HIDE DEF l
  <2>6. /\ dev[p].num - n <= Part(p) /\ dev[p].off + n = From(p) + Part(p) - (dev[p].num - n)
        /\ l + n = Part(p) - (dev[p].num - n)
    <3> DEFINE m == dev[p].num
               f == From(p)
               t == Part(p)
               x == dev[p].off
    <3>1. /\ m \in Nat /\ f \in Nat /\ t \in Nat /\ x \in Nat /\ n \in Nat /\ l \in Nat
          /\ m <= t /\ n <= m /\ x = f + t - m /\ l = t - m
      BY <1>4, <1>5, <1>6, <1>8, <2>3, <2>5
    <3> HIDE DEF m, f, t, x
    <3>2. m - n <= t /\ x + n = f + t - (m - n) /\ l + n = t - (m - n)
      BY <3>1
    <3> QED BY <3>2 DEF m, f, t, x
  <2>7. \A i \in 1..Len(data'[p]) : data'[p][i] = Disk[From(p)' + i - 1]
    BY <1>12, <2>2, <2>3, <2>4
  <2>8. /\ dev'[p].num <= Part(p)' /\ dev'[p].off = From(p)' + Part(p)' - dev'[p].num
        /\ Len(data'[p]) = Part(p)' - dev'[p].num
    BY <1>13, <2>2, <2>3, <2>6
  <2>9. /\ num'[p] > 0 /\ off'[p] < Nd(p)'.size /\ block'[p] = off'[p] \div BlockSize
        /\ dev'[p].next = "entry" => block'[p] >= NDirect
    BY <1>5, <1>13, <2>1
  <2> QED BY <1>3, <2>7, <2>8, <2>9 DEF FetchOK, Fetching
<1>20. ProcOK(p)'
  BY <1>1, <1>2, <1>3, <1>17, <1>19, StaysInLoop
     DEF Loop, Fetching, descriptors, blockLoop, result, history
<1> QED BY <1>15, <1>16, <1>17, <1>18, <1>20, StepOf

-----------------------------------------------------------------------------
(* After the loop, and between the calls.                                  *)

LEMMA WantedFacts ==
  ASSUME TypeOK, Opened, NEW p \in Procs, ProcOK(p), pc[p] # "out", start[p].asked <= Nd(p).size
  PROVE  /\ start[p].asked \in Uint /\ Wanted(p) \in Nat
         /\ start[p].asked + Wanted(p) \in Uint /\ start[p].asked + Wanted(p) <= Nd(p).size
<1>1. Nd(p).size \in Uint /\ Nd(p).size \in Nat /\ call[p].n \in Uint /\ start[p].asked \in Uint
  BY CallFacts DEF ProcOK, TypeOK
<1> DEFINE n == call[p].n
           a == start[p].asked
           s == Nd(p).size
<1>2. n \in Nat /\ a \in Nat /\ s \in Nat /\ s <= W - 1 /\ W \in Nat /\ a <= s
  BY <1>1, Sizes DEF Uint
<1>3. Wanted(p) = MinOf(n, s - a)
  BY DEF Wanted
<1> HIDE DEF n, a, s
<1>4. Wanted(p) \in Nat /\ a + Wanted(p) <= s /\ a + Wanted(p) \in Nat
  BY <1>2, <1>3 DEF MinOf
<1>5. a + Wanted(p) \in Uint
  BY <1>2, <1>4 DEF Uint
<1> QED BY <1>1, <1>4, <1>5 DEF a, s

LEMMA LoadOffsetKeepsIInv ==
  ASSUME IInv, NEW p \in Procs, LoadOffset(p)
  PROVE  IInv'
<1>1. TypeOK /\ Opened /\ OneAtTheDrive /\ ProcOK(p)
  BY DEF IInv
<1> DEFINE x == (offset[call[p].d] + bytes[p]) % W
<1>2. /\ pc[p] = "load" /\ added' = [added EXCEPT ![p] = x]
      /\ pc' = [pc EXCEPT ![p] = "store"]
      /\ UNCHANGED <<descriptors, device, call, blockLoop, sectorLoop, buffer, bytes, panicked, history>>
  BY DEF LoadOffset, GoTo
<1>3. pc'[p] = "store" /\ pc' \in [Procs -> Steps] /\ \A q \in Procs : q # p => pc'[q] = pc[q]
  BY <1>1, <1>2 DEF TypeOK, Steps
<1>4. call[p].d \in Descs /\ offset[call[p].d] \in Uint /\ bytes[p] \in Uint
  BY <1>1, <1>2, CallFacts DEF ProcOK, TypeOK
<1>5. x \in Uint
  <2>1. offset[call[p].d] + bytes[p] \in Int
    BY <1>4, Sizes DEF Uint
  <2> QED BY <2>1, Sizes
<1>6. /\ added' \in [Procs -> Uint] /\ added'[p] = x
      /\ \A q \in Procs : q # p => added'[q] = added[q]
  <2>1. added \in [Procs -> Uint]
    BY <1>1 DEF TypeOK
  <2> HIDE DEF x
  <2> QED BY <1>2, <1>5, <2>1
<1>7. TypeOK'
  BY <1>1, <1>2, <1>3, <1>6 DEF TypeOK, descriptors, device, blockLoop, sectorLoop, history
<1>8. \A q \in Procs : q # p => Same(q)
  BY <1>2, <1>3, <1>6 DEF Same, blockLoop, sectorLoop, history
<1>9. Opened' /\ FilesStay /\ \A q \in Procs : StaysAlone(q)
  BY <1>1, <1>2, SameFiles, SameOffsets DEF descriptors, history
<1>10. OneAtTheDrive'
  BY <1>1, <1>2, <1>3, <1>8, DriveAside DEF device
<1>11. ProcOK(p)'
  <2>1. Nd(p)' = Nd(p) /\ Text(p)' = Text(p)
    BY <1>1, <1>2, <1>9, NodeStays DEF ProcOK
  <2>2. InCall(p)'
    BY <1>1, <1>2 DEF ProcOK, InCall, descriptors
  <2>3. BufferOK(p)'
    <3>1. (Failed(p)' <=> Failed(p)) /\ (IsFile(p)' <=> IsFile(p))
      BY <1>2, <2>1 DEF Failed, IsFile, history
    <3> QED BY <1>1, <1>2, <1>3, <3>1 DEF ProcOK, BufferOK, Loop, Fetching, Ending
  <2>4. FetchOK(p)'
    BY <1>1, <1>2, <1>3 DEF ProcOK, FetchOK, Fetching, sectorLoop
  <2>5. AloneOK(p)'
    <3>1. SUFFICES ASSUME p \in alone PROVE AloneOK(p)'
      BY <1>2 DEF AloneOK, history
    <3>2. offset[call[p].d] = start[p].asked /\ Wanted(p)' = Wanted(p)
      BY <1>1, <1>2, <2>1, <3>1 DEF ProcOK, AloneOK, Wanted, history
    <3>3. ASSUME start[p].asked <= Nd(p).size
          PROVE  /\ start[p].read = start[p].asked /\ bytes[p] = Wanted(p)
                 /\ added'[p] = start[p].asked + bytes[p]
      <4>1. start[p].read = start[p].asked /\ bytes[p] = Wanted(p)
        BY <1>1, <1>2, <3>1, <3>3 DEF ProcOK, AloneOK, Ending
      <4>2. start[p].asked + Wanted(p) \in Uint
        BY <1>1, <1>2, <3>3, WantedFacts
      <4>3. (start[p].asked + bytes[p]) % W = start[p].asked + bytes[p]
        <5> DEFINE k == start[p].asked + bytes[p]
        <5>1. k \in Uint /\ k \in Int
          BY <4>1, <4>2, Sizes DEF Uint
        <5> HIDE DEF k
        <5>2. k % W = k
          BY <5>1, Sizes
        <5> QED BY <5>2 DEF k
      <4> QED BY <1>6, <3>2, <4>1, <4>3
    <3> QED BY <1>1, <1>2, <1>3, <2>1, <3>1, <3>2, <3>3
         DEF AloneOK, Loop, Fetching, Ending, history, descriptors
  <2> QED BY <2>2, <2>3, <2>4, <2>5 DEF ProcOK
<1> QED BY <1>7, <1>8, <1>9, <1>10, <1>11, StepOf

LEMMA StoreOffsetKeepsIInv ==
  ASSUME IInv, NEW p \in Procs, StoreOffset(p)
  PROVE  IInv'
<1>1. TypeOK /\ Opened /\ OneAtTheDrive /\ ProcOK(p)
  BY DEF IInv
<1> DEFINE d == call[p].d
<1>2. /\ pc[p] = "store" /\ offset' = [offset EXCEPT ![d] = added[p]]
      /\ alone' = {q \in alone : q = p \/ call[q].d # d}
      /\ pc' = [pc EXCEPT ![p] = "return"]
      /\ UNCHANGED <<file, device, call, blockLoop, sectorLoop, result, panicked, calls, start, name>>
  BY DEF StoreOffset, GoTo, Disturb
<1>3. pc'[p] = "return" /\ pc' \in [Procs -> Steps] /\ \A q \in Procs : q # p => pc'[q] = pc[q]
  BY <1>1, <1>2 DEF TypeOK, Steps
<1>4. d \in Descs /\ added[p] \in Uint
  BY <1>1, <1>2, CallFacts DEF ProcOK, TypeOK
<1> HIDE DEF d
<1>5. /\ offset' \in [Descs -> Uint] /\ offset'[d] = added[p]
      /\ \A e \in Descs : e # d => offset'[e] = offset[e]
  <2>1. offset \in [Descs -> Uint]
    BY <1>1 DEF TypeOK
  <2> QED BY <1>2, <1>4, <2>1
<1>6. alone' \in SUBSET Procs
  BY <1>1, <1>2 DEF TypeOK
<1>7. TypeOK'
  BY <1>1, <1>2, <1>3, <1>5, <1>6 DEF TypeOK, device, blockLoop, sectorLoop, result
<1>8. \A q \in Procs : q # p => Same(q)
  BY <1>2, <1>3 DEF Same, blockLoop, sectorLoop, result
<1>9. Opened' /\ FilesStay
  BY <1>1, <1>2, SameFiles
<1>10. ASSUME NEW q \in Procs, q # p PROVE StaysAlone(q)
  <2>1. SUFFICES ASSUME q \in alone' PROVE q \in alone /\ offset'[call[q].d] = offset[call[q].d]
    BY DEF StaysAlone
  <2>2. q \in alone /\ call[q].d # d
    BY <1>2, <1>10, <2>1
  <2>3. call[q].d \in Descs
    BY <2>2 DEF IInv, ProcOK, AloneOK, InCall
  <2> QED BY <1>5, <2>2, <2>3
<1>11. OneAtTheDrive'
  BY <1>1, <1>2, <1>3, <1>8, DriveAside DEF device
<1>12. ProcOK(p)'
  <2>1. Nd(p)' = Nd(p) /\ Text(p)' = Text(p)
    BY <1>1, <1>2, <1>9, NodeStays DEF ProcOK
  <2>2. InCall(p)'
    BY <1>1, <1>2 DEF ProcOK, InCall
  <2>3. BufferOK(p)'
    <3>1. (Failed(p)' <=> Failed(p)) /\ (IsFile(p)' <=> IsFile(p))
      BY <1>2, <2>1 DEF Failed, IsFile, result
    <3> QED BY <1>1, <1>2, <1>3, <3>1 DEF ProcOK, BufferOK, Loop, Fetching, Ending, result
  <2>4. FetchOK(p)'
    BY <1>1, <1>2, <1>3 DEF ProcOK, FetchOK, Fetching, sectorLoop
  <2>5. AloneOK(p)'
    <3>1. SUFFICES ASSUME p \in alone PROVE AloneOK(p)'
      BY <1>2 DEF AloneOK
    <3>2. Wanted(p)' = Wanted(p) /\ call'[p].d = d /\ bytes'[p] = bytes[p] /\ start'[p] = start[p]
      BY <1>2, <2>1 DEF Wanted, d, result
    <3>3. start[p].asked <= Nd(p).size =>
            /\ start[p].read = start[p].asked /\ bytes[p] = Wanted(p)
            /\ added[p] = start[p].asked + bytes[p]
      BY <1>1, <1>2, <3>1 DEF ProcOK, AloneOK, Ending
    <3> QED BY <1>3, <1>5, <2>1, <3>2, <3>3 DEF AloneOK, Loop, Fetching, Ending
  <2> QED BY <2>2, <2>3, <2>4, <2>5 DEF ProcOK
<1> QED BY <1>7, <1>8, <1>9, <1>10, <1>11, <1>12, StepOf

LEMMA ReturnKeepsIInv ==
  ASSUME IInv, NEW p \in Procs, Return(p)
  PROVE  IInv'
<1>1. TypeOK /\ Opened /\ OneAtTheDrive /\ ProcOK(p)
  BY DEF IInv
<1>2. /\ pc[p] = "return" /\ pc' = [pc EXCEPT ![p] = "out"]
      /\ call' = [call EXCEPT ![p] = NoCall] /\ buffer' = [buffer EXCEPT ![p] = <<>>]
      /\ bytes' = [bytes EXCEPT ![p] = 0] /\ added' = [added EXCEPT ![p] = 0]
      /\ start' = [start EXCEPT ![p] = NotStarted] /\ alone' = alone \ {p}
      /\ UNCHANGED <<descriptors, device, blockLoop, sectorLoop, panicked, calls, name>>
  BY DEF Return, GoTo
<1>3. pc'[p] = "out" /\ pc' \in [Procs -> Steps] /\ \A q \in Procs : q # p => pc'[q] = pc[q]
  BY <1>1, <1>2 DEF TypeOK, Steps
<1>4. 0 \in Uint /\ NoCall \in [d : Descs \cup {None}, n : Uint]
      /\ NotStarted \in [asked : Uint, read : Uint] /\ <<>> \in Seq(Nat)
  BY Sizes DEF Uint, NoCall, NotStarted
<1>5. /\ call' \in [Procs -> [d : Descs \cup {None}, n : Uint]]
      /\ \A q \in Procs : q # p => call'[q] = call[q]
  <2>1. call \in [Procs -> [d : Descs \cup {None}, n : Uint]]
    BY <1>1 DEF TypeOK
  <2> QED BY <1>2, <1>4, <2>1
<1>6. /\ buffer' \in [Procs -> Seq(Nat)] /\ buffer'[p] = <<>>
      /\ \A q \in Procs : q # p => buffer'[q] = buffer[q]
  <2>1. buffer \in [Procs -> Seq(Nat)]
    BY <1>1 DEF TypeOK
  <2> QED BY <1>2, <1>4, <2>1
<1>7. /\ bytes' \in [Procs -> Uint] /\ added' \in [Procs -> Uint]
      /\ \A q \in Procs : q # p => bytes'[q] = bytes[q] /\ added'[q] = added[q]
  <2>1. bytes \in [Procs -> Uint] /\ added \in [Procs -> Uint]
    BY <1>1 DEF TypeOK
  <2> QED BY <1>2, <1>4, <2>1
<1>8. /\ start' \in [Procs -> [asked : Uint, read : Uint]]
      /\ \A q \in Procs : q # p => start'[q] = start[q]
  <2>1. start \in [Procs -> [asked : Uint, read : Uint]]
    BY <1>1 DEF TypeOK
  <2> QED BY <1>2, <1>4, <2>1
<1>9. TypeOK'
  BY <1>1, <1>2, <1>3, <1>5, <1>6, <1>7, <1>8 DEF TypeOK, descriptors, device, blockLoop, sectorLoop
<1>10. \A q \in Procs : q # p => Same(q)
  BY <1>2, <1>3, <1>5, <1>6, <1>7, <1>8 DEF Same, blockLoop, sectorLoop
<1>11. Opened' /\ FilesStay /\ \A q \in Procs : StaysAlone(q)
  BY <1>1, <1>2, SameFiles DEF descriptors, StaysAlone
<1>12. OneAtTheDrive'
  BY <1>1, <1>2, <1>3, <1>10, DriveAside DEF device
<1>13. ProcOK(p)'
  <2>1. InCall(p)' /\ BufferOK(p)'
    BY <1>3, <1>6 DEF InCall, BufferOK, Loop, Fetching, Ending
  <2>2. FetchOK(p)'
    BY <1>1, <1>2, <1>3 DEF ProcOK, FetchOK, Fetching, sectorLoop
  <2>3. AloneOK(p)'
    BY <1>2 DEF AloneOK
  <2> QED BY <2>1, <2>2, <2>3 DEF ProcOK
<1> QED BY <1>9, <1>10, <1>11, <1>12, <1>13, StepOf

LEMMA CallKeepsIInv ==
  ASSUME IInv, NEW p \in Procs, NEW d \in Descs, NEW n \in Asks, Call(p, d, n)
  PROVE  IInv'
<1>1. TypeOK /\ Opened /\ OneAtTheDrive /\ ProcOK(p)
  BY DEF IInv
<1>2. /\ pc[p] = "out" /\ file[d] # 0 /\ calls < MaxCalls
      /\ call' = [call EXCEPT ![p] = [d |-> d, n |-> n]]
      /\ num' = [num EXCEPT ![p] = n]
      /\ start' = [start EXCEPT ![p].asked = offset[d]]
      /\ alone' = alone \cup {p} /\ calls' = calls + 1
      /\ pc' = [pc EXCEPT ![p] = "check"]
      /\ UNCHANGED <<descriptors, device, off, block, sectorLoop, result, panicked, name>>
  BY DEF Call, GoTo
<1>3. pc'[p] = "check" /\ pc' \in [Procs -> Steps] /\ \A q \in Procs : q # p => pc'[q] = pc[q]
  BY <1>1, <1>2 DEF TypeOK, Steps
<1>4. n \in Uint /\ offset[d] \in Uint /\ calls' \in 0..MaxCalls
  <2>1. calls \in 0..MaxCalls /\ MaxCalls \in Nat
    BY <1>1, Sizes DEF TypeOK
  <2>2. n \in Uint /\ offset[d] \in Uint
    BY <1>1, Sizes DEF TypeOK
  <2>3. calls' \in 0..MaxCalls
    BY <1>2, <2>1
  <2> QED BY <2>2, <2>3
<1>5. /\ call' \in [Procs -> [d : Descs \cup {None}, n : Uint]]
      /\ call'[p].d = d /\ call'[p].n = n
      /\ \A q \in Procs : q # p => call'[q] = call[q]
  <2>1. call \in [Procs -> [d : Descs \cup {None}, n : Uint]]
    BY <1>1 DEF TypeOK
  <2> QED BY <1>2, <1>4, <2>1
<1>6. /\ num' \in [Procs -> Uint] /\ num'[p] = n
      /\ \A q \in Procs : q # p => num'[q] = num[q]
  <2>1. num \in [Procs -> Uint]
    BY <1>1 DEF TypeOK
  <2> QED BY <1>2, <1>4, <2>1
<1>7. /\ start' \in [Procs -> [asked : Uint, read : Uint]]
      /\ start'[p].asked = offset[d]
      /\ \A q \in Procs : q # p => start'[q] = start[q]
  <2>1. start \in [Procs -> [asked : Uint, read : Uint]]
    BY <1>1 DEF TypeOK
  <2> QED BY <1>2, <1>4, <2>1
<1>8. TypeOK'
  <2>1. alone' \in SUBSET Procs
    BY <1>1, <1>2 DEF TypeOK
  <2> QED BY <1>1, <1>2, <1>3, <1>4, <1>5, <1>6, <1>7, <2>1
          DEF TypeOK, descriptors, device, sectorLoop, result
<1>9. \A q \in Procs : q # p => Same(q) /\ StaysAlone(q)
  BY <1>2, <1>3, <1>5, <1>6, <1>7 DEF Same, sectorLoop, result, StaysAlone, descriptors
<1>10. Opened' /\ FilesStay
  BY <1>1, <1>2, SameFiles DEF descriptors
<1>11. OneAtTheDrive'
  BY <1>1, <1>2, <1>3, <1>9, DriveAside DEF device
<1>12. ProcOK(p)'
  <2>1. InCall(p)'
    BY <1>2, <1>5 DEF InCall, descriptors
  <2>2. BufferOK(p)'
    BY <1>1, <1>2, <1>3 DEF ProcOK, BufferOK, Loop, Fetching, Ending, result
  <2>3. FetchOK(p)'
    BY <1>1, <1>2, <1>3 DEF ProcOK, FetchOK, Fetching, sectorLoop
  <2>4. AloneOK(p)'
    BY <1>2, <1>3, <1>5, <1>6, <1>7 DEF AloneOK, Loop, Fetching, Ending, descriptors
  <2> QED BY <2>1, <2>2, <2>3, <2>4 DEF ProcOK
<1> QED BY <1>8, <1>9, <1>10, <1>11, <1>12, StepOf

LEMMA SeekKeepsIInv ==
  ASSUME IInv, NEW p \in Procs, NEW d \in Descs, NEW o \in Offsets, seek(p, d, o)
  PROVE  IInv'
<1>1. TypeOK /\ Opened /\ OneAtTheDrive /\ \A q \in Procs : ProcOK(q)
  BY DEF IInv
<1>2. /\ pc[p] = "out" /\ calls < MaxCalls /\ calls' = calls + 1
      /\ offset' = [offset EXCEPT ![d] = o]
      /\ alone' = {q \in alone : q = p \/ call[q].d # d}
      /\ UNCHANGED <<file, device, pc, call, blockLoop, sectorLoop, result, panicked, start, name>>
  BY DEF seek, Disturb
<1>3. /\ offset' \in [Descs -> Uint] /\ \A e \in Descs : e # d => offset'[e] = offset[e]
  <2>1. offset \in [Descs -> Uint] /\ o \in Uint
    BY <1>1, Sizes DEF TypeOK
  <2> QED BY <1>2, <2>1
<1>4. TypeOK'
  <2>1. alone' \in SUBSET Procs
    BY <1>1, <1>2 DEF TypeOK
  <2>2. calls' \in 0..MaxCalls
    <3>1. calls \in 0..MaxCalls /\ MaxCalls \in Nat
      BY <1>1, Sizes DEF TypeOK
    <3> QED BY <1>2, <3>1
  <2> QED BY <1>1, <1>2, <1>3, <2>1, <2>2 DEF TypeOK, device, blockLoop, sectorLoop, result
<1>5. \A q \in Procs : Same(q)
  BY <1>2 DEF Same, blockLoop, sectorLoop, result
<1>6. Opened' /\ FilesStay
  BY <1>1, <1>2, SameFiles
<1>7. ASSUME NEW q \in Procs PROVE StaysAlone(q)
  <2>1. SUFFICES ASSUME q \in alone' PROVE q \in alone /\ offset'[call[q].d] = offset[call[q].d]
    BY DEF StaysAlone
  <2>2. q \in alone /\ (q = p \/ call[q].d # d)
    BY <1>2, <2>1
  <2>3. pc[q] # "out" /\ call[q].d \in Descs
    BY <1>1, <2>2 DEF ProcOK, AloneOK, InCall
  <2> QED BY <1>2, <1>3, <2>2, <2>3
<1>8. OneAtTheDrive'
  BY <1>1, <1>2 DEF OneAtTheDrive, device, Sector, sectorLoop
<1>9. \A q \in Procs : ProcOK(q)'
  BY <1>1, <1>5, <1>6, <1>7, Bystander
<1> QED BY <1>4, <1>6, <1>8, <1>9 DEF IInv

LEMMA OpenKeepsIInv ==
  ASSUME IInv, NEW p \in Procs, NEW d \in Descs, NEW path \in Paths, open(p, d, path)
  PROVE  IInv'
<1>1. TypeOK /\ Opened /\ OneAtTheDrive /\ \A q \in Procs : ProcOK(q)
  BY DEF IInv
<1>2. /\ file[d] = 0
      /\ UNCHANGED <<offset, device, pc, call, blockLoop, sectorLoop, result, calls, start, alone>>
  BY DEF open
<1>3. \A q \in Procs : Same(q) /\ StaysAlone(q)
  BY <1>2 DEF Same, StaysAlone, blockLoop, sectorLoop, result
<1>4. OneAtTheDrive'
  BY <1>1, <1>2 DEF OneAtTheDrive, device, Sector, sectorLoop
<1>5. TypeOK' /\ Opened' /\ FilesStay
  <2>1. CASE panicked' = TRUE /\ UNCHANGED <<file, name>>
    <3>1. TypeOK'
      BY <1>1, <1>2, <2>1 DEF TypeOK, device, blockLoop, sectorLoop, result
    <3> QED BY <1>1, <2>1, <3>1, SameFiles
  <2>2. CASE /\ Lookup(path) > 0
             /\ file' = [file EXCEPT ![d] = Lookup(path)]
             /\ name' = [name EXCEPT ![d] = path]
             /\ UNCHANGED panicked
    <3>1. Lookup(path) \in Nat /\ Lookup(path) > 0
      BY <2>2, DiskAssumption
    <3>2. /\ file' \in [Descs -> Nat] /\ file'[d] = Lookup(path)
          /\ \A e \in Descs : e # d => file'[e] = file[e]
      <4>1. file \in [Descs -> Nat]
        BY <1>1 DEF TypeOK
      <4> QED BY <2>2, <3>1, <4>1
    <3>3. /\ name' \in [Descs -> Paths \cup {<<>>}] /\ name'[d] = path
          /\ \A e \in Descs : e # d => name'[e] = name[e]
      <4>1. name \in [Descs -> Paths \cup {<<>>}]
        BY <1>1 DEF TypeOK
      <4> QED BY <2>2, <4>1
    <3>4. TypeOK'
      BY <1>1, <1>2, <2>2, <3>2, <3>3 DEF TypeOK, device, blockLoop, sectorLoop, result
    <3>5. FilesStay
      BY <1>2, <3>2, <3>3 DEF FilesStay
    <3>6. Opened'
      BY <1>1, <3>1, <3>2, <3>3 DEF Opened
    <3> QED BY <3>4, <3>5, <3>6
  <2> QED BY <2>1, <2>2 DEF open
<1>6. \A q \in Procs : ProcOK(q)'
  BY <1>1, <1>3, <1>5, Bystander
<1> QED BY <1>4, <1>5, <1>6 DEF IInv

-----------------------------------------------------------------------------

LEMMA InitIInv == Init => IInv
<1>1. SUFFICES ASSUME Init PROVE IInv
  OBVIOUS
<1>2. 0 \in Uint /\ 0 \in Nat /\ 0 \in 0..MaxCalls /\ <<>> \in Seq(Nat)
      /\ NoCall \in [d : Descs \cup {None}, n : Uint]
      /\ NotStarted \in [asked : Uint, read : Uint]
      /\ Nowhere \in [off : Nat, num : 0..BlockSize, next : {"entry", "copy"}]
  BY Sizes DEF Uint, NoCall, NotStarted, Nowhere
<1>3. TypeOK
  BY <1>1, <1>2 DEF Init, TypeOK, Steps
<1>4. Opened /\ OneAtTheDrive
  BY <1>1 DEF Init, Opened, OneAtTheDrive
<1>5. ASSUME NEW p \in Procs PROVE ProcOK(p)
  <2>1. pc[p] = "out" /\ buffer[p] = <<>> /\ data[p] = <<>> /\ p \notin alone
    BY <1>1 DEF Init
  <2> QED BY <2>1 DEF ProcOK, InCall, BufferOK, FetchOK, AloneOK, Loop, Fetching, Ending
<1> QED BY <1>3, <1>4, <1>5 DEF IInv

LEMMA NextKeepsIInv == IInv /\ [Next]_vars => IInv'
<1>1. SUFFICES ASSUME IInv, [Next]_vars PROVE IInv'
  OBVIOUS
<1>2. CASE DriveReady
  BY <1>1, <1>2, DriveReadyKeepsIInv
<1>3. ASSUME NEW p \in Procs, Continue(p) PROVE IInv'
  <2>1. CASE Check(p) \/ Clip(p) \/ Start(p)
    BY <1>1, <2>1, CheckKeepsIInv, ClipKeepsIInv, StartKeepsIInv
  <2>2. CASE ReadEnds(p) \/ ReadDirect(p) \/ ReadIndirect(p) \/ Entry(p) \/ Copy(p)
    BY <1>1, <2>2, ReadEndsKeepsIInv, ReadDirectKeepsIInv, ReadIndirectKeepsIInv,
       EntryKeepsIInv, CopyKeepsIInv
  <2>3. CASE Lock(p) \/ Command(p) \/ Data(p) \/ Unlock(p)
    BY <1>1, <2>3, LockKeepsIInv, CommandKeepsIInv, DataKeepsIInv, UnlockKeepsIInv
  <2>4. CASE LoadOffset(p) \/ StoreOffset(p) \/ Return(p)
    BY <1>1, <2>4, LoadOffsetKeepsIInv, StoreOffsetKeepsIInv, ReturnKeepsIInv
  <2> QED BY <1>3, <2>1, <2>2, <2>3, <2>4 DEF Continue
<1>4. ASSUME NEW p \in Procs, NEW d \in Descs, Request(p, d) PROVE IInv'
  BY <1>1, <1>4, OpenKeepsIInv, SeekKeepsIInv, CallKeepsIInv DEF Request
<1>5. CASE UNCHANGED vars
  <2>1. /\ \A q \in Procs : Same(q) /\ ProcOK(q) /\ StaysAlone(q)
        /\ TypeOK /\ Opened /\ OneAtTheDrive
    BY <1>1, <1>5 DEF vars, Same, StaysAlone, IInv, descriptors, blockLoop, sectorLoop, result,
                      history
  <2>2. Opened' /\ FilesStay
    BY <1>5, <2>1, SameFiles DEF vars, descriptors, history
  <2>3. TypeOK'
    BY <1>5, <2>1 DEF TypeOK, vars, descriptors, device, blockLoop, sectorLoop, result, history
  <2>4. OneAtTheDrive'
    BY <1>5, <2>1 DEF OneAtTheDrive, Sector, vars, device, sectorLoop
  <2>5. \A q \in Procs : ProcOK(q)'
    BY <2>1, <2>2, Bystander
  <2> QED BY <2>2, <2>3, <2>4, <2>5 DEF IInv
<1> QED BY <1>1, <1>2, <1>3, <1>4, <1>5 DEF Next

(* How far every read has got, of every process, for any number of them,   *)
(* any disk and any sizes: the steps of read() and of the two read_all()   *)
(* keep the offsets, counts and buffers of sys.cc, ext2.cc and block_io.cc *)
(* together.                                                               *)
THEOREM Invariance == Spec => []IInv
<1>1. Init => IInv
  BY InitIInv
<1>2. IInv /\ [Next]_vars => IInv'
  BY NextKeepsIInv
<1> QED BY <1>1, <1>2, PTL DEF Spec

(* The bytes that read() (sys.cc:343) returns are those of the file from   *)
(* the offset that it loaded, whatever other processes do with the         *)
(* descriptor and with the drive in between.                               *)
THEOREM ReadDelivers == Spec => []DeliversTheFile
<1>1. IInv => DeliversTheFile
  <2>1. SUFFICES ASSUME IInv, NEW p \in Procs, pc[p] = "return", ~Failed(p)
                 PROVE  /\ Len(buffer[p]) = bytes[p]
                        /\ buffer[p] = SubSeq(Contents[name[call[p].d]],
                                              start[p].read + 1, start[p].read + bytes[p])
    BY DEF DeliversTheFile
  <2>2. TypeOK /\ Opened /\ ProcOK(p)
    BY <2>1 DEF IInv
  <2>3. bytes[p] = Len(buffer[p]) /\ IsFile(p)
    BY <2>1, <2>2 DEF ProcOK, BufferOK, Ending
  <2>4. /\ Text(p) \in Seq(Nat) /\ Nd(p).size = Len(Text(p))
        /\ buffer[p] \in Seq(Nat) /\ start[p].read \in Nat
    <3>1. Text(p) \in Seq(Nat) /\ Nd(p).size = Len(Text(p))
      BY <2>1, <2>2, CallFacts DEF ProcOK
    <3>2. buffer[p] \in Seq(Nat) /\ start[p].read \in Uint
      BY <2>2 DEF TypeOK
    <3> QED BY <3>1, <3>2, Sizes DEF Uint
  <2>5. buffer[p] = SubSeq(Text(p), start[p].read + 1, start[p].read + Len(buffer[p]))
    BY <2>3, <2>4, PartOfFile DEF IsFile
  <2> QED BY <2>3, <2>5 DEF Text
<1> QED BY <1>1, Invariance, PTL

(* The assertions in the loops of ext2.cc and block_io.cc hold.            *)
THEOREM ReadAssertionsHold == Spec => []AssertionsHold
<1>1. IInv => AssertionsHold
  <2>1. SUFFICES ASSUME IInv PROVE AssertionsHold
    OBVIOUS
  <2>2. ASSUME NEW p \in Procs, pc[p] \in Fetching
        PROVE  LET node == Node(call[p].d)
                   o == off[p] % BlockSize
                   n == MinOf(BlockSize - o, MinOf(num[p], node.size - off[p])) IN
               /\ block[p] < node.n_sectors \div (BlockSize \div SectorSize)
               /\ block[p] < NDirect + BlockSize
               /\ n <= num[p] /\ off[p] + n <= node.size /\ o + n <= BlockSize
    <3>1. TypeOK /\ Opened /\ ProcOK(p)
      BY <2>1 DEF IInv
    <3>2. /\ HoldsFile(Nd(p), Text(p)) /\ Nd(p).size \in Nat /\ off[p] \in Nat /\ num[p] \in Nat
      BY <2>2, <3>1, BufferFacts DEF Loop
    <3>3. off[p] < Nd(p).size /\ block[p] = off[p] \div BlockSize
      BY <2>2, <3>1 DEF ProcOK, FetchOK
    <3>4. /\ block[p] < Nd(p).n_sectors \div (BlockSize \div SectorSize)
          /\ block[p] < NDirect + BlockSize
      BY <3>2, <3>3, BlockFacts
    <3> DEFINE o == off[p] % BlockSize
               n == MinOf(BlockSize - o, MinOf(num[p], Nd(p).size - off[p]))
    <3>5. o \in 0..(BlockSize - 1) /\ BlockSize \in Nat
      <4>1. BlockSize \in Nat \ {0}
        BY Sizes
      <4>2. off[p] % BlockSize \in 0..(BlockSize - 1)
        BY <3>2, <4>1, Division
      <4> QED BY <4>1, <4>2
    <3> HIDE DEF o
    <3>6. n <= num[p] /\ off[p] + n <= Nd(p).size /\ o + n <= BlockSize
      BY <3>2, <3>3, <3>5 DEF MinOf
    <3> QED BY <3>4, <3>6 DEF Nd, o
  <2>3. ASSUME NEW p \in Procs
        PROVE  /\ pc[p] = "entry" => Len(data[p]) = 1
               /\ pc[p] = "copy" => Len(data[p]) = BlockSize
    <3>1. pc[p] \in {"entry", "copy"} =>
            /\ dev[p].num = 0 /\ dev[p].next = pc[p] /\ Len(data[p]) = Part(p) - dev[p].num
      BY <2>1 DEF IInv, ProcOK, FetchOK, Fetching
    <3>2. /\ pc[p] = "entry" => Part(p) = 1
          /\ pc[p] = "copy" => Part(p) = BlockSize
      BY <3>1 DEF Part
    <3>3. BlockSize \in Nat /\ 1 - 0 = 1
      BY Sizes
    <3>4. pc[p] = "entry" => Len(data[p]) = 1
      BY <3>1, <3>2, <3>3
    <3>5. pc[p] = "copy" => Len(data[p]) = BlockSize
      BY <3>1, <3>2, <3>3
    <3> QED BY <3>4, <3>5
  <2>4. TypeOK
    BY <2>1 DEF IInv
  <2> QED BY <2>2, <2>3, <2>4 DEF AssertionsHold, Fetching
<1> QED BY <1>1, Invariance, PTL

(* A process that nobody disturbs reads on where it stopped: sums that     *)
(* wrap around in read() (sys.cc:356) do no harm, and the offset ends      *)
(* behind what was delivered.                                              *)
THEOREM ReadsInOrder == Spec => []AloneReadsInOrder
<1>1. IInv => AloneReadsInOrder
  <2>1. SUFFICES ASSUME IInv, NEW p \in alone, pc[p] = "return",
                        start[p].asked <= Len(Contents[name[call[p].d]])
                 PROVE  /\ start[p].read = start[p].asked
                        /\ bytes[p] = MinOf(call[p].n, Len(Contents[name[call[p].d]]) - start[p].asked)
                        /\ offset[call[p].d] = start[p].asked + bytes[p]
    BY DEF AloneReadsInOrder
  <2>2. p \in Procs /\ TypeOK /\ Opened /\ ProcOK(p)
    BY <2>1 DEF IInv, TypeOK
  <2>3. Nd(p).size = Len(Contents[name[call[p].d]])
    BY <2>1, <2>2, CallFacts DEF ProcOK, Text
  <2> QED BY <2>1, <2>2, <2>3 DEF ProcOK, AloneOK, Wanted, Ending
<1> QED BY <1>1, Invariance, PTL

=============================================================================
