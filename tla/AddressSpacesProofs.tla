-------------------------- MODULE AddressSpacesProofs --------------------------
(***************************************************************************)
(* Proofs about the frames and the private address spaces, for any number  *)
(* of processes, of frames and of words in a frame.                        *)
(*                                                                         *)
(* The frames that a process refers to, and how, is a walk over words in   *)
(* memory, as is the list of free frames.  A step writes to one or two     *)
(* frames; the walks of everybody who does not have these frames go as     *)
(* before.  That nobody else has them is the invariant, which therefore    *)
(* speaks of the free list, of every address space by itself, and of their *)
(* being apart.  The free list is a recursive function; that it is defined *)
(* and how it changes follows from the least number for which it would     *)
(* not.                                                                    *)
(***************************************************************************)
EXTENDS AddressSpaces, FiniteSetTheorems, WellFoundedInduction, TLAPS

(* A set of numbers that is not empty has a least one.                     *)
LEMMA Least ==
  ASSUME NEW T \in SUBSET Nat, T # {}
  PROVE  \E x \in T : \A y \in T : x <= y
<1> DEFINE R == OpToRel(<, Nat)
<1>1. IsWellFoundedOn(R, Nat)
  BY NatLessThanWellFounded
<1>2. \E x \in T : \A y \in T : ~(<<y, x>> \in R)
  <2> HIDE DEF R
  <2>1. QED
    BY <1>1, WFMin
<1>3. \A x, y \in Nat : y < x => <<y, x>> \in R
  BY DEF OpToRel
<1>4. PICK x \in T : \A y \in T : ~(<<y, x>> \in R)
  BY <1>2
<1>5. \A y \in T : ~(y < x)
  <2> HIDE DEF R
  <2>1. QED
    BY <1>3, <1>4
<1>6. QED
  BY <1>5

-----------------------------------------------------------------------------

Index == 0..NFrames

(* The free list, as a set and as a list.                                  *)
FreeSet == {Free[n] : n \in Index} \ {0}

FreeListOK ==
  /\ \A n \in Index : Free[n] \in 0..(avail - 1)
  /\ \A m, n \in Index : Free[m] = Free[n] /\ Free[m] # 0 => m = n

(* The frames of an address space: the directory, the tables and, until it *)
(* is about to be deleted, the pages.                                      *)
TableFrames(p) == {mem[pd[p]][i] : i \in Tables(p)}
PageFrames(p) == IF pc[p] = "delete" THEN {} ELSE {Entry(pd[p], pg) : pg \in Present(p)}
Space(p) == IF pd[p] = 0 THEN {} ELSE {pd[p]} \cup TableFrames(p) \cup PageFrames(p)

Hold(p) == Space(p) \cup ({frame[p]} \ {0})

SpaceOK(p) ==
  pd[p] # 0 =>
    /\ pd[p] \notin TableFrames(p) /\ pd[p] \notin PageFrames(p)
    /\ TableFrames(p) \cap PageFrames(p) = {}
    /\ \A i, j \in Tables(p) : mem[pd[p]][i] = mem[pd[p]][j] => i = j
    /\ pc[p] # "delete" =>
         \A x, y \in Present(p) : Entry(pd[p], x) = Entry(pd[p], y) => x = y

(* The frame that is about to be mapped is not mapped yet.                 *)
LocalOK(p) == frame[p] # 0 => frame[p] \notin Space(p)

Apart ==
  /\ \A p, q \in Procs : p # q => Hold(p) \cap Hold(q) = {}
  /\ \A p \in Procs : Hold(p) \cap FreeSet = {} /\ Hold(p) \subseteq 1..(avail - 1)

(* Where a process is in fork() or in a page fault.                        *)
StepOK(p) ==
  /\ pd[p] = 0 <=> pc[p] = "none"
  /\ frame[p] # 0 <=> pc[p] = "map"
  /\ pc[p] = "map" => page[p] \in UserPages /\ Entry(pd[target[p]], page[p]) = 0
  /\ target[p] # p => pc[p] \in {"apic", "map", "copy"} /\ pc[target[p]] = "made"
  /\ pc[p] \in {"apic", "copy"} => target[p] # p

OneParent ==
  \A p, q \in Procs : target[p] = target[q] /\ target[p] # p /\ target[q] # q => p = q

(* What a program sees, what the frame holds that is about to be mapped,   *)
(* and what fork() has copied so far.                                      *)
Sees(p) == p \in Alive => \A pg \in UserPages : Content(p, pg) = view[p][pg]

Carries(p) == pc[p] = "map" => mem[frame[p]][0] = view[p][page[p]]

Copies(p) ==
  target[p] # p =>
    /\ \A pg \in UserPages :
         LET e == Entry(pd[target[p]], pg) IN
         /\ e # 0 => pg \in Present(p) /\ mem[e][0] = view[p][pg]
         /\ pc[p] = "apic" => e = 0
         /\ pc[p] # "apic" /\ pg \in Present(p) /\ pg < page[p] => e # 0
    /\ pc[p] = "map" => page[p] \in Present(p)

ProcOK(p) == SpaceOK(p) /\ LocalOK(p) /\ StepOK(p) /\ Sees(p) /\ Carries(p) /\ Copies(p)

IInv ==
  /\ TypeOK
  /\ FreeListOK
  /\ Apart
  /\ OneParent
  /\ \A p \in Procs : ProcOK(p)

-----------------------------------------------------------------------------

(* The table and the word in it that belong to a page.                     *)
Row(pg) == pg \div Width
Col(pg) == pg % Width

LEMMA PageWords ==
  /\ \A pg \in Pages : Row(pg) \in Words /\ Col(pg) \in Words
  /\ \A x, y \in Pages : Row(x) = Row(y) /\ Col(x) = Col(y) => x = y
<1>1. ASSUME NEW pg \in Pages PROVE Row(pg) \in Words /\ Col(pg) \in Words
  <2>1. /\ Width * Width \in Nat /\ pg \in Nat /\ pg < Width * Width
        /\ Width \in Nat /\ Width > 0
    BY MemoryAssumption DEF Pages
  <2>2. pg % Width \in 0..(Width - 1)
    BY <2>1
  <2>3. pg = Width * (pg \div Width) + (pg % Width) /\ pg \div Width \in Int
    BY <2>1
  <2>4. \A k \in Int : k >= Width => Width * k >= Width * Width
    BY <2>1
  <2>5. \A k \in Int : k < 0 => Width * k <= -Width
    BY <2>1
  <2>6. QED
    BY <2>1, <2>2, <2>3, <2>4, <2>5 DEF Words, Row, Col
<1>2. ASSUME NEW x \in Pages, NEW y \in Pages, Row(x) = Row(y), Col(x) = Col(y)
      PROVE  x = y
  <2>1. x \in Int /\ y \in Int /\ Width \in Nat /\ Width > 0
    BY MemoryAssumption DEF Pages
  <2>2. /\ x = Width * (x \div Width) + (x % Width)
        /\ y = Width * (y \div Width) + (y % Width)
    BY <2>1
  <2>3. QED
    BY <1>2, <2>2 DEF Row, Col
<1>3. QED
  BY <1>1, <1>2

(* How an entry is read from memory.                                       *)
LEMMA EntryWords ==
  ASSUME NEW dir, NEW pg
  PROVE  /\ Table(dir, pg) = mem[dir][Row(pg)]
         /\ Entry(dir, pg) = IF mem[dir][Row(pg)] = 0 THEN 0
                             ELSE mem[mem[dir][Row(pg)]][Col(pg)]
BY DEF Table, Entry, Row, Col

(* What the sizes say of the first and last words, pages and frames.       *)
LEMMA Numbers ==
  /\ NFrames \in Nat /\ NFrames >= 2 /\ 0 \in Words /\ Width - 1 \in Words /\ Width \in Nat
  /\ 0 \notin Frames /\ apicPage \in Pages /\ apicPage \notin UserPages
  /\ UserPages \subseteq Pages /\ apicFrame \in Nat /\ apicFrame # 0
<1>1. Width * Width \in Nat /\ Width * Width >= 1
  BY MemoryAssumption
<1>2. QED
  BY <1>1, MemoryAssumption DEF Words, Frames, Pages, UserPages, apicPage, apicFrame

-----------------------------------------------------------------------------

(* A walk of n steps from a frame to the next along the first words.       *)
IsWalk(f, start, words, n) ==
  f = [k \in 0..n |-> IF k = 0 THEN start
                      ELSE IF f[k - 1] = 0 THEN 0 ELSE words[f[k - 1]][0]]

(* There is such a walk, however long.                                     *)
LEMMA WalkExists ==
  ASSUME NEW start, NEW words, NEW n \in Nat
  PROVE  \E f : IsWalk(f, start, words, n)
<1> DEFINE T == {m \in Nat : ~\E f : IsWalk(f, start, words, m)}
<1>1. SUFFICES ASSUME T # {} PROVE FALSE
  OBVIOUS
<1>2. PICK m \in T : \A k \in T : m <= k
  BY <1>1, Least
<1>3. m # 0
  <2>1. IsWalk([k \in 0..0 |-> start], start, words, 0)
    BY DEF IsWalk
  <2>2. QED
    BY <2>1
<1>4. PICK f : IsWalk(f, start, words, m - 1)
  BY <1>2, <1>3
<1> DEFINE g == [k \in 0..m |-> IF k = m THEN IF f[m - 1] = 0 THEN 0 ELSE words[f[m - 1]][0]
                                ELSE f[k]]
<1>5. \A k \in 0..(m - 1) : f[k] = IF k = 0 THEN start
                                   ELSE IF f[k - 1] = 0 THEN 0 ELSE words[f[k - 1]][0]
  BY <1>4, Zenon DEF IsWalk
<1>6. IsWalk(g, start, words, m)
  BY <1>3, <1>5 DEF IsWalk
<1>7. QED
  BY <1>6

(* Its first frame and its steps.                                          *)
LEMMA WalkSteps ==
  ASSUME NEW f, NEW start, NEW words, NEW n \in Nat, IsWalk(f, start, words, n)
  PROVE  /\ f[0] = start
         /\ \A k \in 0..n : k # 0 => f[k] = IF f[k - 1] = 0 THEN 0 ELSE words[f[k - 1]][0]
<1>1. \A k \in 0..n : f[k] = IF k = 0 THEN start
                             ELSE IF f[k - 1] = 0 THEN 0 ELSE words[f[k - 1]][0]
  BY Zenon DEF IsWalk
<1>2. 0 \in 0..n
  OBVIOUS
<1>3. QED
  BY <1>1, <1>2, Zenon

(* The free list is one, from firstFree,                                   *)
LEMMA FreeIsWalk ==
  /\ Free[0] = firstFree
  /\ \A n \in Index : n # 0 => Free[n] = IF Free[n - 1] = 0 THEN 0 ELSE mem[Free[n - 1]][0]
<1>1. NFrames \in Nat
  BY MemoryAssumption
<1>2. IsWalk(Free, firstFree, mem, NFrames)
  <2>1. \E f : IsWalk(f, firstFree, mem, NFrames)
    BY <1>1, WalkExists
  <2>2. QED
    BY <2>1, Zenon DEF Free, IsWalk
<1>3. QED
  BY <1>1, <1>2, WalkSteps DEF Index

(* and so it is after a step.                                              *)
LEMMA FreeIsWalkNext ==
  /\ Free'[0] = firstFree'
  /\ \A n \in Index : n # 0 => Free'[n] = IF Free'[n - 1] = 0 THEN 0 ELSE mem'[Free'[n - 1]][0]
<1>1. NFrames \in Nat
  BY MemoryAssumption
<1>2. IsWalk(Free', firstFree', mem', NFrames)
  <2>1. \E f : IsWalk(f, firstFree', mem', NFrames)
    BY <1>1, WalkExists
  <2>2. QED
    BY <2>1, Zenon DEF Free, IsWalk
<1>3. QED
  BY <1>1, <1>2, WalkSteps DEF Index

(* The list goes on as before when none of its frames is written to.       *)
LEMMA FreeSame ==
  ASSUME firstFree' = firstFree, \A n \in Index : Free[n] # 0 => mem'[Free[n]][0] = mem[Free[n]][0]
  PROVE  \A n \in Index : Free'[n] = Free[n]
<1> DEFINE T == {n \in Index : Free'[n] # Free[n]}
<1>1. SUFFICES ASSUME T # {} PROVE FALSE
  OBVIOUS
<1>2. T \in SUBSET Nat
  BY DEF Index
<1>3. PICK m \in T : \A k \in T : m <= k
  BY <1>1, <1>2, Least
<1>4. m # 0
  BY FreeIsWalk, FreeIsWalkNext
<1>5. m - 1 \in Index /\ m - 1 \notin T
  BY <1>3, <1>4, MemoryAssumption DEF Index
<1>6. Free'[m - 1] = Free[m - 1]
  BY <1>5
<1>7. Free'[m] = Free[m]
  BY <1>4, <1>5, <1>6, FreeIsWalk, FreeIsWalkNext
<1>8. QED
  BY <1>7

(* It is one shorter when the first frame is taken.                        *)
LEMMA FreeShift ==
  ASSUME firstFree # 0, firstFree' = mem[firstFree][0],
         \A n \in Index : n # 0 /\ Free[n] # 0 => mem'[Free[n]][0] = mem[Free[n]][0]
  PROVE  \A n \in Index : n < NFrames => Free'[n] = Free[n + 1]
<1> DEFINE T == {n \in Index : n < NFrames /\ Free'[n] # Free[n + 1]}
<1>1. SUFFICES ASSUME T # {} PROVE FALSE
  OBVIOUS
<1>2. T \in SUBSET Nat
  BY DEF Index
<1>3. PICK m \in T : \A k \in T : m <= k
  BY <1>1, <1>2, Least
<1>4. m + 1 \in Index /\ m + 1 # 0 /\ (m + 1) - 1 = m /\ m \in Index
  BY MemoryAssumption DEF Index
<1>5. m # 0
  <2>1. m = 0 => Free[m + 1] = mem[firstFree][0]
    BY <1>4, FreeIsWalk
  <2>2. QED
    BY <2>1, FreeIsWalkNext
<1>6. m - 1 \in Index /\ m - 1 \notin T /\ m - 1 < NFrames /\ (m - 1) + 1 = m
  BY <1>3, <1>5, MemoryAssumption DEF Index
<1>7. Free'[m - 1] = Free[m]
  BY <1>6
<1>8. Free'[m] = IF Free[m] = 0 THEN 0 ELSE mem'[Free[m]][0]
  BY <1>4, <1>5, <1>7, FreeIsWalkNext
<1>9. Free[m + 1] = IF Free[m] = 0 THEN 0 ELSE mem[Free[m]][0]
  BY <1>4, FreeIsWalk
<1>10. Free'[m] = Free[m + 1]
  BY <1>4, <1>5, <1>8, <1>9
<1>11. QED
  BY <1>10

(* It is one longer when a frame is given back.                            *)
LEMMA FreePush ==
  ASSUME firstFree' # 0, mem'[firstFree'][0] = firstFree,
         \A n \in Index : Free[n] # 0 => mem'[Free[n]][0] = mem[Free[n]][0]
  PROVE  \A n \in Index : n < NFrames => Free'[n + 1] = Free[n]
<1> DEFINE T == {n \in Index : n < NFrames /\ Free'[n + 1] # Free[n]}
<1>1. SUFFICES ASSUME T # {} PROVE FALSE
  OBVIOUS
<1>2. T \in SUBSET Nat
  BY DEF Index
<1>3. PICK m \in T : \A k \in T : m <= k
  BY <1>1, <1>2, Least
<1>4. m + 1 \in Index /\ m + 1 # 0 /\ (m + 1) - 1 = m /\ m \in Index
  BY MemoryAssumption DEF Index
<1>5. m # 0
  <2>1. m = 0 => Free'[m + 1] = mem'[firstFree'][0]
    BY <1>4, FreeIsWalkNext
  <2>2. QED
    BY <2>1, FreeIsWalk
<1>6. m - 1 \in Index /\ m - 1 \notin T /\ m - 1 < NFrames /\ (m - 1) + 1 = m
  BY <1>3, <1>5, MemoryAssumption DEF Index
<1>7. Free'[m] = Free[m - 1]
  BY <1>6
<1>8. Free'[m + 1] = IF Free[m - 1] = 0 THEN 0 ELSE mem'[Free[m - 1]][0]
  BY <1>4, <1>7, FreeIsWalkNext
<1>9. Free[m] = IF Free[m - 1] = 0 THEN 0 ELSE mem[Free[m - 1]][0]
  BY <1>4, <1>5, FreeIsWalk
<1>10. Free'[m + 1] = Free[m]
  BY <1>6, <1>8, <1>9
<1>11. QED
  BY <1>10

(* A list that ended does not go on.                                       *)
LEMMA FreeEnded ==
  ASSUME NEW n \in Index, Free[n] = 0
  PROVE  \A m \in Index : n <= m => Free[m] = 0
<1> DEFINE T == {m \in Index : n <= m /\ Free[m] # 0}
<1>1. SUFFICES ASSUME T # {} PROVE FALSE
  OBVIOUS
<1>2. T \in SUBSET Nat
  BY DEF Index
<1>3. PICK m \in T : \A k \in T : m <= k
  BY <1>1, <1>2, Least
<1>4. m # n /\ m # 0 /\ m - 1 \in Index /\ n <= m - 1
  BY MemoryAssumption DEF Index
<1>5. m - 1 \notin T
  BY <1>3 DEF Index
<1>6. Free[m - 1] = 0
  BY <1>4, <1>5
<1>7. QED
  BY <1>4, <1>6, FreeIsWalk

(* There are fewer frames than places in the list.                         *)
LEMMA FreeEnds ==
  ASSUME FreeListOK, avail \in 1..(NFrames + 1)
  PROVE  Free[NFrames] = 0
<1>1. SUFFICES ASSUME Free[NFrames] # 0 PROVE FALSE
  OBVIOUS
<1>2. NFrames \in Nat /\ NFrames \in Index
  BY MemoryAssumption DEF Index
<1>3. \A n \in Index : Free[n] # 0
  BY <1>1, <1>2, FreeEnded DEF Index
<1>4. \A n \in Index : Free[n] \in 1..NFrames
  BY <1>2, <1>3 DEF FreeListOK
<1> DEFINE f == [n \in Index |-> Free[n]]
<1>5. f \in [Index -> 1..NFrames]
  BY <1>4
<1>6. /\ IsFiniteSet(Index) /\ Cardinality(Index) = NFrames + 1
      /\ IsFiniteSet(1..NFrames) /\ Cardinality(1..NFrames) = NFrames
      /\ NFrames < NFrames + 1
  BY <1>2, FS_Interval DEF Index
<1>7. \E x, y \in Index : x # y /\ f[x] = f[y]
  <2> HIDE DEF f
  <2>1. QED
    BY <1>2, <1>5, <1>6, FS_PigeonHole
<1>8. QED
  BY <1>3, <1>7 DEF FreeListOK


-----------------------------------------------------------------------------

(* What alloc_frame() gives, and what remains.                             *)
LEMMA Allocated ==
  ASSUME TypeOK, FreeListOK, alloc_frame,
         \A g \in FreeSet : g # NextFrame => mem'[g] = mem[g]
  PROVE  /\ NextFrame \in Frames /\ (NextFrame \in FreeSet \/ NextFrame = avail)
         /\ FreeListOK' /\ FreeSet' \subseteq FreeSet \ {NextFrame}
         /\ avail' \in 1..(NFrames + 1) /\ avail <= avail' /\ NextFrame < avail'
         /\ firstFree' \in Frames \cup {0}
<1>1. avail \in 1..(NFrames + 1) /\ firstFree \in Frames \cup {0} /\ NFrames \in Nat /\ 0 \in Index
  BY MemoryAssumption DEF TypeOK, Index
<1>2. Free[0] = firstFree
  BY FreeIsWalk
<1>3. CASE firstFree = 0
  <2>1. NextFrame = avail /\ avail' = avail + 1 /\ firstFree' = firstFree /\ avail # NFrames + 1
    BY <1>3 DEF NextFrame, alloc_frame, OutOfFrames
  <2>2. \A n \in Index : Free[n] = 0
    BY <1>1, <1>2, <1>3, FreeEnded DEF Index
  <2>3. \A n \in Index : Free'[n] = 0
    BY <2>1, <2>2, FreeSame
  <2>4. FreeListOK' /\ FreeSet' = {}
    BY <1>1, <2>1, <2>3 DEF FreeListOK, FreeSet
  <2>5. QED
    BY <1>1, <1>3, <2>1, <2>4 DEF Frames
<1>4. CASE firstFree # 0
  <2>1. NextFrame = firstFree /\ firstFree' = mem[firstFree][0] /\ avail' = avail
    BY <1>4 DEF NextFrame, alloc_frame
  <2>2. \A n \in Index : n # 0 /\ Free[n] # 0 => Free[n] # firstFree /\ Free[n] \in FreeSet
    BY <1>1, <1>2 DEF FreeListOK, FreeSet
  <2>3. \A n \in Index : n # 0 /\ Free[n] # 0 => mem'[Free[n]][0] = mem[Free[n]][0]
    BY <2>1, <2>2
  <2>4. \A n \in Index : n < NFrames => Free'[n] = Free[n + 1]
    BY <1>4, <2>1, <2>3, FreeShift
  <2>5. Free'[NFrames] = 0
    <3>1. NFrames - 1 \in Index /\ NFrames \in Index /\ NFrames # 0 /\ (NFrames - 1) + 1 = NFrames
          /\ NFrames - 1 < NFrames
      BY MemoryAssumption DEF Index
    <3>2. Free'[NFrames - 1] = Free[NFrames]
      BY <2>4, <3>1
    <3>3. Free'[NFrames - 1] = 0
      BY <1>1, <3>2, FreeEnds
    <3>4. QED
      BY <3>1, <3>3, FreeIsWalkNext
  <2>6. \A n \in Index : \/ n = NFrames /\ Free'[n] = 0
                         \/ n + 1 \in Index /\ n + 1 # 0 /\ Free'[n] = Free[n + 1]
    BY <1>1, <2>4, <2>5 DEF Index
  <2>7. FreeListOK'
    <3>1. \A n \in Index : Free'[n] \in 0..(avail' - 1)
      BY <1>1, <2>1, <2>6 DEF FreeListOK
    <3>2. \A m, n \in Index : Free'[m] = Free'[n] /\ Free'[m] # 0 => m = n
      BY <1>1, <2>6 DEF FreeListOK, Index
    <3>3. QED
      BY <3>1, <3>2 DEF FreeListOK
  <2>8. \A n \in Index : Free'[n] # 0 => Free'[n] \in FreeSet \ {firstFree}
    BY <2>2, <2>6
  <2>9. FreeSet' \subseteq FreeSet \ {NextFrame}
    BY <2>1, <2>8 DEF FreeSet
  <2>10. firstFree \in FreeSet /\ firstFree < avail
    BY <1>1, <1>2, <1>4 DEF FreeSet, FreeListOK
  <2>11. firstFree' \in Frames \cup {0}
    <3>1. Free'[0] = firstFree' /\ Free'[0] \in 0..(avail' - 1)
      BY <1>1, <2>7, FreeIsWalkNext DEF FreeListOK
    <3>2. QED
      BY <1>1, <2>1, <3>1 DEF Frames
  <2>12. QED
    BY <1>1, <1>4, <2>1, <2>7, <2>9, <2>10, <2>11
<1>5. QED
  BY <1>3, <1>4

(* A frame that goes back to the list.                                     *)
LEMMA Returned ==
  ASSUME TypeOK, FreeListOK, NEW f \in 1..(avail - 1), f \notin FreeSet, dealloc_frame(f)
  PROVE  /\ FreeListOK' /\ FreeSet' \subseteq FreeSet \cup {f}
         /\ avail' = avail /\ firstFree' \in Frames \cup {0} /\ mem' \in [Frames -> [Words -> Nat]]
         /\ \A g \in Frames : g # f => mem'[g] = mem[g]
<1>1. /\ avail \in 1..(NFrames + 1) /\ firstFree \in Frames \cup {0} /\ NFrames \in Nat
      /\ f \in Frames /\ f # 0 /\ avail' = avail /\ firstFree' = f
      /\ mem' = [mem EXCEPT ![f][0] = firstFree]
  BY MemoryAssumption DEF TypeOK, dealloc_frame, Frames
<1>2. /\ mem'[f][0] = firstFree /\ \A g \in Frames : g # f => mem'[g] = mem[g]
      /\ mem' \in [Frames -> [Words -> Nat]]
  BY <1>1, Numbers DEF TypeOK, Frames
<1>3. \A n \in Index : Free[n] # 0 => Free[n] # f /\ Free[n] \in Frames
  BY <1>1 DEF FreeListOK, FreeSet, Frames
<1>4. \A n \in Index : Free[n] # 0 => mem'[Free[n]][0] = mem[Free[n]][0]
  BY <1>2, <1>3
<1>5. \A n \in Index : n < NFrames => Free'[n + 1] = Free[n]
  BY <1>1, <1>2, <1>4, FreePush
<1>6. Free'[0] = f
  BY <1>1, FreeIsWalkNext
<1>7. \A n \in Index : \/ n = 0 /\ Free'[n] = f
                       \/ n - 1 \in Index /\ Free'[n] = Free[n - 1]
  <2>1. ASSUME NEW n \in Index, n # 0 PROVE n - 1 \in Index /\ n - 1 < NFrames /\ (n - 1) + 1 = n
    BY <1>1, <2>1 DEF Index
  <2>2. QED
    BY <1>5, <1>6, <2>1
<1>8. \A n \in Index : Free'[n] \in 0..(avail - 1)
  BY <1>1, <1>7 DEF FreeListOK
<1>9. \A m, n \in Index : Free'[m] = Free'[n] /\ Free'[m] # 0 => m = n
  <2>1. \A n \in Index : Free[n] # f
    BY <1>1, <1>3
  <2>2. ASSUME NEW m \in Index, NEW n \in Index, Free'[m] = Free'[n], Free'[m] # 0
        PROVE  m = n
    <3>1. CASE m = 0 /\ Free'[m] = f
      BY <1>7, <2>1, <2>2, <3>1
    <3>2. CASE n = 0 /\ Free'[n] = f
      BY <1>7, <2>1, <2>2, <3>2
    <3>3. CASE m - 1 \in Index /\ Free'[m] = Free[m - 1] /\ n - 1 \in Index /\ Free'[n] = Free[n - 1]
      <4>1. m - 1 = n - 1
        BY <2>2, <3>3 DEF FreeListOK
      <4>2. QED
        BY <4>1 DEF Index
    <3>4. QED
      BY <1>7, <3>1, <3>2, <3>3
  <2>3. QED
    BY <2>2
<1>10. FreeListOK'
  BY <1>1, <1>8, <1>9 DEF FreeListOK
<1>11. \A n \in Index : Free'[n] # 0 => Free'[n] \in FreeSet \cup {f}
  BY <1>7 DEF FreeSet
<1>12. FreeSet' \subseteq FreeSet \cup {f}
  BY <1>11 DEF FreeSet
<1>13. QED
  BY <1>1, <1>2, <1>10, <1>12

(* The list when nobody writes to its frames.                              *)
LEMMA ListSame ==
  ASSUME TypeOK, FreeListOK, UNCHANGED <<firstFree, avail>>,
         \A g \in FreeSet : mem'[g] = mem[g]
  PROVE  FreeListOK' /\ FreeSet' = FreeSet
<1>1. \A n \in Index : Free[n] # 0 => Free[n] \in FreeSet
  BY DEF FreeSet
<1>2. \A n \in Index : Free'[n] = Free[n]
  BY <1>1, FreeSame
<1>3. QED
  BY <1>2 DEF FreeListOK, FreeSet

-----------------------------------------------------------------------------

(* The frames along which the pages of a process are found.                *)
Walked(r) == {pd[r]} \cup TableFrames(r)

(* Where the frames of an address space are found.                         *)
LEMMA SpaceFacts ==
  ASSUME TypeOK, NEW r \in Procs, pd[r] # 0
  PROVE  /\ pd[r] \in Frames /\ pd[r] \in Space(r) /\ Walked(r) \subseteq Space(r)
         /\ pc[r] # "delete" =>
              /\ \A i \in Words : mem[pd[r]][i] # 0 =>
                   i \in Tables(r) /\ mem[pd[r]][i] \in TableFrames(r)
              /\ \A pg \in UserPages : Entry(pd[r], pg) # 0 =>
                   /\ pg \in Present(r)
                   /\ Entry(pd[r], pg) \in PageFrames(r)
                   /\ Entry(pd[r], pg) \in Space(r)
BY DEF TypeOK, Space, Walked, TableFrames, PageFrames, Tables, Present

(* Nothing changes in an address space when its directory and tables are   *)
(* left alone.                                                             *)
Quiet(r) ==
  /\ pd'[r] = pd[r]
  /\ pc'[r] = "delete" <=> pc[r] = "delete"
  /\ pc[r] = "delete" => page'[r] = page[r]
  /\ pd[r] # 0 => \A f \in Walked(r) : mem'[f] = mem[f]

(* Then its frames, and where its pages are, remain as they are.           *)
LEMMA QuietSpace ==
  ASSUME TypeOK, NEW r \in Procs, Quiet(r)
  PROVE  /\ Space(r)' = Space(r)
         /\ SpaceOK(r) => SpaceOK(r)'
         /\ pd[r] # 0 /\ pc[r] # "delete" =>
              /\ \A pg \in Pages : Entry(pd[r], pg)' = Entry(pd[r], pg)
              /\ Present(r)' = Present(r)
<1>1. CASE pd[r] = 0
  BY <1>1 DEF Quiet, Space, SpaceOK
<1>2. CASE pd[r] # 0
  <2>1. /\ pd'[r] = pd[r] /\ mem'[pd[r]] = mem[pd[r]]
        /\ \A i \in Tables(r) : mem'[mem[pd[r]][i]] = mem[mem[pd[r]][i]]
    BY <1>2 DEF Quiet, Walked, TableFrames
  <2>2. Tables(r)' = Tables(r)
    BY <2>1 DEF Quiet, Tables
  <2>3. TableFrames(r)' = TableFrames(r)
    BY <2>1, <2>2 DEF TableFrames
  <2>4. ASSUME pc[r] # "delete", NEW pg \in Pages
        PROVE  Entry(pd[r], pg)' = Entry(pd[r], pg)
    <3>1. Row(pg) \in Words
      BY PageWords
    <3>2. mem[pd[r]][Row(pg)] # 0 => Row(pg) \in Tables(r)
      BY <2>4, <3>1 DEF Tables
    <3>3. Entry(pd[r], pg) = IF mem[pd[r]][Row(pg)] = 0 THEN 0
                             ELSE mem[mem[pd[r]][Row(pg)]][Col(pg)]
      BY EntryWords
    <3>4. Entry(pd[r], pg)' = IF mem'[pd'[r]][Row(pg)] = 0 THEN 0
                              ELSE mem'[mem'[pd'[r]][Row(pg)]][Col(pg)]
      BY DEF Table, Entry, Row, Col
    <3>5. QED
      BY <2>1, <3>2, <3>3, <3>4
  <2>5. pc[r] # "delete" => Present(r)' = Present(r)
    BY <2>4, Numbers DEF Present
  <2>6. PageFrames(r)' = PageFrames(r)
    <3>1. CASE pc[r] = "delete"
      BY <3>1 DEF Quiet, PageFrames
    <3>2. CASE pc[r] # "delete"
      <4>1. \A pg \in Present(r) : Entry(pd[r], pg)' = Entry(pd[r], pg)
        BY <2>4, <3>2, Numbers DEF Present
      <4>2. pc'[r] # "delete"
        BY <3>2 DEF Quiet
      <4>3. QED
        BY <2>5, <3>2, <4>1, <4>2 DEF PageFrames
    <3>3. QED
      BY <3>1, <3>2
  <2>7. Space(r)' = Space(r)
    BY <2>1, <2>3, <2>6 DEF Space
  <2>8. ASSUME SpaceOK(r) PROVE SpaceOK(r)'
    <3>1. \A i \in Tables(r) : mem'[pd'[r]][i] = mem[pd[r]][i]
      BY <2>1
    <3>2. \A i, j \in Tables(r) : mem[pd[r]][i] = mem[pd[r]][j] => i = j
      BY <1>2, <2>8 DEF SpaceOK
    <3>3. pc'[r] # "delete" =>
            \A x, y \in Present(r) : Entry(pd[r], x)' = Entry(pd[r], y)' => x = y
      <4> SUFFICES ASSUME pc'[r] # "delete", NEW x \in Present(r), NEW y \in Present(r),
                          Entry(pd[r], x)' = Entry(pd[r], y)'
                   PROVE  x = y
        OBVIOUS
      <4>1. pc[r] # "delete"
        BY DEF Quiet
      <4>2. Entry(pd[r], x)' = Entry(pd[r], x) /\ Entry(pd[r], y)' = Entry(pd[r], y)
        BY <2>4, <4>1, Numbers DEF Present
      <4>3. QED
        BY <1>2, <2>8, <4>1, <4>2 DEF SpaceOK
    <3>4. /\ pd[r] \notin TableFrames(r) /\ pd[r] \notin PageFrames(r)
          /\ TableFrames(r) \cap PageFrames(r) = {}
      BY <1>2, <2>8 DEF SpaceOK
    <3>5. pc'[r] # "delete" => Present(r)' = Present(r)
      BY <2>5 DEF Quiet
    <3>6. QED
      BY <2>1, <2>2, <2>3, <2>6, <3>1, <3>2, <3>3, <3>4, <3>5 DEF SpaceOK
  <2>9. QED
    BY <2>4, <2>5, <2>7, <2>8
<1>3. QED
  BY <1>1, <1>2


(* Contents that nobody writes to are seen as before.                      *)
LEMMA QuietContent ==
  ASSUME TypeOK, NEW r \in Procs, Quiet(r), pd[r] # 0, pc[r] # "delete",
         \A f \in Space(r) : mem'[f] = mem[f]
  PROVE  \A pg \in UserPages : Content(r, pg)' = Content(r, pg)
<1> SUFFICES ASSUME NEW pg \in UserPages PROVE Content(r, pg)' = Content(r, pg)
  OBVIOUS
<1>1. Entry(pd[r], pg)' = Entry(pd[r], pg) /\ Present(r)' = Present(r)
  BY QuietSpace, Numbers
<1>2. pg \in Present(r) => Entry(pd[r], pg) \in Space(r)
  BY SpaceFacts DEF Present
<1>3. QED
  BY <1>1, <1>2 DEF Content

(* A process that takes no step, in a step that leaves its frames alone    *)
(* and, if it is in fork(), those of its child.                            *)
LEMMA Bystander ==
  ASSUME IInv, NEW r \in Procs, NEW s \in Procs, s = target[r],
         pd'[r] = pd[r], pc'[r] = pc[r], page'[r] = page[r], frame'[r] = frame[r],
         target'[r] = target[r], view'[r] = view[r],
         pd'[s] = pd[s], pc'[s] = pc[s],
         \A f \in Hold(r) \cup Hold(s) : mem'[f] = mem[f]
  PROVE  ProcOK(r)' /\ Hold(r)' = Hold(r)
<1>1. TypeOK /\ ProcOK(r) /\ ProcOK(s)
  BY DEF IInv
<1>2. /\ SpaceOK(r) /\ LocalOK(r) /\ StepOK(r) /\ Sees(r) /\ Carries(r) /\ Copies(r)
      /\ StepOK(s)
  BY <1>1 DEF ProcOK
<1>3. /\ \A f \in Space(r) : mem'[f] = mem[f]
      /\ \A f \in Space(s) : mem'[f] = mem[f]
      /\ frame[r] # 0 => mem'[frame[r]] = mem[frame[r]]
  BY DEF Hold
<1>4. s # r => pc[s] = "made" /\ pc[r] \in {"apic", "map", "copy"}
  BY <1>2 DEF StepOK
<1>5. Quiet(r) /\ Quiet(s)
  <2>1. pd[r] # 0 => Walked(r) \subseteq Space(r)
    BY <1>1, SpaceFacts
  <2>2. pd[s] # 0 => Walked(s) \subseteq Space(s)
    BY <1>1, SpaceFacts
  <2>3. Quiet(r)
    BY <1>3, <2>1 DEF Quiet
  <2>4. s # r => pc[s] # "delete"
    BY <1>4
  <2>5. Quiet(s)
    BY <1>3, <2>2, <2>3, <2>4 DEF Quiet
  <2>6. QED
    BY <2>3, <2>5
<1>6. Space(r)' = Space(r) /\ SpaceOK(r)'
  BY <1>1, <1>2, <1>5, QuietSpace
<1>7. LocalOK(r)' /\ Hold(r)' = Hold(r)
  BY <1>2, <1>6 DEF LocalOK, Hold
<1>8. pc[r] \in {"apic", "map", "copy"} => pd[s] # 0 /\ pc[s] # "delete"
  BY <1>2, <1>4 DEF StepOK
<1>9. pc[r] \in {"apic", "map", "copy"} =>
        \A pg \in UserPages : Entry(pd[s], pg)' = Entry(pd[s], pg)
  BY <1>1, <1>5, <1>8, QuietSpace, Numbers
<1>10. StepOK(r)'
  <2>1. pc[r] = "map" => Entry(pd[target[r]], page[r])' = Entry(pd[target[r]], page[r])
    <3> SUFFICES ASSUME pc[r] = "map"
                 PROVE  Entry(pd[target[r]], page[r])' = Entry(pd[target[r]], page[r])
      OBVIOUS
    <3>1. page[r] \in UserPages
      BY <1>2 DEF StepOK
    <3>2. \A pg \in UserPages : Entry(pd[s], pg)' = Entry(pd[s], pg)
      BY <1>9
    <3>3. QED
      BY <3>1, <3>2 DEF Entry, Table
  <2>2. QED
    BY <1>2, <2>1 DEF StepOK
<1>11. pc[r] \notin {"none", "delete"} =>
         /\ Present(r)' = Present(r)
         /\ \A pg \in UserPages : Content(r, pg)' = Content(r, pg)
  <2>1. pc[r] # "none" => pd[r] # 0
    BY <1>2 DEF StepOK
  <2>2. QED
    BY <1>1, <1>3, <1>5, <2>1, QuietSpace, QuietContent
<1>12. Sees(r)'
  BY <1>2, <1>11 DEF Sees, Alive
<1>13. Carries(r)'
  BY <1>2, <1>3 DEF Carries, StepOK
<1>14. Copies(r)'
  <2> SUFFICES ASSUME s # r PROVE Copies(r)'
    BY DEF Copies
  <2>1. \A pg \in UserPages : Entry(pd[s], pg)' = Entry(pd[s], pg)
    BY <1>4, <1>9
  <2>2. \A pg \in UserPages : Entry(pd[s], pg) # 0 => Entry(pd[s], pg) \in Space(s)
    BY <1>1, <1>4, <1>8, SpaceFacts
  <2>3. \A pg \in UserPages :
          Entry(pd[s], pg) # 0 => mem'[Entry(pd[s], pg)] = mem[Entry(pd[s], pg)]
    BY <1>3, <2>2
  <2>4. Present(r)' = Present(r)
    BY <1>4, <1>11
  <2>5. \A pg \in UserPages : Entry(pd[target[r]], pg)' = Entry(pd[target[r]], pg)
    BY <2>1
  <2>6. QED
    BY <1>2, <2>3, <2>4, <2>5 DEF Copies
<1>15. QED
  BY <1>6, <1>7, <1>10, <1>12, <1>13, <1>14 DEF ProcOK

(* What was handed out remains so as avail grows.                          *)
LEMMA LongerInterval ==
  ASSUME NEW a \in Nat, NEW b \in Nat, a <= b
  PROVE  1..(a - 1) \subseteq 1..(b - 1)
OBVIOUS

(* A frame passes from one process to another, which also gets some from   *)
(* the allocator.                                                          *)
LEMMA ApartMoves ==
  ASSUME Apart, NEW p \in Procs, NEW q \in Procs, p # q, NEW X, NEW f \in Hold(p),
         \A r \in Procs : X \cap Hold(r) = {},
         X \cap FreeSet' = {}, X \subseteq 1..(avail' - 1),
         FreeSet' \subseteq FreeSet, avail \in Nat, avail' \in Nat, avail <= avail',
         Hold(p)' \subseteq Hold(p) \ {f},
         Hold(q)' \subseteq Hold(q) \cup X \cup {f},
         \A r \in Procs : r # p /\ r # q => Hold(r)' = Hold(r)
  PROVE  Apart'
<1>1. \A r, s \in Procs : r # s => Hold(r)' \cap Hold(s)' = {}
  <2> SUFFICES ASSUME NEW r \in Procs, NEW s \in Procs, r # s, NEW g,
                      g \in Hold(r)', g \in Hold(s)'
               PROVE  FALSE
    OBVIOUS
  <2>1. \A a, b \in Procs : a # b /\ g \in Hold(a) => g \notin Hold(b)
    BY DEF Apart
  <2>2. g \in X => \A a \in Procs : g \notin Hold(a)
    OBVIOUS
  <2>3. \A a \in Procs : g \in Hold(a)' => \/ g \in Hold(a) /\ (a = p => g # f)
                                           \/ a = q /\ (g \in X \/ g = f)
    OBVIOUS
  <2>4. QED
    BY <2>1, <2>2, <2>3
<1>2. ASSUME NEW r \in Procs, NEW g \in Hold(r)' PROVE g \notin FreeSet' /\ g \in 1..(avail' - 1)
  <2>1. g \in X \/ g \in Hold(r) \/ g \in Hold(p)
    BY <1>2
  <2>2. \A a \in Procs : g \in Hold(a) => g \notin FreeSet /\ g \in 1..(avail - 1)
    BY DEF Apart
  <2>3. 1..(avail - 1) \subseteq 1..(avail' - 1)
    BY LongerInterval
  <2>4. g \in X => g \notin FreeSet' /\ g \in 1..(avail' - 1)
    OBVIOUS
  <2>5. QED
    BY <2>1, <2>2, <2>3, <2>4
<1>3. QED
  BY <1>1, <1>2 DEF Apart

(* A process gets frames from the allocator.                               *)
LEMMA ApartTakes ==
  ASSUME Apart, NEW p \in Procs, NEW X,
         \A r \in Procs : X \cap Hold(r) = {},
         X \cap FreeSet' = {}, X \subseteq 1..(avail' - 1),
         FreeSet' \subseteq FreeSet, avail \in Nat, avail' \in Nat, avail <= avail',
         Hold(p)' \subseteq Hold(p) \cup X,
         \A r \in Procs : r # p => Hold(r)' = Hold(r)
  PROVE  Apart'
<1>1. \A r, s \in Procs : r # s => Hold(r)' \cap Hold(s)' = {}
  <2> SUFFICES ASSUME NEW r \in Procs, NEW s \in Procs, r # s, NEW f,
                      f \in Hold(r)', f \in Hold(s)'
               PROVE  FALSE
    OBVIOUS
  <2>1. \A a, b \in Procs : a # b /\ f \in Hold(a) => f \notin Hold(b)
    BY DEF Apart
  <2>2. \A a \in Procs : f \in Hold(a)' => f \in Hold(a) \/ (a = p /\ f \in X)
    OBVIOUS
  <2>3. QED
    BY <2>1, <2>2
<1>2. ASSUME NEW r \in Procs, NEW f \in Hold(r)' PROVE f \notin FreeSet' /\ f \in 1..(avail' - 1)
  <2>1. f \in X \/ f \in Hold(r)
    BY <1>2
  <2>2. f \in Hold(r) => f \notin FreeSet /\ f \in 1..(avail - 1)
    BY DEF Apart
  <2>3. 1..(avail - 1) \subseteq 1..(avail' - 1)
    BY LongerInterval
  <2>4. f \in X => f \notin FreeSet' /\ f \in 1..(avail' - 1)
    OBVIOUS
  <2>5. QED
    BY <2>1, <2>2, <2>3, <2>4
<1>3. QED
  BY <1>1, <1>2 DEF Apart

(* A frame goes back to the allocator.                                     *)
LEMMA ApartGives ==
  ASSUME Apart, NEW p \in Procs, NEW f \in Hold(p),
         FreeSet' \subseteq FreeSet \cup {f}, avail' = avail,
         Hold(p)' \subseteq Hold(p) \ {f},
         \A r \in Procs : r # p => Hold(r)' = Hold(r)
  PROVE  Apart'
<1>1. \A r \in Procs : r # p => f \notin Hold(r)
  BY DEF Apart
<1>2. \A r \in Procs : Hold(r)' \subseteq Hold(r) \ {f}
  BY <1>1
<1>3. QED
  BY <1>2 DEF Apart

-----------------------------------------------------------------------------

(* What a process has are frames that were handed out, and not free.       *)
LEMMA HoldFacts ==
  ASSUME IInv, NEW r \in Procs
  PROVE  /\ Hold(r) \subseteq Frames /\ Hold(r) \cap FreeSet = {}
         /\ Hold(r) \subseteq 1..(avail - 1)
         /\ Space(r) \subseteq Hold(r)
         /\ frame[r] # 0 => frame[r] \in Hold(r)
         /\ \A s \in Procs : s # r => Hold(r) \cap Hold(s) = {}
<1>1. avail \in 1..(NFrames + 1) /\ NFrames \in Nat
  BY Numbers DEF IInv, TypeOK
<1>2. 1..(avail - 1) \subseteq Frames
  BY <1>1 DEF Frames
<1>3. Hold(r) \cap FreeSet = {} /\ Hold(r) \subseteq 1..(avail - 1)
  BY DEF IInv, Apart
<1>4. QED
  BY <1>2, <1>3 DEF IInv, Apart, Hold

(* The frame that alloc_frame() gives is nobody's.                         *)
LEMMA Fresh ==
  ASSUME IInv, alloc_frame
  PROVE  /\ NextFrame \in Frames /\ NextFrame # 0
         /\ \A r \in Procs : NextFrame \notin Hold(r)
<1>1. /\ avail \in 1..(NFrames + 1) /\ firstFree \in Frames \cup {0} /\ NFrames \in Nat
      /\ FreeListOK /\ ~OutOfFrames
  BY Numbers DEF IInv, TypeOK, alloc_frame
<1>2. CASE firstFree = 0
  <2>1. NextFrame = avail /\ avail \in Frames /\ avail # 0
    BY <1>1, <1>2 DEF NextFrame, OutOfFrames, Frames
  <2>2. avail \notin 1..(avail - 1)
    BY <1>1
  <2>3. QED
    BY <2>1, <2>2, HoldFacts
<1>3. CASE firstFree # 0
  <2>1. NextFrame = firstFree
    BY <1>3 DEF NextFrame
  <2>2. firstFree \in FreeSet
    <3>1. 0 \in Index /\ Free[0] = firstFree
      BY <1>1, FreeIsWalk DEF Index
    <3>2. QED
      BY <1>3, <3>1 DEF FreeSet
  <2>3. QED
    BY <1>1, <1>3, <2>1, <2>2, HoldFacts
<1>4. QED
  BY <1>2, <1>3

(* The conjuncts of the invariant for a process that a step leaves alone;  *)
(* p takes it, and q is itself or the process that it makes.               *)
Keeps(r) ==
  /\ pd'[r] = pd[r] /\ pc'[r] = pc[r] /\ page'[r] = page[r] /\ frame'[r] = frame[r]
  /\ target'[r] = target[r] /\ view'[r] = view[r]
  /\ \A f \in Hold(r) : mem'[f] = mem[f]

(* All those who take no part in a step keep the invariant.                *)
LEMMA Others ==
  ASSUME IInv, NEW p \in Procs, NEW q \in Procs, pc[p] # "made",
         q = p \/ q = target[p] \/ pc[q] = "none",
         \A r \in Procs : r # p /\ r # q => Keeps(r)
  PROVE  \A r \in Procs : r # p /\ r # q => ProcOK(r)' /\ Hold(r)' = Hold(r)
<1> SUFFICES ASSUME NEW r \in Procs, r # p, r # q
             PROVE  ProcOK(r)' /\ Hold(r)' = Hold(r)
  OBVIOUS
<1>1. /\ target \in [Procs -> Procs] /\ OneParent
      /\ \A s \in Procs : target[s] # s => pc[target[s]] = "made"
  BY DEF IInv, TypeOK, ProcOK, StepOK
<1>2. target[r] \in Procs /\ target[r] # p
  BY <1>1
<1>3. target[r] # q
  <2>1. CASE q = p
    BY <1>2, <2>1
  <2>2. CASE q = target[p] /\ q # p
    BY <1>1, <2>2 DEF OneParent
  <2>3. CASE pc[q] = "none"
    BY <1>1, <2>3
  <2>4. QED
    BY <2>1, <2>2, <2>3
<1>4. Keeps(r) /\ Keeps(target[r])
  BY <1>2, <1>3
<1>5. \A f \in Hold(r) \cup Hold(target[r]) : mem'[f] = mem[f]
  BY <1>4 DEF Keeps
<1>6. QED
  BY <1>2, <1>4, <1>5, Bystander DEF Keeps

-----------------------------------------------------------------------------

(* The frame that map() takes, as a set.                                   *)
Added(q, pg) == IF Table(pd[q], pg) = 0 THEN {NextFrame} ELSE {}

(* map() changes the entry of the one page and no other.                   *)
LEMMA MapWords ==
  ASSUME IInv, NEW q \in Procs, pd[q] # 0, pc[q] # "delete", pd'[q] = pd[q],
         NEW pg \in Pages, NEW f \in Nat, map(pd[q], pg, f)
  PROVE  /\ mem' \in [Frames -> [Words -> Nat]]
         /\ \A g \in Frames : g \notin Walked(q) /\ g \notin Added(q, pg) => mem'[g] = mem[g]
         /\ \A i \in Words : \/ mem'[pd[q]][i] = mem[pd[q]][i]
                             \/ mem[pd[q]][i] = 0 /\ i = Row(pg) /\ mem'[pd[q]][i] \in Added(q, pg)
         /\ \A x \in Pages : Entry(pd[q], x)' = IF x = pg THEN f ELSE Entry(pd[q], x)
<1> DEFINE d == pd[q]
           t == mem[d][Row(pg)]
<1>1. /\ TypeOK /\ d \in Frames /\ mem \in [Frames -> [Words -> Nat]] /\ pd'[q] = d
      /\ Row(pg) \in Words /\ Col(pg) \in Words
  BY PageWords DEF IInv, TypeOK
<1>2. /\ \A i \in Words : mem[d][i] # 0 => i \in Tables(q) /\ mem[d][i] \in TableFrames(q)
      /\ d \notin TableFrames(q) /\ d \in Walked(q) /\ Walked(q) \subseteq Space(q)
      /\ TableFrames(q) \subseteq Walked(q)
      /\ \A i, j \in Tables(q) : mem[d][i] = mem[d][j] => i = j
  BY <1>1, SpaceFacts DEF IInv, ProcOK, SpaceOK, Walked
<1>3. Walked(q) \subseteq Hold(q) /\ Walked(q) \subseteq Frames
  BY <1>2, HoldFacts
<1>4. \A x \in Pages :
        /\ Row(x) \in Words /\ Col(x) \in Words
        /\ Row(x) = Row(pg) /\ Col(x) = Col(pg) => x = pg
        /\ Entry(d, x) = IF mem[d][Row(x)] = 0 THEN 0 ELSE mem[mem[d][Row(x)]][Col(x)]
        /\ Entry(d, x)' = IF mem'[d][Row(x)] = 0 THEN 0 ELSE mem'[mem'[d][Row(x)]][Col(x)]
  BY <1>1, PageWords, EntryWords DEF Entry, Table, Row, Col
<1>5. Table(d, pg) = t
  BY EntryWords
<1>6. CASE t # 0
  <2>1. t \in TableFrames(q) /\ Row(pg) \in Tables(q) /\ t \in Frames /\ t # d
    BY <1>1, <1>2, <1>3, <1>6
  <2>2. mem' = [mem EXCEPT ![t][Col(pg)] = f]
    BY <1>5, <1>6 DEF map, Col
  <2>3. /\ mem' \in [Frames -> [Words -> Nat]]
        /\ \A g \in Frames : g # t => mem'[g] = mem[g]
        /\ \A w \in Words : mem'[t][w] = IF w = Col(pg) THEN f ELSE mem[t][w]
    BY <1>1, <2>1, <2>2
  <2>4. mem'[d] = mem[d]
    BY <1>1, <2>1, <2>3
  <2>5. ASSUME NEW x \in Pages PROVE Entry(d, x)' = IF x = pg THEN f ELSE Entry(d, x)
    <3>1. CASE mem[d][Row(x)] = 0
      BY <1>4, <1>6, <2>4, <3>1
    <3>2. CASE mem[d][Row(x)] # 0 /\ Row(x) # Row(pg)
      <4>1. mem[d][Row(x)] \in Frames /\ mem[d][Row(x)] # t
        BY <1>2, <1>3, <1>4, <2>1, <3>2
      <4>2. QED
        BY <1>4, <2>3, <2>4, <3>2, <4>1
    <3>3. CASE Row(x) = Row(pg)
      BY <1>4, <1>6, <2>3, <2>4, <3>3
    <3>4. QED
      BY <3>1, <3>2, <3>3
  <2>6. QED
    BY <1>2, <2>1, <2>3, <2>4, <2>5
<1>7. CASE t = 0
  <2>1. /\ alloc_frame
        /\ mem' = [mem EXCEPT ![d][Row(pg)] = NextFrame,
                              ![NextFrame] = [Zeros EXCEPT ![Col(pg)] = f]]
    BY <1>5, <1>7 DEF map, Row, Col
  <2>2. NextFrame \in Frames /\ NextFrame # 0 /\ NextFrame \notin Walked(q) /\ NextFrame # d
    BY <1>2, <1>3, <2>1, Fresh
  <2>3. Added(q, pg) = {NextFrame}
    BY <1>5, <1>7 DEF Added
  <2>4. PICK n \in Frames : n = NextFrame
    BY <2>2
  <2>5. mem' = [mem EXCEPT ![d][Row(pg)] = n, ![n] = [Zeros EXCEPT ![Col(pg)] = f]]
    BY <2>1, <2>4
  <2>6. n \in Nat
    BY Numbers DEF Frames
  <2>7. /\ mem' \in [Frames -> [Words -> Nat]]
        /\ \A g \in Frames : g # d /\ g # n => mem'[g] = mem[g]
        /\ \A i \in Words : mem'[d][i] = IF i = Row(pg) THEN n ELSE mem[d][i]
        /\ \A w \in Words : mem'[n][w] = IF w = Col(pg) THEN f ELSE 0
    BY <1>1, <2>2, <2>4, <2>5, <2>6 DEF Zeros
  <2>8. ASSUME NEW x \in Pages PROVE Entry(d, x)' = IF x = pg THEN f ELSE Entry(d, x)
    <3>1. CASE Row(x) # Row(pg) /\ mem[d][Row(x)] = 0
      BY <1>4, <2>7, <3>1
    <3>2. CASE Row(x) # Row(pg) /\ mem[d][Row(x)] # 0
      <4>1. /\ mem[d][Row(x)] \in Frames /\ mem[d][Row(x)] # n /\ mem[d][Row(x)] # d
            /\ mem'[d][Row(x)] = mem[d][Row(x)]
        BY <1>2, <1>3, <1>4, <2>2, <2>4, <2>7, <3>2
      <4>2. mem'[mem[d][Row(x)]] = mem[mem[d][Row(x)]]
        BY <2>7, <4>1
      <4>3. QED
        BY <1>4, <3>2, <4>1, <4>2
    <3>3. CASE Row(x) = Row(pg)
      BY <1>4, <1>7, <2>2, <2>4, <2>7, <3>3
    <3>4. QED
      BY <3>1, <3>2, <3>3
  <2>9. QED
    BY <1>1, <1>2, <1>7, <2>2, <2>3, <2>4, <2>7, <2>8
<1>8. QED
  BY <1>6, <1>7

(* What map() does to the allocator.                                       *)
LEMMA MapAllocates ==
  ASSUME IInv, NEW q \in Procs, pd[q] # 0, pc[q] # "delete", pd'[q] = pd[q],
         NEW pg \in Pages, NEW f \in Nat, map(pd[q], pg, f)
  PROVE  /\ FreeListOK' /\ FreeSet' \subseteq FreeSet
         /\ avail' \in 1..(NFrames + 1) /\ avail <= avail' /\ avail \in Nat /\ avail' \in Nat
         /\ firstFree' \in Frames \cup {0} /\ panicked' = panicked
         /\ Added(q, pg) \subseteq 1..(avail' - 1) /\ Added(q, pg) \cap FreeSet' = {}
         /\ Added(q, pg) \subseteq Frames
         /\ \A r \in Procs : Added(q, pg) \cap Hold(r) = {}
<1>1. /\ TypeOK /\ FreeListOK /\ avail \in 1..(NFrames + 1) /\ NFrames \in Nat
      /\ firstFree \in Frames \cup {0}
  BY Numbers DEF IInv, TypeOK
<1>2. /\ FreeSet \cap Walked(q) = {} /\ FreeSet \subseteq Frames
  <2>1. Walked(q) \subseteq Space(q)
    BY <1>1, SpaceFacts
  <2>2. FreeSet \subseteq Frames
    BY <1>1 DEF FreeSet, FreeListOK, Frames
  <2>3. QED
    BY <2>1, <2>2, HoldFacts
<1>3. \A g \in FreeSet : g \notin Added(q, pg) => mem'[g] = mem[g]
  BY <1>2, MapWords
<1>4. CASE Table(pd[q], pg) # 0
  <2>1. Added(q, pg) = {} /\ UNCHANGED allocator
    BY <1>4 DEF Added, map
  <2>2. FreeListOK' /\ FreeSet' = FreeSet
    BY <1>1, <1>3, <2>1, ListSame DEF allocator
  <2>3. QED
    BY <1>1, <2>1, <2>2 DEF allocator
<1>5. CASE Table(pd[q], pg) = 0
  <2>1. Added(q, pg) = {NextFrame} /\ alloc_frame
    BY <1>5 DEF Added, map
  <2>2. /\ NextFrame \in Frames /\ FreeListOK' /\ FreeSet' \subseteq FreeSet \ {NextFrame}
        /\ avail' \in 1..(NFrames + 1) /\ avail <= avail' /\ NextFrame < avail'
        /\ firstFree' \in Frames \cup {0}
    BY <1>1, <1>3, <2>1, Allocated
  <2>3. \A r \in Procs : NextFrame \notin Hold(r)
    BY <2>1, Fresh
  <2>4. panicked' = panicked
    BY <2>1 DEF alloc_frame
  <2>5. NextFrame \in 1..(avail' - 1)
    <3>1. \A n \in Frames, k \in 1..(NFrames + 1) : n < k => n \in 1..(k - 1)
      BY Numbers DEF Frames
    <3>2. QED
      BY <2>2, <3>1
  <2>6. QED
    BY <1>1, <2>1, <2>2, <2>3, <2>4, <2>5
<1>6. QED
  BY <1>4, <1>5

(* The address space in which map() maps.                                  *)
LEMMA MapSpace ==
  ASSUME IInv, NEW q \in Procs, pd[q] # 0, pc[q] # "delete", pd'[q] = pd[q], pc'[q] # "delete",
         NEW pg \in Pages, NEW f \in Nat \ {0}, map(pd[q], pg, f),
         pg \in UserPages => f \notin Space(q) /\ f \notin Added(q, pg)
  PROVE  /\ SpaceOK(q)' /\ pd[q] \in Space(q)'
         /\ Space(q)' \subseteq Space(q) \cup Added(q, pg) \cup (IF pg \in UserPages THEN {f} ELSE {})
         /\ \A x \in UserPages : x \in Present(q)' <=> x \in Present(q) \/ x = pg
<1> DEFINE d == pd[q]
           F == IF pg \in UserPages THEN {f} ELSE {}
<1>1. /\ \A i \in Words : \/ mem'[d][i] = mem[d][i]
                          \/ mem[d][i] = 0 /\ i = Row(pg) /\ mem'[d][i] \in Added(q, pg)
      /\ \A x \in Pages : Entry(d, x)' = IF x = pg THEN f ELSE Entry(d, x)
  BY MapWords
<1>2. /\ d \in Space(q) /\ TableFrames(q) \subseteq Space(q) /\ PageFrames(q) \subseteq Space(q)
      /\ Added(q, pg) \cap Space(q) = {} /\ Added(q, pg) \subseteq Frames
      /\ \A x, y : x \in Added(q, pg) /\ y \in Added(q, pg) => x = y
  <2>1. TypeOK /\ Space(q) \subseteq Hold(q)
    BY HoldFacts DEF IInv
  <2>2. Added(q, pg) \cap Hold(q) = {} /\ Added(q, pg) \subseteq Frames
    BY MapAllocates
  <2>3. QED
    BY <2>1, <2>2 DEF Added, Space
<1>3. /\ Tables(q) = {i \in Words : mem[d][i] # 0}
      /\ Tables(q)' = {i \in Words : mem'[d][i] # 0}
  BY DEF Tables
<1>4. \A i \in Words :
        i \in Tables(q)' => \/ i \in Tables(q) /\ mem'[d][i] = mem[d][i] /\ mem[d][i] \in TableFrames(q)
                            \/ i = Row(pg) /\ mem'[d][i] \in Added(q, pg)
  BY <1>1, <1>3 DEF TableFrames
<1>5. TableFrames(q)' \subseteq TableFrames(q) \cup Added(q, pg)
  <2>1. TableFrames(q)' = {mem'[d][i] : i \in Tables(q)'}
    BY DEF TableFrames
  <2>2. Tables(q)' \subseteq Words
    BY <1>3
  <2>3. QED
    BY <1>4, <2>1, <2>2
<1>6. \A x \in UserPages : x \in Present(q)' <=> x \in Present(q) \/ x = pg
  BY <1>1, Numbers DEF Present
<1>7. \A x \in Present(q)' : \/ x # pg /\ x \in Present(q) /\ Entry(d, x)' = Entry(d, x)
                                /\ Entry(d, x) \in PageFrames(q)
                             \/ x = pg /\ pg \in UserPages /\ Entry(d, x)' = f
  <2>1. Present(q)' \subseteq UserPages
    BY DEF Present
  <2>2. \A x \in Present(q) : Entry(d, x) \in PageFrames(q)
    BY DEF PageFrames
  <2>3. QED
    BY <1>1, <1>6, <2>1, <2>2, Numbers
<1>8. PageFrames(q)' = {Entry(d, x)' : x \in Present(q)'}
  BY DEF PageFrames
<1>9. PageFrames(q)' \subseteq PageFrames(q) \cup F
  BY <1>7, <1>8
<1>10. SpaceOK(q)
  BY DEF IInv, ProcOK
<1>11. SpaceOK(q)'
  <2>1. d \notin TableFrames(q)' /\ d \notin PageFrames(q)'
    BY <1>2, <1>5, <1>9, <1>10 DEF SpaceOK
  <2>2. TableFrames(q)' \cap PageFrames(q)' = {}
    BY <1>2, <1>5, <1>9, <1>10 DEF SpaceOK
  <2>3. ASSUME NEW i \in Tables(q)', NEW j \in Tables(q)', mem'[d][i] = mem'[d][j]
        PROVE  i = j
    <3>1. i \in Words /\ j \in Words
      BY <1>3
    <3>2. \A k, l \in Tables(q) : mem[d][k] = mem[d][l] => k = l
      BY <1>10 DEF SpaceOK
    <3>3. TableFrames(q) \cap Added(q, pg) = {}
      BY <1>2
    <3>4. QED
      BY <1>4, <2>3, <3>1, <3>2, <3>3
  <2>4. ASSUME NEW x \in Present(q)', NEW y \in Present(q)', Entry(d, x)' = Entry(d, y)'
        PROVE  x = y
    <3>1. \A a, b \in Present(q) : Entry(d, a) = Entry(d, b) => a = b
      BY <1>10 DEF SpaceOK
    <3>2. pg \in UserPages => f \notin PageFrames(q)
      BY <1>2
    <3>3. QED
      BY <1>7, <2>4, <3>1, <3>2
  <2>5. QED
    <3>1. \A i, j \in Tables(q)' : mem'[pd'[q]][i] = mem'[pd'[q]][j] => i = j
      BY <2>3
    <3>2. \A x, y \in Present(q)' : Entry(pd[q], x)' = Entry(pd[q], y)' => x = y
      BY <2>4
    <3>3. QED
      BY <2>1, <2>2, <3>1, <3>2 DEF SpaceOK
<1>12. Space(q)' = {d} \cup TableFrames(q)' \cup PageFrames(q)'
  BY DEF Space
<1>13. Space(q)' \subseteq Space(q) \cup Added(q, pg) \cup F
  BY <1>2, <1>5, <1>9, <1>12
<1>14. QED
  BY <1>6, <1>11, <1>12, <1>13

-----------------------------------------------------------------------------

(* What the invariant says of the process that takes a step.               *)
LEMMA Stepper ==
  ASSUME IInv, NEW p \in Procs
  PROVE  /\ TypeOK /\ FreeListOK /\ Apart /\ OneParent
         /\ SpaceOK(p) /\ LocalOK(p) /\ StepOK(p) /\ Sees(p) /\ Carries(p) /\ Copies(p)
         /\ pc[p] = "run" => target[p] = p /\ pd[p] # 0 /\ frame[p] = 0
         /\ pc[p] \in {"zombie", "delete"} => target[p] = p /\ pd[p] # 0 /\ frame[p] = 0
BY DEF IInv, ProcOK, StepOK

(* A step after which all others are as they were.                         *)
LEMMA OwnStep ==
  ASSUME IInv, NEW p \in Procs, pc[p] # "made", \A r \in Procs : r # p => Keeps(r),
         TypeOK', FreeListOK', Apart', OneParent', ProcOK(p)'
  PROVE  IInv'
<1>1. \A r \in Procs : r # p => ProcOK(r)'
  BY Others
<1>2. QED
  BY <1>1 DEF IInv

(* A write goes to a frame that nobody else has.                           *)
LEMMA WriteKeepsIInv ==
  ASSUME IInv, NEW p \in Procs, NEW pg \in Touched, NEW v \in Values, Write(p, pg, v)
  PROVE  IInv'
<1> DEFINE e == Entry(pd[p], pg)
<1>1. /\ pc[p] = "run" /\ pg \in Present(p) /\ pg \in UserPages
      /\ mem' = [mem EXCEPT ![e][0] = v] /\ view' = [view EXCEPT ![p][pg] = v]
      /\ UNCHANGED <<allocator, pd, pc, locals>>
  BY DEF Write, Present
<1>2. /\ TypeOK /\ FreeListOK /\ Apart /\ OneParent /\ SpaceOK(p) /\ LocalOK(p) /\ Sees(p)
      /\ target[p] = p /\ pd[p] # 0 /\ frame[p] = 0 /\ pc[p] # "delete"
  BY <1>1, Stepper
<1>3. e \in PageFrames(p) /\ e \in Space(p) /\ e # 0
  BY <1>1, <1>2 DEF PageFrames, Space, Present
<1>4. /\ e \in Hold(p) /\ e \in Frames /\ e \notin FreeSet /\ e \notin Walked(p)
      /\ \A r \in Procs : r # p => e \notin Hold(r)
  <2>1. e \notin Walked(p)
    BY <1>2, <1>3 DEF Walked, SpaceOK
  <2>2. QED
    BY <1>3, <2>1, HoldFacts
<1>5. /\ mem' \in [Frames -> [Words -> Nat]] /\ mem'[e][0] = v
      /\ \A g : g # e => mem'[g] = mem[g]
      /\ v \in Nat \ {0}
  BY <1>1, <1>2, <1>4, Numbers, MemoryAssumption DEF TypeOK
<1>6. /\ view' \in [Procs -> [UserPages -> Values \cup {0}]] /\ view'[p][pg] = v
      /\ \A x \in UserPages : x # pg => view'[p][x] = view[p][x]
      /\ \A r \in Procs : r # p => view'[r] = view[r]
  BY <1>1, <1>2 DEF TypeOK
<1>7. /\ firstFree' = firstFree /\ avail' = avail /\ panicked' = panicked /\ pd' = pd /\ pc' = pc
      /\ page' = page /\ frame' = frame /\ target' = target
  BY <1>1 DEF allocator, locals
<1>8. Quiet(p)
  BY <1>4, <1>5, <1>7 DEF Quiet
<1>9. /\ Space(p)' = Space(p) /\ SpaceOK(p)' /\ Present(p)' = Present(p)
      /\ \A x \in Pages : Entry(pd[p], x)' = Entry(pd[p], x)
  BY <1>2, <1>8, QuietSpace
<1>10. \A r \in Procs : r # p => Keeps(r)
  BY <1>4, <1>5, <1>6, <1>7 DEF Keeps
<1>11. Hold(p)' = Hold(p) /\ LocalOK(p)'
  BY <1>2, <1>7, <1>9 DEF Hold, LocalOK
<1>12. FreeListOK' /\ FreeSet' = FreeSet
  BY <1>2, <1>4, <1>5, <1>7, ListSame
<1>13. TypeOK'
  BY <1>2, <1>5, <1>6, <1>7 DEF TypeOK
<1>14. Apart'
  <2>1. \A r \in Procs : Hold(r)' = Hold(r)
    BY <1>1, <1>10, <1>11, Others
  <2>2. QED
    BY <1>2, <1>7, <1>12, <2>1 DEF Apart
<1>15. OneParent'
  BY <1>2, <1>7 DEF OneParent
<1>16. StepOK(p)' /\ Carries(p)' /\ Copies(p)'
  BY <1>1, <1>2, <1>7 DEF StepOK, Carries, Copies
<1>17. Sees(p)'
  <2>1. ASSUME NEW x \in UserPages PROVE Content(p, x)' = view'[p][x]
    <3>1. Content(p, x)' = IF x \in Present(p) THEN mem'[Entry(pd[p], x)][0] ELSE 0
      BY <1>9, Numbers DEF Content
    <3>2. Content(p, x) = view[p][x]
      BY <1>1, <1>2 DEF Sees, Alive
    <3>3. CASE x = pg
      BY <1>1, <1>5, <1>6, <3>1, <3>3
    <3>4. CASE x # pg
      <4>1. x \in Present(p) => Entry(pd[p], x) # e
        BY <1>1, <1>2, <3>4 DEF SpaceOK
      <4>2. QED
        BY <1>5, <1>6, <3>1, <3>2, <3>4, <4>1 DEF Content
    <3>5. QED
      BY <3>3, <3>4
  <2>2. QED
    BY <2>1 DEF Sees
<1>18. QED
  BY <1>1, <1>9, <1>10, <1>11, <1>12, <1>13, <1>14, <1>15, <1>16, <1>17, OwnStep DEF ProcOK

(* A process takes a frame for a page, and puts something into it.         *)
Grabs(p, pg, w) ==
  /\ alloc_frame
  /\ mem' = [mem EXCEPT ![NextFrame] = w]
  /\ frame' = [frame EXCEPT ![p] = NextFrame]
  /\ page' = [page EXCEPT ![p] = pg]
  /\ GoTo(p, "map")
  /\ UNCHANGED <<pd, target, view>>

(* A process, and the one in whose directory it maps, while it copies or   *)
(* maps a page.                                                            *)
LEMMA Target ==
  ASSUME IInv, NEW p \in Procs, pc[p] \in {"run", "apic", "map", "copy"}
  PROVE  /\ pd[p] # 0 /\ target[p] \in Procs /\ pd[target[p]] # 0
         /\ pc[target[p]] \notin {"none", "delete"}
         /\ target[p] # p => /\ pc[target[p]] = "made" /\ frame[target[p]] = 0
                             /\ target[target[p]] = target[p]
<1>1. target[p] \in Procs
  BY DEF IInv, TypeOK
<1>2. StepOK(p) /\ StepOK(target[p])
  BY <1>1 DEF IInv, ProcOK
<1>3. QED
  BY <1>1, <1>2 DEF StepOK

(* The page fault and fork's copy take a frame in the same way.            *)
LEMMA GrabKeepsIInv ==
  ASSUME IInv, NEW p \in Procs, pc[p] \in {"run", "copy"},
         NEW pg \in UserPages, NEW w \in [Words -> Nat], Grabs(p, pg, w),
         Entry(pd[target[p]], pg) = 0, w[0] = view[p][pg],
         target[p] # p => /\ pg \in Present(p)
                          /\ \A x \in Present(p) : x < pg => Entry(pd[target[p]], x) # 0
  PROVE  IInv'
<1>1. /\ alloc_frame /\ mem' = [mem EXCEPT ![NextFrame] = w]
      /\ frame' = [frame EXCEPT ![p] = NextFrame] /\ page' = [page EXCEPT ![p] = pg]
      /\ pc' = [pc EXCEPT ![p] = "map"]
      /\ pd' = pd /\ target' = target /\ view' = view
  BY DEF Grabs, GoTo
<1>2. /\ TypeOK /\ FreeListOK /\ Apart /\ OneParent
      /\ SpaceOK(p) /\ StepOK(p) /\ Sees(p) /\ Copies(p)
      /\ frame[p] = 0
  BY Stepper DEF StepOK
<1>3. /\ NextFrame \in Frames /\ NextFrame # 0
      /\ \A r \in Procs : NextFrame \notin Hold(r)
  BY <1>1, Fresh
<1>4. /\ mem' \in [Frames -> [Words -> Nat]] /\ mem'[NextFrame] = w
      /\ \A g : g # NextFrame => mem'[g] = mem[g]
  BY <1>1, <1>2, <1>3 DEF TypeOK
<1>5. /\ frame' \in [Procs -> Frames \cup {0}] /\ frame'[p] = NextFrame
      /\ \A r \in Procs : r # p => frame'[r] = frame[r]
  BY <1>1, <1>2, <1>3 DEF TypeOK
<1>6. /\ page' \in [Procs -> 0..(Width * Width)] /\ page'[p] = pg
      /\ \A r \in Procs : r # p => page'[r] = page[r]
  <2>1. pg \in 0..(Width * Width)
    BY MemoryAssumption DEF UserPages, Pages
  <2>2. QED
    BY <1>1, <1>2, <2>1 DEF TypeOK
<1>7. /\ pc' \in [Procs -> Steps] /\ pc'[p] = "map"
      /\ \A r \in Procs : r # p => pc'[r] = pc[r]
  BY <1>1, <1>2 DEF TypeOK, Steps
<1>8. /\ FreeListOK' /\ FreeSet' \subseteq FreeSet \ {NextFrame}
      /\ avail' \in 1..(NFrames + 1) /\ avail <= avail' /\ NextFrame < avail'
      /\ firstFree' \in Frames \cup {0}
  BY <1>1, <1>2, <1>4, Allocated
<1>9. panicked' = panicked
  BY <1>1 DEF alloc_frame
<1>10. TypeOK'
  BY <1>1, <1>2, <1>4, <1>5, <1>6, <1>7, <1>8, <1>9 DEF TypeOK
<1>11. \A r \in Procs : r # p => Keeps(r)
  BY <1>1, <1>3, <1>4, <1>5, <1>6, <1>7 DEF Keeps
<1>12. /\ target[p] \in Procs /\ pd[p] # 0 /\ pd[target[p]] # 0
       /\ pc[target[p]] \notin {"none", "delete"}
  BY Target
<1>13. \A r \in Procs : pd[r] # 0 => /\ \A f \in Walked(r) : mem'[f] = mem[f]
                                     /\ \A f \in Space(r) : mem'[f] = mem[f]
  BY <1>2, <1>3, <1>4, SpaceFacts, HoldFacts
<1>14. Quiet(p) /\ Quiet(target[p])
  <2>1. Quiet(p)
    BY <1>1, <1>7, <1>13 DEF Quiet
  <2>2. target[p] # p => Quiet(target[p])
    BY <1>1, <1>7, <1>12, <1>13 DEF Quiet
  <2>3. QED
    BY <2>1, <2>2
<1>15. /\ Space(p)' = Space(p) /\ SpaceOK(p)' /\ Present(p)' = Present(p)
       /\ \A x \in UserPages : Content(p, x)' = Content(p, x)
  BY <1>2, <1>12, <1>13, <1>14, QuietSpace, QuietContent
<1>16. \A x \in UserPages : Entry(pd[target[p]], x)' = Entry(pd[target[p]], x)
  <2>1. PICK q \in Procs : q = target[p]
    BY <1>12
  <2>2. \A x \in UserPages : Entry(pd[q], x)' = Entry(pd[q], x)
    BY <1>2, <1>12, <1>14, <2>1, QuietSpace, Numbers
  <2>3. target' = target
    BY <1>1
  <2>4. QED
    BY <2>1, <2>2, <2>3
<1>17. Hold(p)' = Hold(p) \cup {NextFrame} /\ LocalOK(p)'
  <2>1. Space(p)' = Space(p) /\ NextFrame \notin Space(p)
    BY <1>3, <1>15, HoldFacts
  <2>2. QED
    BY <1>2, <1>3, <1>5, <2>1 DEF Hold, LocalOK
<1>18. Apart'
  <2>1. {NextFrame} \subseteq 1..(avail' - 1)
    <3>1. \A n \in Frames, k \in 1..(NFrames + 1) : n < k => n \in 1..(k - 1)
      BY Numbers DEF Frames
    <3>2. QED
      BY <1>3, <1>8, <3>1
  <2>2. avail \in Nat /\ avail' \in Nat
    BY <1>2, <1>8, Numbers DEF TypeOK
  <2>3. \A r \in Procs : r # p => Hold(r)' = Hold(r)
    BY <1>7, <1>11, Others
  <2>4. /\ {NextFrame} \cap FreeSet' = {} /\ FreeSet' \subseteq FreeSet
        /\ \A r \in Procs : {NextFrame} \cap Hold(r) = {}
    BY <1>3, <1>8
  <2>5. Hold(p)' \subseteq Hold(p) \cup {NextFrame}
    BY <1>17
  <2>6. QED
    BY <1>2, <1>8, <2>1, <2>2, <2>3, <2>4, <2>5, ApartTakes
<1>19. OneParent'
  BY <1>1, <1>2 DEF OneParent
<1>20. StepOK(p)'
  <2>2. Entry(pd[target[p]], page[p])' = 0
    BY <1>1, <1>6, <1>16 DEF Entry, Table
  <2>3. target'[p] # p => pc'[target'[p]] = "made"
    BY <1>1, <1>2, <1>7, <1>12 DEF StepOK
  <2>4. QED
    BY <1>1, <1>3, <1>5, <1>6, <1>7, <1>12, <2>2, <2>3 DEF StepOK
<1>21. Sees(p)'
  BY <1>1, <1>2, <1>15 DEF Sees, Alive
<1>22. Carries(p)'
  BY <1>1, <1>4, <1>5, <1>6 DEF Carries
<1>23. Copies(p)'
  <2> SUFFICES ASSUME target[p] # p PROVE Copies(p)'
    BY <1>1 DEF Copies
  <2>1. ASSUME NEW x \in UserPages, Entry(pd[target[p]], x) # 0
        PROVE  /\ x \in Present(p)
               /\ mem'[Entry(pd[target[p]], x)][0] = view[p][x]
    <3>1. x \in Present(p) /\ mem[Entry(pd[target[p]], x)][0] = view[p][x]
      BY <1>2, <2>1 DEF Copies
    <3>2. Entry(pd[target[p]], x) \in Space(target[p])
      BY <1>2, <1>12, <2>1, SpaceFacts
    <3>3. QED
      BY <1>12, <1>13, <3>1, <3>2
  <2>2. \A x \in UserPages :
          /\ Entry(pd[target[p]], x)' # 0 =>
               x \in Present(p)' /\ mem'[Entry(pd[target[p]], x)'][0] = view'[p][x]
          /\ x \in Present(p)' /\ x < page'[p] => Entry(pd[target[p]], x)' # 0
    BY <1>1, <1>6, <1>15, <1>16, <2>1
  <2>3. page'[p] \in Present(p)'
    BY <1>6, <1>15
  <2>4. QED
    BY <1>7, <2>2, <2>3 DEF Copies
<1>24. QED
  BY <1>8, <1>10, <1>11, <1>15, <1>17, <1>18, <1>19, <1>20, <1>21, <1>22, <1>23, OwnStep DEF ProcOK

(* A page fault fills it with zeros,                                       *)
LEMMA PageFaultKeepsIInv ==
  ASSUME IInv, NEW p \in Procs, NEW pg \in Touched, PageFault(p, pg)
  PROVE  IInv'
<1>1. /\ pc[p] = "run" /\ pg \in UserPages /\ pg \notin Present(p)
      /\ Grabs(p, pg, Zeros)
  BY DEF PageFault, Grabs
<1>2. Zeros \in [Words -> Nat] /\ Zeros[0] = 0
  BY Numbers DEF Zeros
<1>3. target[p] = p /\ Sees(p)
  BY <1>1, Stepper
<1>4. view[p][pg] = 0
  BY <1>1, <1>3 DEF Sees, Alive, Content
<1>5. Entry(pd[target[p]], pg) = 0
  BY <1>1, <1>3 DEF Present
<1>6. QED
  BY <1>1, <1>2, <1>3, <1>4, <1>5, GrabKeepsIInv

(* fork's copy with what the parent's page holds.                          *)
LEMMA CopyKeepsIInv ==
  ASSUME IInv, NEW p \in Procs, NEW pg \in Touched, Copy(p, pg)
  PROVE  IInv'
<1> DEFINE w == mem[Entry(pd[p], pg)]
<1>1. /\ pc[p] = "copy" /\ NextToCopy(p, pg) /\ Grabs(p, pg, w)
  BY DEF Copy, Grabs
<1>2. /\ pg \in UserPages /\ pg \in Present(p) /\ page[p] <= pg
      /\ Entry(pd[target[p]], pg) = 0
      /\ \A x \in Present(p) : page[p] <= x /\ Entry(pd[target[p]], x) = 0 => pg <= x
  BY <1>1 DEF NextToCopy, ToCopy, Present
<1>3. /\ TypeOK /\ Sees(p) /\ Copies(p) /\ target[p] # p /\ pd[p] # 0
  BY <1>1, Stepper DEF StepOK
<1>4. w \in [Words -> Nat] /\ w[0] = view[p][pg]
  <2>1. Entry(pd[p], pg) \in Frames
    <3>1. Entry(pd[p], pg) \in Space(p)
      BY <1>1, <1>2, <1>3, SpaceFacts DEF Present
    <3>2. QED
      BY <3>1, HoldFacts
  <2>2. QED
    BY <1>1, <1>2, <1>3, <2>1 DEF Sees, Alive, Content, TypeOK
<1>5. \A x \in Present(p) : x < pg => Entry(pd[target[p]], x) # 0
  <2>1. \A x \in Present(p) : x < page[p] => Entry(pd[target[p]], x) # 0
    BY <1>1, <1>3 DEF Copies, Present
  <2>2. /\ page[p] \in Nat /\ \A x \in UserPages : x \in Nat
    <3>1. Width * Width \in Nat
      BY MemoryAssumption
    <3>2. QED
      BY <1>3, <3>1 DEF TypeOK, UserPages, Pages
  <2>3. QED
    BY <1>2, <2>1, <2>2 DEF Present
<1> HIDE DEF w
<1>6. QED
  BY <1>1, <1>2, <1>3, <1>4, <1>5, GrabKeepsIInv

(* map() writes to no frames but those of the directory and its tables.    *)
LEMMA MapLeaves ==
  ASSUME IInv, NEW q \in Procs, pd[q] # 0, pc[q] # "delete", pd'[q] = pd[q],
         NEW pg \in Pages, NEW f \in Nat, map(pd[q], pg, f)
  PROVE  /\ \A r \in Procs : r # q => \A g \in Hold(r) : mem'[g] = mem[g]
         /\ \A g \in Hold(q) : g \notin Walked(q) => mem'[g] = mem[g]
         /\ \A x \in UserPages :
              Entry(pd[q], x) # 0 => /\ mem'[Entry(pd[q], x)] = mem[Entry(pd[q], x)]
                                     /\ Entry(pd[q], x) \in Space(q)
<1>1. TypeOK /\ SpaceOK(q) /\ Walked(q) \subseteq Space(q) /\ Space(q) \subseteq Hold(q)
  BY HoldFacts, SpaceFacts DEF IInv, ProcOK
<1>2. \A r \in Procs : /\ Hold(r) \subseteq Frames /\ Added(q, pg) \cap Hold(r) = {}
                       /\ r # q => Hold(r) \cap Hold(q) = {}
  BY HoldFacts, MapAllocates
<1>3. \A g \in Frames : g \notin Walked(q) /\ g \notin Added(q, pg) => mem'[g] = mem[g]
  BY MapWords
<1>4. \A x \in UserPages : Entry(pd[q], x) # 0 =>
        Entry(pd[q], x) \in PageFrames(q) /\ Entry(pd[q], x) \in Space(q)
  BY <1>1, SpaceFacts
<1>5. PageFrames(q) \cap Walked(q) = {}
  BY <1>1 DEF SpaceOK, Walked
<1>6. \A r \in Procs : r # q => \A g \in Hold(r) : mem'[g] = mem[g]
  BY <1>1, <1>2, <1>3
<1>7. \A g \in Hold(q) : g \notin Walked(q) => mem'[g] = mem[g]
  BY <1>2, <1>3
<1>8. \A x \in UserPages : Entry(pd[q], x) # 0 => mem'[Entry(pd[q], x)] = mem[Entry(pd[q], x)]
  BY <1>1, <1>4, <1>5, <1>7
<1>9. QED
  BY <1>4, <1>6, <1>7, <1>8

(* A child that is being made takes no steps of its own.                   *)
LEMMA MadeOK ==
  ASSUME NEW q \in Procs, pc'[q] = "made", pd'[q] # 0, frame'[q] = 0, target'[q] = q, SpaceOK(q)'
  PROVE  ProcOK(q)'
BY DEF ProcOK, LocalOK, StepOK, Sees, Carries, Copies, Alive

(* Whoever maps a page in its own address space runs again.                *)
LEMMA MapOwn ==
  ASSUME IInv, NEW p \in Procs, Map(p), target[p] = p
  PROVE  IInv'
<1>1. /\ pc[p] = "map" /\ map(pd[p], page[p], frame[p])
      /\ frame' = [frame EXCEPT ![p] = 0] /\ pc' = [pc EXCEPT ![p] = "run"]
      /\ pd' = pd /\ page' = page /\ target' = target /\ view' = view
  BY DEF Map, GoTo
<1>2. /\ TypeOK /\ FreeListOK /\ Apart /\ OneParent
      /\ SpaceOK(p) /\ LocalOK(p) /\ StepOK(p) /\ Sees(p) /\ Carries(p)
  BY Stepper
<1>3. /\ frame' \in [Procs -> Frames \cup {0}] /\ frame'[p] = 0
      /\ \A r \in Procs : r # p => frame'[r] = frame[r]
      /\ pc' \in [Procs -> Steps] /\ pc'[p] = "run"
      /\ \A r \in Procs : r # p => pc'[r] = pc[r]
  BY <1>1, <1>2 DEF TypeOK, Steps
<1>4. /\ pd[p] # 0 /\ pc[p] # "delete" /\ pd'[p] = pd[p] /\ map(pd[p], page[p], frame[p])
      /\ page[p] \in UserPages /\ page[p] \in Pages
      /\ frame[p] \in Nat \ {0} /\ frame[p] \in Hold(p) /\ frame[p] \notin Space(p)
  BY <1>1, <1>2, Numbers, HoldFacts DEF StepOK, LocalOK, TypeOK, Frames
<1>5. PICK pg \in UserPages : pg = page[p]
  BY <1>4
<1>6. PICK f \in Nat \ {0} : f = frame[p]
  BY <1>4
<1>7. /\ pg \in Pages /\ f \in Nat /\ map(pd[p], pg, f) /\ pd[p] # 0 /\ pc[p] # "delete"
      /\ pd'[p] = pd[p] /\ pc'[p] # "delete" /\ f \in Hold(p) /\ f \notin Space(p)
      /\ Entry(pd[p], pg) = 0
  BY <1>1, <1>2, <1>3, <1>4, <1>5, <1>6 DEF StepOK
<1>8. /\ mem' \in [Frames -> [Words -> Nat]]
      /\ \A x \in Pages : Entry(pd[p], x)' = IF x = pg THEN f ELSE Entry(pd[p], x)
  BY <1>7, MapWords
<1>9. /\ FreeListOK' /\ FreeSet' \subseteq FreeSet
      /\ avail' \in 1..(NFrames + 1) /\ avail <= avail' /\ avail \in Nat /\ avail' \in Nat
      /\ firstFree' \in Frames \cup {0} /\ panicked' = panicked
      /\ Added(p, pg) \subseteq 1..(avail' - 1) /\ Added(p, pg) \cap FreeSet' = {}
      /\ \A r \in Procs : Added(p, pg) \cap Hold(r) = {}
  BY <1>7, MapAllocates
<1>10. /\ \A r \in Procs : r # p => \A g \in Hold(r) : mem'[g] = mem[g]
       /\ mem'[f] = mem[f]
       /\ \A x \in UserPages :
            Entry(pd[p], x) # 0 => mem'[Entry(pd[p], x)] = mem[Entry(pd[p], x)]
  <2>1. f \notin Walked(p)
    BY <1>2, <1>7, SpaceFacts
  <2>2. QED
    BY <1>7, <2>1, MapLeaves
<1>11. /\ SpaceOK(p)' /\ Space(p)' \subseteq Space(p) \cup Added(p, pg) \cup {f}
       /\ \A x \in UserPages : x \in Present(p)' <=> x \in Present(p) \/ x = pg
  <2>1. f \notin Space(p) /\ f \notin Added(p, pg)
    BY <1>7, <1>9
  <2>2. QED
    BY <1>7, <2>1, MapSpace
<1>12. TypeOK'
  BY <1>1, <1>2, <1>3, <1>8, <1>9 DEF TypeOK
<1>13. \A r \in Procs : r # p => Keeps(r)
  BY <1>1, <1>3, <1>10 DEF Keeps
<1>14. Apart'
  <2>1. Hold(p)' \subseteq Hold(p) \cup Added(p, pg)
    BY <1>3, <1>7, <1>11, HoldFacts DEF Hold
  <2>2. \A r \in Procs : r # p => Hold(r)' = Hold(r)
    BY <1>1, <1>13, Others
  <2>3. QED
    BY <1>2, <1>9, <2>1, <2>2, ApartTakes
<1>15. OneParent'
  BY <1>1, <1>2 DEF OneParent
<1>16. LocalOK(p)' /\ StepOK(p)' /\ Carries(p)' /\ Copies(p)'
  BY <1>1, <1>3, <1>7 DEF LocalOK, StepOK, Carries, Copies
<1>17. Sees(p)'
  <2>1. ASSUME NEW x \in UserPages PROVE Content(p, x)' = view[p][x]
    <3>1. Content(p, x) = view[p][x]
      BY <1>1, <1>2 DEF Sees, Alive
    <3>2. Content(p, x)' = IF x \in Present(p)' THEN mem'[Entry(pd[p], x)'][0] ELSE 0
      BY DEF Content
    <3>3. CASE x = pg
      BY <1>1, <1>2, <1>5, <1>6, <1>8, <1>10, <1>11, <3>2, <3>3, Numbers DEF Carries
    <3>4. CASE x # pg
      BY <1>8, <1>10, <1>11, <3>1, <3>2, <3>4, Numbers DEF Content, Present
    <3>5. QED
      BY <3>3, <3>4
  <2>2. QED
    BY <1>1, <2>1 DEF Sees
<1>18. QED
  BY <1>1, <1>9, <1>11, <1>12, <1>13, <1>14, <1>15, <1>16, <1>17, OwnStep DEF ProcOK

(* fork() maps the copy of a page in the child's.                          *)
LEMMA MapChild ==
  ASSUME IInv, NEW p \in Procs, Map(p), target[p] # p
  PROVE  IInv'
<1>1. /\ pc[p] = "map" /\ map(pd[target[p]], page[p], frame[p])
      /\ frame' = [frame EXCEPT ![p] = 0] /\ pc' = [pc EXCEPT ![p] = "copy"]
      /\ pd' = pd /\ page' = page /\ target' = target /\ view' = view
  BY DEF Map, GoTo
<1>2. /\ TypeOK /\ FreeListOK /\ Apart /\ OneParent
      /\ SpaceOK(p) /\ LocalOK(p) /\ StepOK(p) /\ Sees(p) /\ Carries(p) /\ Copies(p)
  BY Stepper
<1>3. /\ frame' \in [Procs -> Frames \cup {0}] /\ frame'[p] = 0
      /\ \A r \in Procs : r # p => frame'[r] = frame[r]
      /\ pc' \in [Procs -> Steps] /\ pc'[p] = "copy"
      /\ \A r \in Procs : r # p => pc'[r] = pc[r]
  BY <1>1, <1>2 DEF TypeOK, Steps
<1>4. /\ page[p] \in UserPages /\ page[p] \in Pages
      /\ frame[p] \in Nat \ {0} /\ frame[p] \in Hold(p) /\ frame[p] \notin Space(p)
  BY <1>1, <1>2, Numbers, HoldFacts DEF StepOK, LocalOK, TypeOK, Frames
<1>5. PICK pg \in UserPages : pg = page[p]
  BY <1>4
<1>6. PICK f \in Nat \ {0} : f = frame[p]
  BY <1>4
<1>7. PICK q \in Procs : /\ q = target[p] /\ q # p /\ pd[q] # 0 /\ pc[q] = "made"
                         /\ frame[q] = 0 /\ target[q] = q
  BY <1>1, Target
<1>8. /\ pg \in Pages /\ f \in Nat /\ map(pd[q], pg, f) /\ pd[p] # 0 /\ pc[p] # "delete"
      /\ pd'[q] = pd[q] /\ pc[q] # "delete" /\ pc'[q] = "made"
      /\ f \in Hold(p) /\ f \notin Space(p) /\ Entry(pd[q], pg) = 0
  BY <1>1, <1>2, <1>3, <1>4, <1>5, <1>6, <1>7 DEF StepOK
<1>9. /\ mem' \in [Frames -> [Words -> Nat]]
      /\ \A x \in Pages : Entry(pd[q], x)' = IF x = pg THEN f ELSE Entry(pd[q], x)
  BY <1>7, <1>8, MapWords
<1>10. /\ FreeListOK' /\ FreeSet' \subseteq FreeSet
       /\ avail' \in 1..(NFrames + 1) /\ avail <= avail' /\ avail \in Nat /\ avail' \in Nat
       /\ firstFree' \in Frames \cup {0} /\ panicked' = panicked
       /\ Added(q, pg) \subseteq 1..(avail' - 1) /\ Added(q, pg) \cap FreeSet' = {}
       /\ \A r \in Procs : Added(q, pg) \cap Hold(r) = {}
  BY <1>7, <1>8, MapAllocates
<1>11. /\ \A r \in Procs : r # q => \A g \in Hold(r) : mem'[g] = mem[g]
       /\ \A x \in UserPages :
            Entry(pd[q], x) # 0 => mem'[Entry(pd[q], x)] = mem[Entry(pd[q], x)]
  BY <1>7, <1>8, MapLeaves
<1>12. SpaceOK(q)' /\ Space(q)' \subseteq Space(q) \cup Added(q, pg) \cup {f}
  <2>1. f \notin Space(q) /\ f \notin Added(q, pg)
    BY <1>7, <1>8, <1>10, HoldFacts
  <2>2. QED
    BY <1>7, <1>8, <2>1, MapSpace
<1>13. TypeOK'
  BY <1>1, <1>2, <1>3, <1>9, <1>10 DEF TypeOK
<1>14. \A r \in Procs : r # p /\ r # q => Keeps(r)
  BY <1>1, <1>3, <1>11 DEF Keeps
<1>15. \A r \in Procs : r # p /\ r # q => ProcOK(r)' /\ Hold(r)' = Hold(r)
  BY <1>1, <1>7, <1>14, Others
<1>16. /\ Quiet(p) /\ \A g \in Space(p) : mem'[g] = mem[g]
       /\ mem'[f] = mem[f]
  <2>1. \A g \in Hold(p) : mem'[g] = mem[g]
    BY <1>7, <1>11
  <2>2. Walked(p) \subseteq Space(p) /\ Space(p) \subseteq Hold(p)
    BY <1>2, <1>8, SpaceFacts, HoldFacts
  <2>3. QED
    BY <1>1, <1>3, <1>8, <2>1, <2>2 DEF Quiet
<1>17. /\ Space(p)' = Space(p) /\ SpaceOK(p)' /\ Present(p)' = Present(p)
       /\ \A x \in UserPages : Content(p, x)' = Content(p, x)
  BY <1>2, <1>8, <1>16, QuietSpace, QuietContent
<1>18. Apart'
  <2>1. Hold(p)' \subseteq Hold(p) \ {f}
    <3>1. Hold(p)' = Space(p)
      BY <1>3, <1>17 DEF Hold
    <3>2. QED
      BY <1>8, <3>1, HoldFacts
  <2>2. Hold(q)' \subseteq Hold(q) \cup Added(q, pg) \cup {f}
    <3>1. Hold(q)' = Space(q)'
      BY <1>3, <1>7 DEF Hold
    <3>2. QED
      BY <1>12, <3>1, HoldFacts
  <2>3. \A r \in Procs : r # p /\ r # q => Hold(r)' = Hold(r)
    BY <1>15
  <2>4. Apart /\ p # q /\ f \in Hold(p)
    BY <1>2, <1>7, <1>8
  <2>5. QED
    BY <1>10, <2>1, <2>2, <2>3, <2>4, ApartMoves
<1>19. OneParent'
  BY <1>1, <1>2 DEF OneParent
<1>20. ProcOK(q)'
  BY <1>1, <1>3, <1>7, <1>8, <1>12, MadeOK
<1>21. LocalOK(p)' /\ Carries(p)'
  BY <1>3 DEF LocalOK, Carries
<1>22. StepOK(p)'
  BY <1>1, <1>3, <1>7, <1>8 DEF StepOK
<1>23. Sees(p)'
  BY <1>1, <1>2, <1>17 DEF Sees, Alive
<1>24. Copies(p)'
  <2>1. ASSUME NEW x \in UserPages
        PROVE  LET e == Entry(pd[q], x)' IN
               /\ e # 0 => x \in Present(p) /\ mem'[e][0] = view[p][x]
               /\ x \in Present(p) /\ x < page[p] => e # 0
    <3>1. /\ Entry(pd[q], x) # 0 => x \in Present(p) /\ mem[Entry(pd[q], x)][0] = view[p][x]
          /\ x \in Present(p) /\ x < page[p] => Entry(pd[q], x) # 0
      BY <1>1, <1>2, <1>7 DEF Copies
    <3>2. CASE x = pg
      <4>1. Entry(pd[q], x)' = f /\ f # 0
        BY <1>9, <3>2, Numbers
      <4>2. pg \in Present(p) /\ mem[f][0] = view[p][pg]
        BY <1>1, <1>2, <1>5, <1>6 DEF Copies, Carries
      <4>3. QED
        BY <1>16, <3>2, <4>1, <4>2
    <3>3. CASE x # pg
      <4>1. Entry(pd[q], x)' = Entry(pd[q], x)
        BY <1>9, <3>3, Numbers
      <4>2. QED
        BY <1>11, <3>1, <4>1
    <3>4. QED
      BY <3>2, <3>3
  <2>2. \A x \in UserPages :
          LET e == Entry(pd[target[p]], x)' IN
          /\ e # 0 => x \in Present(p)' /\ mem'[e][0] = view'[p][x]
          /\ x \in Present(p)' /\ x < page'[p] => e # 0
    <3>1. target' = target /\ view' = view /\ page' = page
      BY <1>1
    <3>2. QED
      BY <1>7, <1>17, <2>1, <3>1
  <2>3. QED
    BY <1>3, <2>2 DEF Copies
<1>25. QED
  BY <1>10, <1>13, <1>15, <1>17, <1>18, <1>19, <1>20, <1>21, <1>22, <1>23, <1>24 DEF IInv, ProcOK

LEMMA PagesAreNumbers == \A x \in UserPages : x \in Nat /\ ~(x < 0)
BY MemoryAssumption DEF UserPages, Pages

(* The APIC's frame is in no address space as a page of a program.         *)
LEMMA MapApicKeepsIInv ==
  ASSUME IInv, NEW p \in Procs, MapApic(p)
  PROVE  IInv'
<1>1. /\ pc[p] = "apic" /\ map(pd[target[p]], apicPage, apicFrame)
      /\ page' = [page EXCEPT ![p] = 0] /\ pc' = [pc EXCEPT ![p] = "copy"]
      /\ pd' = pd /\ frame' = frame /\ target' = target /\ view' = view
  BY DEF MapApic, GoTo
<1>2. /\ TypeOK /\ FreeListOK /\ Apart /\ OneParent
      /\ SpaceOK(p) /\ LocalOK(p) /\ StepOK(p) /\ Sees(p) /\ Copies(p)
  BY Stepper
<1>3. /\ page' \in [Procs -> 0..(Width * Width)] /\ page'[p] = 0
      /\ \A r \in Procs : r # p => page'[r] = page[r]
      /\ pc' \in [Procs -> Steps] /\ pc'[p] = "copy"
      /\ \A r \in Procs : r # p => pc'[r] = pc[r]
  <2>1. 0 \in 0..(Width * Width)
    BY MemoryAssumption
  <2>2. QED
    BY <1>1, <1>2, <2>1 DEF TypeOK, Steps
<1>4. PICK q \in Procs : /\ q = target[p] /\ q # p /\ pd[q] # 0 /\ pc[q] = "made"
                         /\ frame[q] = 0 /\ target[q] = q
  BY <1>1, <1>2, Target DEF StepOK
<1>5. /\ apicPage \in Pages /\ apicFrame \in Nat \ {0} /\ apicPage \notin UserPages
      /\ map(pd[q], apicPage, apicFrame) /\ pd[p] # 0 /\ pc[p] # "delete"
      /\ pd'[q] = pd[q] /\ pc[q] # "delete" /\ pc'[q] = "made" /\ frame[p] = 0
  BY <1>1, <1>2, <1>3, <1>4, Numbers DEF StepOK
<1>6. /\ mem' \in [Frames -> [Words -> Nat]]
      /\ \A x \in UserPages : Entry(pd[q], x)' = Entry(pd[q], x)
  BY <1>4, <1>5, MapWords, Numbers
<1>7. /\ FreeListOK' /\ FreeSet' \subseteq FreeSet
      /\ avail' \in 1..(NFrames + 1) /\ avail <= avail' /\ avail \in Nat /\ avail' \in Nat
      /\ firstFree' \in Frames \cup {0} /\ panicked' = panicked
      /\ Added(q, apicPage) \subseteq 1..(avail' - 1) /\ Added(q, apicPage) \cap FreeSet' = {}
      /\ \A r \in Procs : Added(q, apicPage) \cap Hold(r) = {}
  BY <1>4, <1>5, MapAllocates
<1>8. \A r \in Procs : r # q => \A g \in Hold(r) : mem'[g] = mem[g]
  BY <1>4, <1>5, MapLeaves
<1>9. SpaceOK(q)' /\ Space(q)' \subseteq Space(q) \cup Added(q, apicPage)
  BY <1>4, <1>5, MapSpace
<1>10. TypeOK'
  BY <1>1, <1>2, <1>3, <1>6, <1>7 DEF TypeOK
<1>11. \A r \in Procs : r # p /\ r # q => Keeps(r)
  BY <1>1, <1>3, <1>8 DEF Keeps
<1>12. \A r \in Procs : r # p /\ r # q => ProcOK(r)' /\ Hold(r)' = Hold(r)
  BY <1>1, <1>4, <1>11, Others
<1>13. Quiet(p) /\ \A g \in Space(p) : mem'[g] = mem[g]
  <2>1. \A g \in Hold(p) : mem'[g] = mem[g]
    BY <1>4, <1>8
  <2>2. Walked(p) \subseteq Space(p) /\ Space(p) \subseteq Hold(p)
    BY <1>2, <1>5, SpaceFacts, HoldFacts
  <2>3. QED
    BY <1>1, <1>3, <1>5, <2>1, <2>2 DEF Quiet
<1>14. /\ Space(p)' = Space(p) /\ SpaceOK(p)' /\ Present(p)' = Present(p)
       /\ \A x \in UserPages : Content(p, x)' = Content(p, x)
  BY <1>2, <1>5, <1>13, QuietSpace, QuietContent
<1>15. Hold(p)' = Hold(p)
  BY <1>1, <1>14 DEF Hold
<1>16. Apart'
  <2>1. Hold(q)' \subseteq Hold(q) \cup Added(q, apicPage)
    <3>1. Hold(q)' = Space(q)'
      BY <1>1, <1>4 DEF Hold
    <3>2. QED
      BY <1>9, <3>1, HoldFacts
  <2>2. \A r \in Procs : r # q => Hold(r)' = Hold(r)
    BY <1>12, <1>15
  <2>3. QED
    BY <1>2, <1>7, <2>1, <2>2, ApartTakes
<1>17. OneParent'
  BY <1>1, <1>2 DEF OneParent
<1>18. ProcOK(q)'
  <2>1. frame'[q] = 0 /\ target'[q] = q /\ pd'[q] # 0
    BY <1>1, <1>4
  <2>2. QED
    BY <1>5, <1>9, <2>1, MadeOK
<1>19. LocalOK(p)' /\ Carries(p)' /\ StepOK(p)'
  BY <1>1, <1>3, <1>4, <1>5 DEF LocalOK, Carries, StepOK
<1>20. Sees(p)'
  BY <1>1, <1>2, <1>14 DEF Sees, Alive
<1>21. Copies(p)'
  <2>1. \A x \in UserPages : Entry(pd[target[p]], x)' = 0
    <3>1. \A x \in UserPages : Entry(pd[q], x)' = 0
      BY <1>1, <1>2, <1>4, <1>6 DEF Copies
    <3>2. target' = target
      BY <1>1
    <3>3. QED
      BY <1>4, <3>1, <3>2
  <2>2. \A x \in UserPages : ~(x < page'[p])
    BY <1>3, PagesAreNumbers
  <2>3. QED
    BY <1>3, <2>1, <2>2 DEF Copies
<1>22. QED
  BY <1>7, <1>10, <1>12, <1>14, <1>16, <1>17, <1>18, <1>19, <1>20, <1>21 DEF IInv, ProcOK

(* A child starts with an empty directory in a frame of its own.           *)
LEMMA ForkKeepsIInv ==
  ASSUME IInv, NEW p \in Procs, NEW q \in Procs, Fork(p, q)
  PROVE  IInv'
<1>1. /\ pc[p] = "run" /\ pc[q] = "none" /\ p # q /\ alloc_frame
      /\ mem' = [mem EXCEPT ![NextFrame] = Zeros] /\ pd' = [pd EXCEPT ![q] = NextFrame]
      /\ target' = [target EXCEPT ![p] = q] /\ pc' = [pc EXCEPT ![p] = "apic", ![q] = "made"]
      /\ page' = page /\ frame' = frame /\ view' = view
  BY DEF Fork
<1>2. /\ TypeOK /\ FreeListOK /\ Apart /\ OneParent
      /\ SpaceOK(p) /\ LocalOK(p) /\ StepOK(p) /\ Sees(p)
      /\ target[p] = p /\ pd[p] # 0 /\ frame[p] = 0
      /\ pd[q] = 0 /\ frame[q] = 0 /\ target[q] = q /\ pc[q] # "made" /\ pc[p] # "made"
  <2>1. StepOK(q)
    BY Stepper
  <2>2. QED
    BY <1>1, <2>1, Stepper DEF StepOK
<1>3. /\ NextFrame \in Frames /\ NextFrame # 0
      /\ \A r \in Procs : NextFrame \notin Hold(r)
  BY <1>1, Fresh
<1>4. /\ mem' \in [Frames -> [Words -> Nat]]
      /\ \A i \in Words : mem'[NextFrame][i] = 0
      /\ \A g : g # NextFrame => mem'[g] = mem[g]
  BY <1>1, <1>2, <1>3 DEF TypeOK, Zeros
<1>5. /\ pd' \in [Procs -> Frames \cup {0}] /\ pd'[q] = NextFrame
      /\ \A r \in Procs : r # q => pd'[r] = pd[r]
  BY <1>1, <1>2, <1>3 DEF TypeOK
<1>6. /\ target' \in [Procs -> Procs] /\ target'[p] = q
      /\ \A r \in Procs : r # p => target'[r] = target[r]
  BY <1>1, <1>2 DEF TypeOK
<1>7. /\ pc' \in [Procs -> Steps] /\ pc'[p] = "apic" /\ pc'[q] = "made"
      /\ \A r \in Procs : r # p /\ r # q => pc'[r] = pc[r]
  BY <1>1, <1>2 DEF TypeOK, Steps
<1>8. /\ FreeListOK' /\ FreeSet' \subseteq FreeSet \ {NextFrame}
      /\ avail' \in 1..(NFrames + 1) /\ avail <= avail' /\ NextFrame < avail'
      /\ firstFree' \in Frames \cup {0}
  BY <1>1, <1>2, <1>4, Allocated
<1>9. panicked' = panicked
  BY <1>1 DEF alloc_frame
<1>10. TypeOK'
  BY <1>1, <1>2, <1>4, <1>5, <1>6, <1>7, <1>8, <1>9 DEF TypeOK
<1>11. \A r \in Procs : r # p /\ r # q => Keeps(r)
  BY <1>1, <1>3, <1>4, <1>5, <1>6, <1>7 DEF Keeps
<1>12. \A r \in Procs : r # p /\ r # q => ProcOK(r)' /\ Hold(r)' = Hold(r)
  BY <1>1, <1>2, <1>11, Others
<1>13. Quiet(p) /\ \A g \in Space(p) : mem'[g] = mem[g]
  <2>1. Walked(p) \subseteq Space(p) /\ Space(p) \subseteq Hold(p)
    BY <1>2, SpaceFacts, HoldFacts
  <2>2. QED
    BY <1>1, <1>3, <1>4, <1>5, <1>7, <2>1 DEF Quiet
<1>14. /\ Space(p)' = Space(p) /\ SpaceOK(p)'
       /\ \A x \in UserPages : Content(p, x)' = Content(p, x)
  BY <1>1, <1>2, <1>13, QuietSpace, QuietContent
<1>15. \A x \in UserPages : Entry(pd[q], x)' = 0
  <2>1. ASSUME NEW x \in UserPages PROVE Entry(pd[q], x)' = 0
    <3>1. Row(x) \in Words
      BY PageWords, Numbers
    <3>2. Entry(pd[q], x)' = IF mem'[pd'[q]][Row(x)] = 0 THEN 0
                             ELSE mem'[mem'[pd'[q]][Row(x)]][Col(x)]
      BY DEF Entry, Table, Row, Col
    <3>3. mem'[pd'[q]][Row(x)] = 0
      BY <1>4, <1>5, <3>1
    <3>4. QED
      BY <3>2, <3>3
  <2>2. QED
    BY <2>1
<1>16. SpaceOK(q)' /\ Space(q)' = {NextFrame}
  <2>1. Tables(q)' = {} /\ Present(q)' = {}
    BY <1>4, <1>5, <1>15 DEF Tables, Present
  <2>2. TableFrames(q)' = {} /\ PageFrames(q)' = {}
    BY <2>1 DEF TableFrames, PageFrames
  <2>3. QED
    BY <1>3, <1>5, <2>1, <2>2 DEF Space, SpaceOK
<1>17. Hold(p)' = Hold(p) /\ Hold(q)' \subseteq Hold(q) \cup {NextFrame}
  BY <1>1, <1>2, <1>14, <1>16 DEF Hold
<1>18. Apart'
  <2>1. {NextFrame} \subseteq 1..(avail' - 1)
    <3>1. \A n \in Frames, k \in 1..(NFrames + 1) : n < k => n \in 1..(k - 1)
      BY Numbers DEF Frames
    <3>2. QED
      BY <1>3, <1>8, <3>1
  <2>2. avail \in Nat /\ avail' \in Nat
    BY <1>2, <1>8, Numbers DEF TypeOK
  <2>3. \A r \in Procs : r # q => Hold(r)' = Hold(r)
    BY <1>12, <1>17
  <2>4. /\ {NextFrame} \cap FreeSet' = {} /\ FreeSet' \subseteq FreeSet
        /\ \A r \in Procs : {NextFrame} \cap Hold(r) = {}
    BY <1>3, <1>8
  <2>5. QED
    BY <1>2, <1>8, <1>17, <2>1, <2>2, <2>3, <2>4, ApartTakes
<1>19. OneParent'
  <2>1. \A r \in Procs : target[r] # r => target[r] # q
    BY <1>2, Stepper DEF StepOK
  <2>2. QED
    BY <1>1, <1>2, <1>6, <2>1 DEF OneParent
<1>20. ProcOK(q)'
  <2>1. frame'[q] = 0 /\ target'[q] = q /\ pd'[q] # 0
    BY <1>1, <1>2, <1>3, <1>5, <1>6
  <2>2. QED
    BY <1>7, <1>16, <2>1, MadeOK
<1>21. LocalOK(p)' /\ Carries(p)' /\ StepOK(p)'
  BY <1>1, <1>2, <1>5, <1>6, <1>7 DEF LocalOK, Carries, StepOK
<1>22. Sees(p)'
  BY <1>1, <1>2, <1>14 DEF Sees, Alive
<1>23. Copies(p)'
  <2>1. \A x \in UserPages : Entry(pd[target[p]], x)' = 0
    <3>1. pd'[target'[p]] = pd'[q]
      BY <1>6
    <3>2. QED
      BY <1>15, <3>1 DEF Entry, Table
  <2>2. QED
    BY <1>7, <2>1 DEF Copies
<1>24. QED
  BY <1>8, <1>10, <1>12, <1>14, <1>18, <1>19, <1>20, <1>21, <1>22, <1>23 DEF IInv, ProcOK

LEMMA ScheduleChildKeepsIInv ==
  ASSUME IInv, NEW p \in Procs, ScheduleChild(p)
  PROVE  IInv'
<1>1. /\ pc[p] = "copy" /\ ToCopy(p) = {}
      /\ pc' = [pc EXCEPT ![p] = "run", ![target[p]] = "run"]
      /\ view' = [view EXCEPT ![target[p]] = view[p]]
      /\ target' = [target EXCEPT ![p] = p]
      /\ mem' = mem /\ firstFree' = firstFree /\ avail' = avail /\ panicked' = panicked
      /\ pd' = pd /\ page' = page /\ frame' = frame
  BY DEF ScheduleChild, allocator
<1>2. /\ TypeOK /\ FreeListOK /\ Apart /\ OneParent
      /\ SpaceOK(p) /\ LocalOK(p) /\ StepOK(p) /\ Sees(p) /\ Copies(p)
      /\ pd[p] # 0 /\ frame[p] = 0
  BY <1>1, Stepper DEF StepOK
<1>3. PICK q \in Procs : /\ q = target[p] /\ q # p /\ pd[q] # 0 /\ pc[q] = "made"
                         /\ frame[q] = 0 /\ target[q] = q
  BY <1>1, <1>2, Target DEF StepOK
<1>4. SpaceOK(q) /\ LocalOK(q)
  BY Stepper
<1>5. /\ pc' \in [Procs -> Steps] /\ pc'[p] = "run" /\ pc'[q] = "run"
      /\ \A r \in Procs : r # p /\ r # q => pc'[r] = pc[r]
  BY <1>1, <1>2, <1>3 DEF TypeOK, Steps
<1>6. /\ view' \in [Procs -> [UserPages -> Values \cup {0}]] /\ view'[q] = view[p]
      /\ \A r \in Procs : r # q => view'[r] = view[r]
  BY <1>1, <1>2, <1>3 DEF TypeOK
<1>7. /\ target' \in [Procs -> Procs] /\ target'[p] = p
      /\ \A r \in Procs : r # p => target'[r] = target[r]
  BY <1>1, <1>2 DEF TypeOK
<1>8. TypeOK'
  BY <1>1, <1>2, <1>5, <1>6, <1>7 DEF TypeOK
<1>9. \A r \in Procs : r # p /\ r # q => Keeps(r)
  BY <1>1, <1>5, <1>6, <1>7 DEF Keeps
<1>10. \A r \in Procs : r # p /\ r # q => ProcOK(r)' /\ Hold(r)' = Hold(r)
  BY <1>1, <1>3, <1>9, Others
<1>11. Quiet(p) /\ Quiet(q)
  BY <1>1, <1>3, <1>5 DEF Quiet
<1>12. /\ Space(p)' = Space(p) /\ SpaceOK(p)'
       /\ \A x \in UserPages : Content(p, x)' = Content(p, x)
  BY <1>1, <1>2, <1>11, QuietSpace, QuietContent
<1>13. /\ Space(q)' = Space(q) /\ SpaceOK(q)'
       /\ \A x \in UserPages : Content(q, x)' = Content(q, x)
  BY <1>1, <1>2, <1>3, <1>4, <1>11, QuietSpace, QuietContent
<1>14. FreeListOK' /\ FreeSet' = FreeSet
  BY <1>1, <1>2, ListSame
<1>15. Apart'
  <2>1. Hold(p)' = Hold(p) /\ Hold(q)' = Hold(q)
    BY <1>1, <1>12, <1>13 DEF Hold
  <2>2. \A r \in Procs : Hold(r)' = Hold(r)
    BY <1>10, <2>1
  <2>3. QED
    BY <1>1, <1>2, <1>14, <2>2 DEF Apart
<1>16. OneParent'
  BY <1>2, <1>7 DEF OneParent
<1>17. \A x \in UserPages : Content(q, x) = view[p][x]
  <2>1. ASSUME NEW x \in UserPages PROVE Content(q, x) = view[p][x]
    <3>1. /\ Entry(pd[q], x) # 0 => mem[Entry(pd[q], x)][0] = view[p][x]
          /\ x \in Present(p) /\ x < page[p] => Entry(pd[q], x) # 0
          /\ Content(p, x) = view[p][x]
      BY <1>1, <1>2, <1>3 DEF Copies, Sees, Alive
    <3>2. CASE Entry(pd[q], x) # 0
      BY <3>1, <3>2 DEF Content, Present
    <3>3. CASE Entry(pd[q], x) = 0
      <4>1. x \notin Present(p)
        <5>1. x \in Nat /\ page[p] \in Nat
          <6>1. Width * Width \in Nat
            BY MemoryAssumption
          <6>2. QED
            BY <1>2, <6>1, PagesAreNumbers DEF TypeOK
        <5>2. page[p] <= x => x \notin Present(p)
          BY <1>1, <1>3, <3>3 DEF ToCopy
        <5>3. QED
          BY <3>1, <3>3, <5>1, <5>2
      <4>2. view[p][x] = 0
        BY <3>1, <4>1 DEF Content
      <4>3. QED
        BY <3>3, <4>2 DEF Content, Present
    <3>4. QED
      BY <3>2, <3>3
  <2>2. QED
    BY <2>1
<1>18. ProcOK(p)'
  <2>1. LocalOK(p)' /\ StepOK(p)' /\ Carries(p)' /\ Copies(p)'
    BY <1>1, <1>2, <1>5, <1>7 DEF LocalOK, StepOK, Carries, Copies
  <2>2. Sees(p)'
    BY <1>1, <1>2, <1>3, <1>6, <1>12 DEF Sees, Alive
  <2>3. QED
    BY <1>12, <2>1, <2>2 DEF ProcOK
<1>19. ProcOK(q)'
  <2>1. LocalOK(q)' /\ StepOK(q)' /\ Carries(q)' /\ Copies(q)'
    BY <1>1, <1>3, <1>5, <1>7 DEF LocalOK, StepOK, Carries, Copies
  <2>2. Sees(q)'
    BY <1>6, <1>13, <1>17 DEF Sees
  <2>3. QED
    BY <1>13, <2>1, <2>2 DEF ProcOK
<1>20. QED
  BY <1>8, <1>10, <1>14, <1>15, <1>16, <1>18, <1>19 DEF IInv

(* exec() and exit() leave the memory as it is.                            *)
LEMMA ProgramKeepsIInv ==
  ASSUME IInv, NEW p \in Procs, Exec(p) \/ Load(p) \/ Exit(p)
  PROVE  IInv'
<1>1. /\ pc[p] \in {"run", "exec"}
      /\ mem' = mem /\ firstFree' = firstFree /\ avail' = avail /\ panicked' = panicked
      /\ pd' = pd /\ page' = page /\ frame' = frame /\ target' = target
  BY DEF Exec, Load, Exit, allocator, locals
<1>2. \E s \in {"run", "exec", "zombie"} :
        /\ pc' = [pc EXCEPT ![p] = s]
        /\ \/ view' = view
           \/ s = "zombie" /\ view' = [view EXCEPT ![p] = [pg \in UserPages |-> 0]]
  BY DEF Exec, Load, Exit, GoTo
<1>3. /\ TypeOK /\ FreeListOK /\ Apart /\ OneParent
      /\ SpaceOK(p) /\ LocalOK(p) /\ StepOK(p) /\ Sees(p)
      /\ target[p] = p /\ pd[p] # 0 /\ frame[p] = 0
  BY <1>1, Stepper DEF StepOK
<1>4. /\ pc' \in [Procs -> Steps] /\ pc'[p] \in {"run", "exec", "zombie"}
      /\ \A r \in Procs : r # p => pc'[r] = pc[r]
  BY <1>2, <1>3 DEF TypeOK, Steps
<1>5. /\ view' \in [Procs -> [UserPages -> Values \cup {0}]]
      /\ \A r \in Procs : r # p => view'[r] = view[r]
      /\ pc'[p] # "zombie" => view'[p] = view[p]
  BY <1>2, <1>3 DEF TypeOK
<1>6. TypeOK'
  BY <1>1, <1>3, <1>4, <1>5 DEF TypeOK
<1>7. \A r \in Procs : r # p => Keeps(r)
  BY <1>1, <1>4, <1>5 DEF Keeps
<1>8. \A r \in Procs : r # p => Hold(r)' = Hold(r)
  BY <1>1, <1>7, Others
<1>9. Quiet(p)
  BY <1>1, <1>4 DEF Quiet
<1>10. /\ Space(p)' = Space(p) /\ SpaceOK(p)'
       /\ \A x \in UserPages : Content(p, x)' = Content(p, x)
  BY <1>1, <1>3, <1>9, QuietSpace, QuietContent
<1>11. FreeListOK' /\ FreeSet' = FreeSet
  BY <1>1, <1>3, ListSame
<1>12. Apart'
  <2>1. Hold(p)' = Hold(p)
    BY <1>1, <1>10 DEF Hold
  <2>2. \A r \in Procs : Hold(r)' = Hold(r)
    BY <1>8, <2>1
  <2>3. QED
    BY <1>1, <1>3, <1>11, <2>2 DEF Apart
<1>13. OneParent'
  BY <1>1, <1>3 DEF OneParent
<1>14. LocalOK(p)' /\ StepOK(p)' /\ Carries(p)' /\ Copies(p)'
  BY <1>1, <1>3, <1>4 DEF LocalOK, StepOK, Carries, Copies
<1>15. Sees(p)'
  BY <1>1, <1>3, <1>4, <1>5, <1>10 DEF Sees, Alive
<1>16. QED
  BY <1>1, <1>6, <1>7, <1>10, <1>11, <1>12, <1>13, <1>14, <1>15, OwnStep DEF ProcOK

(* From here on, the pages are nobody's.                                   *)
LEMMA DeleteKeepsIInv ==
  ASSUME IInv, NEW p \in Procs, Delete(p)
  PROVE  IInv'
<1>1. /\ pc[p] = "zombie" /\ page' = [page EXCEPT ![p] = 0] /\ pc' = [pc EXCEPT ![p] = "delete"]
      /\ mem' = mem /\ firstFree' = firstFree /\ avail' = avail /\ panicked' = panicked
      /\ pd' = pd /\ frame' = frame /\ target' = target /\ view' = view
  BY DEF Delete, GoTo, allocator
<1>2. /\ TypeOK /\ FreeListOK /\ Apart /\ OneParent /\ SpaceOK(p) /\ StepOK(p)
      /\ target[p] = p /\ pd[p] # 0 /\ frame[p] = 0
  BY <1>1, Stepper
<1>3. /\ page' \in [Procs -> 0..(Width * Width)] /\ page'[p] = 0
      /\ \A r \in Procs : r # p => page'[r] = page[r]
      /\ pc' \in [Procs -> Steps] /\ pc'[p] = "delete"
      /\ \A r \in Procs : r # p => pc'[r] = pc[r]
  <2>1. 0 \in 0..(Width * Width)
    BY MemoryAssumption
  <2>2. QED
    BY <1>1, <1>2, <2>1 DEF TypeOK, Steps
<1>4. TypeOK'
  BY <1>1, <1>2, <1>3 DEF TypeOK
<1>5. \A r \in Procs : r # p => Keeps(r)
  BY <1>1, <1>3 DEF Keeps
<1>6. /\ Tables(p)' = Tables(p) /\ TableFrames(p)' = TableFrames(p) /\ PageFrames(p)' = {}
      /\ Space(p)' \subseteq Space(p)
  <2>1. \A i \in Words : 0 <= i
    BY Numbers DEF Words
  <2>2. Tables(p)' = Tables(p)
    BY <1>1, <1>3, <2>1 DEF Tables
  <2>3. TableFrames(p)' = TableFrames(p) /\ PageFrames(p)' = {}
    BY <1>1, <1>3, <2>2 DEF TableFrames, PageFrames
  <2>4. QED
    BY <1>1, <1>2, <2>2, <2>3 DEF Space
<1>7. SpaceOK(p)'
  BY <1>1, <1>2, <1>3, <1>6 DEF SpaceOK
<1>8. FreeListOK' /\ FreeSet' = FreeSet
  BY <1>1, <1>2, ListSame
<1>9. Apart'
  <2>1. \A r \in Procs : r # p => Hold(r)' = Hold(r)
    BY <1>1, <1>5, Others
  <2>2. Hold(p)' \subseteq Hold(p)
    BY <1>1, <1>6 DEF Hold
  <2>3. \A r \in Procs : Hold(r)' \subseteq Hold(r)
    BY <2>1, <2>2
  <2>4. QED
    BY <1>1, <1>2, <1>8, <2>3 DEF Apart
<1>10. OneParent'
  BY <1>1, <1>2 DEF OneParent
<1>11. LocalOK(p)' /\ StepOK(p)' /\ Sees(p)' /\ Carries(p)' /\ Copies(p)'
  BY <1>1, <1>2, <1>3 DEF LocalOK, StepOK, Sees, Alive, Carries, Copies
<1>12. QED
  BY <1>1, <1>4, <1>5, <1>7, <1>8, <1>9, <1>10, <1>11, OwnStep DEF ProcOK

(* A page table goes back to the allocator.                                *)
LEMMA FreeTableKeepsIInv ==
  ASSUME IInv, NEW p \in Procs, NEW i \in Words, FreeTable(p, i)
  PROVE  IInv'
<1>1. /\ pc[p] = "delete" /\ i \in Tables(p) /\ \A j \in Tables(p) : i <= j
      /\ dealloc_frame(mem[pd[p]][i]) /\ page' = [page EXCEPT ![p] = i + 1]
      /\ pd' = pd /\ pc' = pc /\ frame' = frame /\ target' = target /\ view' = view
  BY DEF FreeTable
<1>2. /\ TypeOK /\ FreeListOK /\ Apart /\ OneParent /\ SpaceOK(p) /\ StepOK(p)
      /\ target[p] = p /\ pd[p] # 0 /\ frame[p] = 0 /\ pd[p] \in Frames
  BY <1>1, Stepper DEF TypeOK
<1>3. PICK f \in TableFrames(p) : f = mem[pd[p]][i]
  BY <1>1 DEF TableFrames
<1>4. /\ f \in Hold(p) /\ f # pd[p] /\ f \in 1..(avail - 1) /\ f \notin FreeSet
      /\ \A r \in Procs : r # p => f \notin Hold(r)
  <2>1. f \in Space(p)
    BY <1>2 DEF Space
  <2>2. QED
    BY <1>2, <2>1, HoldFacts DEF SpaceOK
<1>5. /\ FreeListOK' /\ FreeSet' \subseteq FreeSet \cup {f} /\ avail' = avail
      /\ firstFree' \in Frames \cup {0} /\ mem' \in [Frames -> [Words -> Nat]]
      /\ \A g \in Frames : g # f => mem'[g] = mem[g]
  BY <1>1, <1>2, <1>3, <1>4, Returned
<1>6. panicked' = panicked
  BY <1>1 DEF dealloc_frame
<1>7. /\ page' \in [Procs -> 0..(Width * Width)] /\ page'[p] = i + 1
      /\ \A r \in Procs : r # p => page'[r] = page[r]
  <2>1. i + 1 \in 0..(Width * Width)
    <3>1. Width \in Nat /\ Width >= 1 /\ Width <= Width * Width /\ Width * Width \in Nat
      BY MemoryAssumption
    <3>2. QED
      BY <3>1 DEF Words
  <2>2. QED
    BY <1>1, <1>2, <2>1 DEF TypeOK
<1>8. TypeOK'
  BY <1>1, <1>2, <1>5, <1>6, <1>7 DEF TypeOK
<1>9. \A r \in Procs : r # p => Keeps(r)
  BY <1>1, <1>4, <1>5, <1>7, HoldFacts DEF Keeps
<1>10. mem'[pd[p]] = mem[pd[p]]
  BY <1>2, <1>4, <1>5
<1>11. Tables(p)' = Tables(p) \ {i}
  <2>1. \A j \in Words : /\ j \in Int /\ i \in Int
    BY Numbers DEF Words
  <2>2. \A j \in Words : j \in Tables(p) <=> mem[pd[p]][j] # 0 /\ page[p] <= j
    BY <1>1 DEF Tables
  <2>3. \A j \in Words : j \in Tables(p)' <=> mem[pd[p]][j] # 0 /\ i + 1 <= j
    BY <1>1, <1>7, <1>10 DEF Tables
  <2>4. page[p] \in Int /\ page[p] <= i
    <3>1. Width * Width \in Nat
      BY MemoryAssumption
    <3>2. QED
      BY <1>1, <1>2, <2>2, <3>1 DEF TypeOK
  <2>5. Tables(p) \subseteq Words /\ Tables(p)' \subseteq Words
    BY DEF Tables
  <2>6. \A j \in Words : j \in Tables(p)' <=> j \in Tables(p) /\ j # i
    BY <1>1, <2>1, <2>2, <2>3, <2>4
  <2>7. QED
    BY <2>5, <2>6
<1>12. TableFrames(p)' \subseteq TableFrames(p) \ {f} /\ PageFrames(p)' = {} /\ PageFrames(p) = {}
  <2>1. TableFrames(p)' = {mem'[pd'[p]][j] : j \in Tables(p)'}
    BY DEF TableFrames
  <2>2. \A j \in Tables(p)' : /\ mem'[pd'[p]][j] = mem[pd[p]][j]
                              /\ mem[pd[p]][j] \in TableFrames(p) /\ mem[pd[p]][j] # f
    BY <1>1, <1>2, <1>3, <1>10, <1>11 DEF TableFrames, SpaceOK
  <2>3. QED
    BY <1>1, <2>1, <2>2 DEF PageFrames
<1>13. Hold(p)' \subseteq Hold(p) \ {f}
  BY <1>1, <1>2, <1>4, <1>12 DEF Hold, Space
<1>14. SpaceOK(p)'
  <2>1. \A j, k \in Tables(p)' : mem'[pd'[p]][j] = mem'[pd'[p]][k] => j = k
    BY <1>1, <1>2, <1>10, <1>11 DEF SpaceOK
  <2>2. QED
    BY <1>1, <1>2, <1>12, <2>1 DEF SpaceOK
<1>15. Apart'
  <2>1. \A r \in Procs : r # p => Hold(r)' = Hold(r)
    BY <1>1, <1>9, Others
  <2>2. QED
    BY <1>2, <1>4, <1>5, <1>13, <2>1, ApartGives
<1>16. OneParent'
  BY <1>1, <1>2 DEF OneParent
<1>17. LocalOK(p)' /\ StepOK(p)' /\ Sees(p)' /\ Carries(p)' /\ Copies(p)'
  BY <1>1, <1>2 DEF LocalOK, StepOK, Sees, Alive, Carries, Copies
<1>18. QED
  BY <1>1, <1>5, <1>8, <1>9, <1>14, <1>15, <1>16, <1>17, OwnStep DEF ProcOK

(* The directory goes back, when its tables have.                          *)
LEMMA FreeDirectoryKeepsIInv ==
  ASSUME IInv, NEW p \in Procs, FreeDirectory(p)
  PROVE  IInv'
<1>1. /\ pc[p] = "delete" /\ dealloc_frame(pd[p])
      /\ pd' = [pd EXCEPT ![p] = 0] /\ page' = [page EXCEPT ![p] = 0]
      /\ pc' = [pc EXCEPT ![p] = "none"]
      /\ frame' = frame /\ target' = target /\ view' = view
  BY DEF FreeDirectory, GoTo
<1>2. /\ TypeOK /\ FreeListOK /\ Apart /\ OneParent
      /\ target[p] = p /\ pd[p] # 0 /\ frame[p] = 0
  BY <1>1, Stepper
<1>3. PICK f \in Hold(p) : f = pd[p]
  BY <1>2, SpaceFacts, HoldFacts
<1>4. /\ f \in 1..(avail - 1) /\ f \notin FreeSet
      /\ \A r \in Procs : r # p => f \notin Hold(r)
  BY HoldFacts
<1>5. /\ FreeListOK' /\ FreeSet' \subseteq FreeSet \cup {f} /\ avail' = avail
      /\ firstFree' \in Frames \cup {0} /\ mem' \in [Frames -> [Words -> Nat]]
      /\ \A g \in Frames : g # f => mem'[g] = mem[g]
  BY <1>1, <1>2, <1>3, <1>4, Returned
<1>6. panicked' = panicked
  BY <1>1 DEF dealloc_frame
<1>7. /\ page' \in [Procs -> 0..(Width * Width)]
      /\ \A r \in Procs : r # p => page'[r] = page[r]
      /\ pc' \in [Procs -> Steps] /\ pc'[p] = "none"
      /\ \A r \in Procs : r # p => pc'[r] = pc[r]
      /\ pd' \in [Procs -> Frames \cup {0}] /\ pd'[p] = 0
      /\ \A r \in Procs : r # p => pd'[r] = pd[r]
  <2>1. 0 \in 0..(Width * Width)
    BY MemoryAssumption
  <2>2. QED
    BY <1>1, <1>2, <2>1 DEF TypeOK, Steps
<1>8. TypeOK'
  BY <1>1, <1>2, <1>5, <1>6, <1>7 DEF TypeOK
<1>9. \A r \in Procs : r # p => Keeps(r)
  BY <1>1, <1>4, <1>5, <1>7, HoldFacts DEF Keeps
<1>10. Hold(p)' = {} /\ SpaceOK(p)'
  BY <1>1, <1>2, <1>7 DEF Hold, Space, SpaceOK
<1>11. Apart'
  <2>1. \A r \in Procs : r # p => Hold(r)' = Hold(r)
    BY <1>1, <1>9, Others
  <2>2. Hold(p)' \subseteq Hold(p) \ {f}
    BY <1>10
  <2>3. QED
    BY <1>2, <1>5, <2>1, <2>2, ApartGives
<1>12. OneParent'
  BY <1>1, <1>2 DEF OneParent
<1>13. LocalOK(p)' /\ StepOK(p)' /\ Sees(p)' /\ Carries(p)' /\ Copies(p)'
  BY <1>1, <1>2, <1>7 DEF LocalOK, StepOK, Sees, Alive, Carries, Copies
<1>14. QED
  BY <1>1, <1>5, <1>8, <1>9, <1>10, <1>11, <1>12, <1>13, OwnStep DEF ProcOK

(* A panic and a stuttering step change nothing of this.                   *)
LEMMA StandStillKeepsIInv ==
  ASSUME IInv, UNCHANGED <<mem, firstFree, avail, pd, pc, locals, view>>, panicked' \in BOOLEAN
  PROVE  IInv'
<1>1. /\ mem' = mem /\ firstFree' = firstFree /\ avail' = avail /\ pd' = pd /\ pc' = pc
      /\ page' = page /\ frame' = frame /\ target' = target /\ view' = view
  BY DEF locals
<1>2. TypeOK /\ FreeListOK /\ Apart /\ OneParent /\ target \in [Procs -> Procs]
  BY DEF IInv, TypeOK
<1>3. \A r \in Procs : ProcOK(r)' /\ Hold(r)' = Hold(r)
  <2> SUFFICES ASSUME NEW r \in Procs PROVE ProcOK(r)' /\ Hold(r)' = Hold(r)
    OBVIOUS
  <2>1. PICK s \in Procs : s = target[r]
    BY <1>2
  <2>2. QED
    BY <1>1, <2>1, Bystander
<1>4. FreeListOK' /\ FreeSet' = FreeSet
  BY <1>1, <1>2, ListSame
<1>5. TypeOK' /\ OneParent'
  BY <1>1, <1>2 DEF TypeOK, OneParent
<1>6. Apart'
  BY <1>1, <1>2, <1>3, <1>4 DEF Apart
<1>7. QED
  BY <1>3, <1>4, <1>5, <1>6 DEF IInv

-----------------------------------------------------------------------------

(* The APIC's page is the last word of the last table.                     *)
LEMMA ApicWords == Row(apicPage) = Width - 1 /\ Col(apicPage) = Width - 1
<1>1. Width \in Nat /\ Width >= 1 /\ Width * Width \in Nat
  BY MemoryAssumption
<1>2. Row(apicPage) \in 0..(Width - 1) /\ Col(apicPage) \in 0..(Width - 1)
  BY PageWords, Numbers DEF Words
<1>3. Width * Width - 1 = Width * Row(apicPage) + Col(apicPage)
  BY <1>1 DEF Row, Col, apicPage
<1>4. \A k \in Int : k <= Width - 2 => Width * k <= Width * Width - 2 * Width
  BY <1>1
<1>5. Row(apicPage) = Width - 1
  BY <1>1, <1>2, <1>3, <1>4
<1>6. QED
  BY <1>1, <1>2, <1>3, <1>5

(* At the start kernelMain's TCB has a directory and one table.            *)
LEMMA InitIInv == Init => IInv
<1> SUFFICES ASSUME Init PROVE IInv
  OBVIOUS
<1>1. /\ firstFree = 0 /\ avail = 3 /\ panicked = FALSE
      /\ \A p \in Procs : /\ pd[p] = (IF p = First THEN 1 ELSE 0)
                          /\ pc[p] = (IF p = First THEN "run" ELSE "none")
                          /\ page[p] = 0 /\ frame[p] = 0 /\ target[p] = p
                          /\ \A pg \in UserPages : view[p][pg] = 0
  BY DEF Init
<1>2. /\ 1 \in Frames /\ 2 \in Frames /\ First \in Procs /\ 0 \in Index
      /\ Width - 1 \in Words /\ apicFrame \in Nat /\ NFrames \in Nat
  BY Numbers, MemoryAssumption DEF Frames, Index
<1>3. /\ \A w \in Words : mem[1][w] = IF w = Width - 1 THEN 2 ELSE 0
      /\ \A w \in Words : mem[2][w] = IF w = Width - 1 THEN apicFrame ELSE 0
  BY <1>2 DEF Init, Zeros
<1>4. TypeOK
  <2>1. mem \in [Frames -> [Words -> Nat]]
    BY <1>2 DEF Init, Zeros
  <2>2. firstFree \in Frames \cup {0} /\ avail \in 1..(NFrames + 1) /\ panicked \in BOOLEAN
    <3>1. avail \in 1..(NFrames + 1) /\ firstFree \in Frames \cup {0}
      BY <1>1, Numbers
    <3>2. QED
      BY <3>1, Zenon DEF Init
  <2>3. 0 \in 0..(Width * Width)
    BY MemoryAssumption
  <2>4. /\ pd \in [Procs -> Frames \cup {0}] /\ pc \in [Procs -> Steps]
        /\ page \in [Procs -> 0..(Width * Width)] /\ frame \in [Procs -> Frames \cup {0}]
        /\ target \in [Procs -> Procs] /\ view \in [Procs -> [UserPages -> Values \cup {0}]]
    BY <1>2, <2>3 DEF Init, Steps
  <2>5. QED
    BY <2>1, <2>2, <2>4 DEF TypeOK
<1>5. FreeListOK /\ FreeSet = {}
  <2>1. \A n \in Index : Free[n] = 0
    BY <1>1, <1>2, FreeIsWalk, FreeEnded DEF Index
  <2>2. QED
    BY <1>1, <2>1 DEF FreeListOK, FreeSet
<1>6. \A p \in Procs : p # First => Hold(p) = {} /\ SpaceOK(p)
  BY <1>1 DEF Hold, Space, SpaceOK
<1>7. \A pg \in UserPages : Entry(1, pg) = 0
  <2>1. ASSUME NEW pg \in UserPages PROVE Entry(1, pg) = 0
    <3>1. pg \in Pages /\ apicPage \in Pages /\ pg # apicPage
      BY Numbers
    <3>2. Row(pg) \in Words /\ Col(pg) \in Words /\ ~(Row(pg) = Width - 1 /\ Col(pg) = Width - 1)
      BY <3>1, PageWords, ApicWords
    <3>3. Entry(1, pg) = IF mem[1][Row(pg)] = 0 THEN 0 ELSE mem[mem[1][Row(pg)]][Col(pg)]
      BY EntryWords
    <3>4. QED
      BY <1>3, <3>2, <3>3
  <2>2. QED
    BY <2>1
<1>8. /\ Tables(First) = {Width - 1} /\ TableFrames(First) = {2}
      /\ Present(First) = {} /\ PageFrames(First) = {}
  <2>1. pd[First] = 1 /\ pc[First] = "run"
    BY <1>1, <1>2
  <2>2. Tables(First) = {Width - 1}
    BY <1>2, <1>3, <2>1 DEF Tables
  <2>3. TableFrames(First) = {2}
    BY <1>2, <1>3, <2>1, <2>2 DEF TableFrames
  <2>4. Present(First) = {}
    BY <1>7, <2>1 DEF Present
  <2>5. QED
    BY <2>2, <2>3, <2>4 DEF PageFrames
<1>9. Hold(First) = {1, 2} /\ SpaceOK(First)
  BY <1>1, <1>2, <1>8 DEF Hold, Space, SpaceOK
<1>10. Apart
  <2>1. \A p \in Procs : Hold(p) \subseteq {1, 2}
    BY <1>6, <1>9
  <2>2. {1, 2} \subseteq 1..(avail - 1)
    BY <1>1
  <2>3. \A p, q \in Procs : p # q => Hold(p) \cap Hold(q) = {}
    BY <1>6
  <2>4. QED
    BY <1>5, <2>1, <2>2, <2>3 DEF Apart
<1>11. OneParent
  BY <1>1 DEF OneParent
<1>12. \A p \in Procs : LocalOK(p) /\ StepOK(p) /\ Carries(p) /\ Copies(p)
  BY <1>1 DEF LocalOK, StepOK, Carries, Copies
<1>13. \A p \in Procs : Sees(p)
  <2>1. \A pg \in UserPages : Content(First, pg) = view[First][pg]
    BY <1>1, <1>2, <1>8 DEF Content
  <2>2. \A p \in Procs : p # First => p \notin Alive
    BY <1>1 DEF Alive
  <2>3. QED
    BY <2>1, <2>2 DEF Sees
<1>14. QED
  BY <1>4, <1>5, <1>6, <1>9, <1>10, <1>11, <1>12, <1>13 DEF IInv, ProcOK

(* Every step keeps the invariant.                                         *)
LEMMA NextKeepsIInv == IInv /\ [Next]_vars => IInv'
<1>1. SUFFICES ASSUME IInv, [Next]_vars PROVE IInv'
  OBVIOUS
<1>2. CASE UNCHANGED vars
  <2>1. UNCHANGED <<mem, firstFree, avail, pd, pc, locals, view>> /\ panicked' = panicked
    BY <1>2 DEF vars, allocator
  <2>2. panicked' \in BOOLEAN
    BY <1>1, <2>1 DEF IInv, TypeOK
  <2>3. QED
    BY <1>1, <2>1, <2>2, StandStillKeepsIInv
<1>3. ASSUME NEW p \in Procs, Step(p) PROVE IInv'
  <2>1. ASSUME NEW pg \in Touched, PageFault(p, pg) PROVE IInv'
    BY <1>1, <2>1, PageFaultKeepsIInv
  <2>2. ASSUME NEW pg \in Touched, Copy(p, pg) PROVE IInv'
    BY <1>1, <2>2, CopyKeepsIInv
  <2>3. ASSUME NEW pg \in Touched, NEW v \in Values, Write(p, pg, v) PROVE IInv'
    BY <1>1, <2>3, WriteKeepsIInv
  <2>4. ASSUME NEW q \in Procs, Fork(p, q) PROVE IInv'
    BY <1>1, <2>4, ForkKeepsIInv
  <2>5. CASE Map(p)
    BY <1>1, <2>5, MapOwn, MapChild
  <2>6. CASE MapApic(p)
    BY <1>1, <2>6, MapApicKeepsIInv
  <2>7. CASE ScheduleChild(p)
    BY <1>1, <2>7, ScheduleChildKeepsIInv
  <2>8. CASE Exec(p) \/ Load(p) \/ Exit(p)
    BY <1>1, <2>8, ProgramKeepsIInv
  <2>9. CASE Delete(p)
    BY <1>1, <2>9, DeleteKeepsIInv
  <2>10. ASSUME NEW i \in Words, FreeTable(p, i) PROVE IInv'
    BY <1>1, <2>10, FreeTableKeepsIInv
  <2>11. CASE FreeDirectory(p)
    BY <1>1, <2>11, FreeDirectoryKeepsIInv
  <2>12. CASE Panic(p)
    <3>1. UNCHANGED <<mem, firstFree, avail, pd, pc, locals, view>> /\ panicked' \in BOOLEAN
      BY <2>12 DEF Panic
    <3>2. QED
      BY <1>1, <3>1, StandStillKeepsIInv
  <2>13. QED
    BY <1>3, <2>1, <2>2, <2>3, <2>4, <2>5, <2>6, <2>7, <2>8, <2>9, <2>10, <2>11, <2>12 DEF Step
<1>4. QED
  BY <1>1, <1>2, <1>3 DEF Next

(* The invariant holds always.                                             *)
THEOREM Invariance == Spec => []IInv
<1>1. QED
  BY InitIInv, NextKeepsIInv, PTL DEF Spec

-----------------------------------------------------------------------------

(* A program finds in its pages what it, or before fork() its parent, has  *)
(* written there, and zero elsewhere: what another process writes, also in *)
(* a frame that was this one's once, never shows (sys.cc, vmm.cc).         *)
THEOREM MemoryIsPrivate == Spec => []ReadsOwnWrites
<1>1. IInv => ReadsOwnWrites
  BY DEF IInv, ProcOK, Sees, ReadsOwnWrites, Alive
<1>2. QED
  BY <1>1, Invariance, PTL

(* The references to frames, sorted by who has them.                       *)
OnFreeList(r) == \E n \in Index : Free[n] # 0 /\ r = <<"free", n, Free[n]>>
IsDirectory(r, p) == pd[p] # 0 /\ r = <<"directory", p, pd[p]>>
IsTable(r, p) == pd[p] # 0 /\ \E i \in Tables(p) : r = <<"table", <<p, i>>, mem[pd[p]][i]>>
IsPage(r, p) ==
  /\ pd[p] # 0 /\ pc[p] # "delete"
  /\ \E pg \in Present(p) : r = <<"page", <<p, pg>>, Entry(pd[p], pg)>>
IsLocal(r, p) == frame[p] # 0 /\ r = <<"local", p, frame[p]>>
OfProcess(r, p) == IsDirectory(r, p) \/ IsTable(r, p) \/ IsPage(r, p) \/ IsLocal(r, p)

(* Every reference is of one of these kinds.                               *)
LEMMA WhoRefers ==
  ASSUME NEW r \in References
  PROVE  OnFreeList(r) \/ \E p \in Procs : OfProcess(r, p)
<1> DEFINE owners == {p \in Procs : pd[p] # 0}
<1>1. \/ r \in {<<"free", n, Free[n]>> : n \in {m \in 0..NFrames : Free[m] # 0}}
      \/ r \in {<<"directory", p, pd[p]>> : p \in owners}
      \/ r \in UNION {{<<"table", <<p, i>>, mem[pd[p]][i]>> : i \in Tables(p)} : p \in owners}
      \/ r \in UNION {{<<"page", <<p, pg>>, Entry(pd[p], pg)>> : pg \in Present(p)} :
                      p \in {q \in owners : pc[q] # "delete"}}
      \/ r \in {<<"local", p, frame[p]>> : p \in {q \in Procs : frame[q] # 0}}
  BY Zenon DEF References
<1>2. CASE r \in {<<"free", n, Free[n]>> : n \in {m \in 0..NFrames : Free[m] # 0}}
  BY <1>2 DEF OnFreeList, Index
<1>3. CASE r \in {<<"directory", p, pd[p]>> : p \in owners}
  BY <1>3 DEF OfProcess, IsDirectory
<1>4. CASE r \in UNION {{<<"table", <<p, i>>, mem[pd[p]][i]>> : i \in Tables(p)} : p \in owners}
  BY <1>4 DEF OfProcess, IsTable
<1>5. CASE r \in UNION {{<<"page", <<p, pg>>, Entry(pd[p], pg)>> : pg \in Present(p)} :
                       p \in {q \in owners : pc[q] # "delete"}}
  BY <1>5 DEF OfProcess, IsPage
<1>6. CASE r \in {<<"local", p, frame[p]>> : p \in {q \in Procs : frame[q] # 0}}
  BY <1>6 DEF OfProcess, IsLocal
<1>7. QED
  BY <1>1, <1>2, <1>3, <1>4, <1>5, <1>6

(* Which frame it is, for each kind of reference.                          *)
LEMMA WhatIsReferred ==
  ASSUME NEW r, NEW p \in Procs
  PROVE  /\ OnFreeList(r) => r[3] \in FreeSet
         /\ IsDirectory(r, p) => r[3] = pd[p] /\ r[3] \in Hold(p)
         /\ IsTable(r, p) => r[3] \in TableFrames(p) /\ r[3] \in Hold(p)
         /\ IsPage(r, p) => r[3] \in PageFrames(p) /\ r[3] \in Hold(p)
         /\ IsLocal(r, p) => r[3] = frame[p] /\ frame[p] # 0 /\ r[3] \in Hold(p)
         /\ IsDirectory(r, p) \/ IsTable(r, p) \/ IsPage(r, p) => r[3] \in Space(p) /\ pd[p] # 0
BY DEF OnFreeList, IsDirectory, IsTable, IsPage, IsLocal, Hold, Space, TableFrames,
       PageFrames, FreeSet

(* No two processes, page tables or pages have the same frame, none of     *)
(* them is free, and none lies beyond the last that was handed out.        *)
THEOREM EachFrameHasOneUse == Spec => []OneUsePerFrame
<1>1. IInv => OneUsePerFrame
  <2> SUFFICES ASSUME IInv PROVE OneUsePerFrame
    OBVIOUS
  <2>1. ASSUME NEW r \in References, NEW s \in References, r[3] = s[3] PROVE r = s
    <3>1. CASE OnFreeList(r)
      <4>1. r[3] \in FreeSet
        BY <3>1, WhatIsReferred, MemoryAssumption
      <4>2. OnFreeList(s)
        BY <2>1, <4>1, WhoRefers, WhatIsReferred, HoldFacts DEF OfProcess
      <4>3. FreeListOK
        BY DEF IInv
      <4>4. QED
        BY <2>1, <3>1, <4>2, <4>3 DEF OnFreeList, FreeListOK
    <3>2. ASSUME NEW p \in Procs, OfProcess(r, p) PROVE r = s
      <4>1. r[3] \in Hold(p)
        BY <3>2, WhatIsReferred DEF OfProcess
      <4>2. OfProcess(s, p)
        <5>1. ~OnFreeList(s)
          BY <2>1, <4>1, WhatIsReferred, HoldFacts
        <5>2. PICK q \in Procs : OfProcess(s, q)
          BY <5>1, WhoRefers
        <5>3. s[3] \in Hold(q)
          BY <5>2, WhatIsReferred DEF OfProcess
        <5>4. QED
          BY <2>1, <4>1, <5>2, <5>3, HoldFacts
      <4>3. SpaceOK(p) /\ LocalOK(p)
        BY Stepper
      <4>4. CASE IsLocal(r, p)
        <5>1. r[3] \notin Space(p)
          BY <4>3, <4>4, WhatIsReferred DEF LocalOK
        <5>2. IsLocal(s, p)
          BY <2>1, <4>2, <5>1, WhatIsReferred DEF OfProcess
        <5>3. QED
          BY <4>4, <5>2 DEF IsLocal
      <4>5. CASE IsDirectory(r, p)
        <5>1. r[3] \notin TableFrames(p) /\ r[3] \notin PageFrames(p) /\ r[3] \in Space(p)
          BY <4>3, <4>5, WhatIsReferred DEF SpaceOK
        <5>2. IsDirectory(s, p)
          BY <2>1, <4>2, <4>3, <5>1, WhatIsReferred DEF OfProcess, LocalOK
        <5>3. QED
          BY <4>5, <5>2 DEF IsDirectory
      <4>6. CASE IsTable(r, p)
        <5>1. r[3] # pd[p] /\ r[3] \notin PageFrames(p) /\ r[3] \in Space(p) /\ pd[p] # 0
          BY <4>3, <4>6, WhatIsReferred DEF SpaceOK
        <5>2. IsTable(s, p)
          BY <2>1, <4>2, <4>3, <5>1, WhatIsReferred DEF OfProcess, LocalOK
        <5>3. \A i, j \in Tables(p) : mem[pd[p]][i] = mem[pd[p]][j] => i = j
          BY <4>3, <5>1 DEF SpaceOK
        <5>4. QED
          BY <2>1, <4>6, <5>2, <5>3 DEF IsTable
      <4>7. CASE IsPage(r, p)
        <5>1. r[3] # pd[p] /\ r[3] \notin TableFrames(p) /\ r[3] \in Space(p) /\ pd[p] # 0
          BY <4>3, <4>7, WhatIsReferred DEF SpaceOK
        <5>2. IsPage(s, p)
          BY <2>1, <4>2, <4>3, <5>1, WhatIsReferred DEF OfProcess, LocalOK
        <5>3. \A x, y \in Present(p) : Entry(pd[p], x) = Entry(pd[p], y) => x = y
          BY <4>3, <4>7, <5>1 DEF SpaceOK, IsPage
        <5>4. QED
          BY <2>1, <4>7, <5>2, <5>3 DEF IsPage
      <4>8. QED
        BY <3>2, <4>4, <4>5, <4>6, <4>7 DEF OfProcess
    <3>3. QED
      BY <3>1, <3>2, WhoRefers
  <2>2. ASSUME NEW r \in References PROVE r[3] < avail
    <3>1. avail \in Nat /\ FreeListOK
      BY Numbers DEF IInv, TypeOK
    <3>2. CASE OnFreeList(r)
      BY <3>1, <3>2, WhatIsReferred, MemoryAssumption DEF FreeListOK, FreeSet
    <3>3. ASSUME NEW p \in Procs, OfProcess(r, p) PROVE r[3] < avail
      <4>1. r[3] \in Hold(p)
        BY <3>3, WhatIsReferred DEF OfProcess
      <4>2. r[3] \in 1..(avail - 1)
        BY <4>1, HoldFacts
      <4>3. QED
        BY <3>1, <4>2
    <3>4. QED
      BY <3>2, <3>3, WhoRefers
  <2>3. QED
    BY <2>1, <2>2 DEF OneUsePerFrame, IInv
<1>2. QED
  BY <1>1, Invariance, PTL

=============================================================================
